------------------------------- MODULE AuditLog -------------------------------
(***************************************************************************)
(* AuditLog.append of verdict-engine/audit_log.py, run by any number of    *)
(* request threads (and engine processes) at once against one Postgres     *)
(* table.  Each append is a READ COMMITTED transaction that takes a        *)
(* transaction-level advisory lock, reads the newest entry's hash, inserts *)
(* a row and commits; it may fail at any point, which rolls it back.       *)
(*                                                                         *)
(* audit_log holds the COMMITTED rows in the order of their ids, which is  *)
(* what every "ORDER BY id" reads.  A commit puts its row at the place its *)
(* id gives it, so that commit order and id order agree is a property and  *)
(* not an assumption.                                                      *)
(***************************************************************************)
EXTENDS ChainOps

CONSTANTS
  Appender,     \* threads that may be inside append()
  Nobody,       \* the lock's holder when it is free
  NoRow,        \* an appender with no uncommitted row
  MaxRequests   \* bound: calls of append() in a behaviour

ASSUME AppenderAssumption == Nobody \notin Appender
ASSUME NoRowAssumption == NoRow \notin [id : Nat, entry : Entry]
ASSUME BoundAssumption == MaxRequests \in Nat

VARIABLES
  audit_log,    \* committed rows, by id
  next_id,      \* the BIGSERIAL sequence: nextval() is never rolled back
  lock,         \* holder of advisory lock _APPEND_LOCK_KEY
  pc,           \* where each appender is
  verdict,      \* the argument of its append()
  prev_hash,    \* its local prev_hash
  row,          \* its uncommitted row
  requests      \* calls made so far

vars == << audit_log, next_id, lock, pc, verdict, prev_hash, row, requests >>

Row == [id : Nat, entry : Entry]

\* The entries of a table, in the order of its rows.
Entries(t) == [i \in 1..Len(t) |-> t[i].entry]

InTransaction(a) == pc[a] \in {"locked", "read", "inserted"}

TypeOK ==
  /\ audit_log \in Seq(Row)
  /\ next_id \in Nat
  /\ lock \in Appender \cup {Nobody}
  /\ pc \in [Appender -> {"idle", "waiting", "locked", "read", "inserted"}]
  /\ verdict \in [Appender -> Payload]
  /\ prev_hash \in [Appender -> Digest]
  /\ row \in [Appender -> Row \cup {NoRow}]
  /\ requests \in Nat

Init ==
  /\ audit_log = << >>
  /\ next_id = 1
  /\ lock = Nobody
  /\ pc = [a \in Appender |-> "idle"]
  /\ verdict \in {[a \in Appender |-> p] : p \in Payload}
  /\ prev_hash = [a \in Appender |-> GenesisHash]
  /\ row = [a \in Appender |-> NoRow]
  /\ requests = 0

\* A caller enters append() with the record p: the transaction begins and
\* asks for the lock.
Call(a, p) ==
  /\ pc[a] = "idle"
  /\ requests < MaxRequests
  /\ requests' = requests + 1
  /\ pc' = [pc EXCEPT ![a] = "waiting"]
  /\ verdict' = [verdict EXCEPT ![a] = p]
  /\ UNCHANGED << audit_log, next_id, lock, prev_hash, row >>

\* Mutant: no advisory lock serializes the appends.
AcquireLock_None(a) ==
  /\ pc[a] = "waiting"
  /\ lock' = a
  /\ pc' = [pc EXCEPT ![a] = "locked"]
  /\ UNCHANGED << audit_log, next_id, verdict, prev_hash, row, requests >>

\* pg_advisory_xact_lock returns.
AcquireLock(a) ==
  /\ pc[a] = "waiting"
  /\ lock = Nobody
  /\ lock' = a
  /\ pc' = [pc EXCEPT ![a] = "locked"]
  /\ UNCHANGED << audit_log, next_id, verdict, prev_hash, row, requests >>

\* SELECT ... ORDER BY id DESC LIMIT 1: sees what has been committed by now.
ReadLastHash(a) ==
  /\ pc[a] = "locked"
  /\ prev_hash' = [prev_hash EXCEPT ![a] = LastHash(Entries(audit_log))]
  /\ pc' = [pc EXCEPT ![a] = "read"]
  /\ UNCHANGED << audit_log, next_id, lock, verdict, row, requests >>

\* INSERT: the row gets the next id and stays invisible to the others.
Insert(a) ==
  /\ pc[a] = "read"
  /\ row' = [row EXCEPT ![a] =
               [id |-> next_id, entry |-> MakeEntry(verdict[a], prev_hash[a])]]
  /\ next_id' = next_id + 1
  /\ pc' = [pc EXCEPT ![a] = "inserted"]
  /\ UNCHANGED << audit_log, lock, verdict, prev_hash, requests >>

\* The table with row r added: rows of smaller ids, r, rows of larger ids.
Placed(t, r) ==
  LET k == CHOOSE n \in 0..Len(t) :
             /\ \A i \in 1..n : t[i].id < r.id
             /\ \A i \in (n + 1)..Len(t) : t[i].id > r.id
  IN  Append(SubSeq(t, 1, k), r) \o SubSeq(t, k + 1, Len(t))

\* The end of "with conn.transaction()": the row becomes visible and the
\* lock is released.
Commit(a) ==
  /\ pc[a] = "inserted"
  /\ audit_log' = Placed(audit_log, row[a])
  /\ row' = [row EXCEPT ![a] = NoRow]
  /\ lock' = IF lock = a THEN Nobody ELSE lock
  /\ pc' = [pc EXCEPT ![a] = "idle"]
  /\ UNCHANGED << next_id, verdict, prev_hash, requests >>

\* Mutant: a session-level lock, which a rollback does not release.
Abort_KeepsLock(a) ==
  /\ pc[a] # "idle"
  /\ row' = [row EXCEPT ![a] = NoRow]
  /\ pc' = [pc EXCEPT ![a] = "idle"]
  /\ UNCHANGED << audit_log, next_id, lock, verdict, prev_hash, requests >>

\* A statement fails, the connection drops or the process dies: Postgres
\* discards the row and releases the lock, but not the id.
Abort(a) ==
  /\ pc[a] # "idle"
  /\ row' = [row EXCEPT ![a] = NoRow]
  /\ lock' = IF lock = a THEN Nobody ELSE lock
  /\ pc' = [pc EXCEPT ![a] = "idle"]
  /\ UNCHANGED << audit_log, next_id, verdict, prev_hash, requests >>

Next ==
  \E a \in Appender :
    \/ \E p \in Payload : Call(a, p)
    \/ AcquireLock(a)
    \/ ReadLastHash(a)
    \/ Insert(a)
    \/ Commit(a)
    \/ Abort(a)

Spec == Init /\ [][Next]_vars

\* Postgres queues lock waiters in order, so a waiter that is repeatedly
\* offered the lock gets it; statements that have their locks complete.
Fairness ==
  \A a \in Appender :
    /\ SF_vars(AcquireLock(a))
    /\ WF_vars(ReadLastHash(a))
    /\ WF_vars(Insert(a))
    /\ WF_vars(Commit(a))

FairSpec == Spec /\ Fairness

-------------------------------------------------------------------------------
(* Properties *)

\* However appends interleave and fail, GET /verify answers intact: the
\* comment at audit_log.py:25-27 that no append can "silently fork the chain".
ChainIntact == BrokenAt(Entries(audit_log)) = 0

\* ORDER BY id reads the rows in the order they were committed: no row ever
\* becomes visible in front of one that a reader has already seen.
CommitsAtEnd ==
  [][ /\ Len(audit_log) <= Len(audit_log')
      /\ SubSeq(audit_log', 1, Len(audit_log)) = audit_log ]_vars

\* The README's "an edited entry breaks the chain and is detectable", for
\* every reachable log and any rewriting of the two columns of a row that
\* verify_chain_detail reads.  It reports exactly that row, unless the new
\* data keeps the link and the new hash fits it: then the row behind gives
\* the forgery away, and the newest row, which has none behind it, passes.
\* The column prev_log_hash is not read, and rewriting it never shows.
EditDetected ==
  LET c == Entries(audit_log)
      Forged(i, x, d) == x.prev_log_hash = c[i].data.prev_log_hash /\ d = Rehash(x)
  IN  \A i \in 1..Len(c), x \in Data, d \in Digest :
        x # c[i].data \/ d # c[i].entry_hash =>
          BrokenAt([c EXCEPT ![i].data = x, ![i].entry_hash = d]) =
            IF ~Forged(i, x, d) THEN i ELSE IF i < Len(c) THEN i + 1 ELSE 0

\* Dropping a row other than the newest is reported at its position; the
\* newest row has no successor to give its absence away.
RemovalDetected ==
  LET c == Entries(audit_log)
  IN  \A i \in 1..(Len(c) - 1) :
        BrokenAt(SubSeq(c, 1, i - 1) \o SubSeq(c, i + 1, Len(c))) = i

\* The committed rows behave like the atomic append-only chain.
Chain == INSTANCE HashChain WITH chain <- Entries(audit_log)
ImplementsHashChain == Chain!Spec

\* Every call of append() returns, committed or failed: nobody waits forever
\* on a lock that another transaction dropped on the floor.
AppendReturns == \A a \in Appender : pc[a] = "waiting" ~> pc[a] = "idle"
===============================================================================
