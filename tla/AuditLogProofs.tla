---------------------------- MODULE AuditLogProofs ----------------------------
(***************************************************************************)
(* Proofs about AuditLog.  The argument: only the lock's holder is inside  *)
(* a transaction, so what it read as the newest hash is still the newest   *)
(* hash when it commits, and its id is larger than every committed one.    *)
(* A commit is therefore the atomic append of HashChain.                   *)
(***************************************************************************)
EXTENDS AuditLog, SequenceTheorems, TLAPS

\* Only the holder of the lock is in a transaction.
LockInv == \A a \in Appender : InTransaction(a) <=> lock = a

\* What the holder has read is current, and its row links to it.
HolderInv ==
  \A a \in Appender :
    /\ pc[a] \in {"read", "inserted"} =>
         prev_hash[a] = LastHash(Entries(audit_log))
    /\ pc[a] = "inserted" =>
         /\ row[a] \in Row
         /\ row[a].entry = MakeEntry(verdict[a], prev_hash[a])
         /\ row[a].id < next_id
         /\ \A i \in 1..Len(audit_log) : audit_log[i].id < row[a].id

\* Committed ids have all been handed out.
IdInv == \A i \in 1..Len(audit_log) : audit_log[i].id < next_id

ChainInv == Intact(Entries(audit_log))

IInv == TypeOK /\ LockInv /\ HolderInv /\ IdInv /\ ChainInv

-------------------------------------------------------------------------------
(* Lemmas about the operators *)

\* The chain that ORDER BY id reads is a sequence of entries.
LEMMA EntriesType ==
  ASSUME NEW t \in Seq(Row)
  PROVE  /\ Entries(t) \in Seq(Entry)
         /\ Len(Entries(t)) = Len(t)
         /\ \A i \in 1..Len(t) : Entries(t)[i] = t[i].entry
<1>1. \A i \in 1..Len(t) : t[i] \in Row
  OBVIOUS
<1>2. \A r \in Row : r.entry \in Entry
  BY DEF Row
<1>3. \A i \in 1..Len(t) : t[i].entry \in Entry
  BY <1>1, <1>2
<1>4. Len(t) \in Nat
  OBVIOUS
<1>5. Entries(t) \in Seq(Entry)
  BY <1>3, <1>4, IsASeq DEF Entries
<1>6. QED
  BY <1>4, <1>5 DEF Entries

\* When a committed row is placed after all others, the chain grows by it at
\* its end and stays the same before (Commit).
LEMMA EntriesAppend ==
  ASSUME NEW t \in Seq(Row), NEW r \in Row
  PROVE  Entries(Append(t, r)) = Append(Entries(t), r.entry)
<1> DEFINE t2 == Append(t, r)
           c == Entries(t)
           c2 == Entries(t2)
<1>1. r.entry \in Entry
  BY DEF Row
<1>2. t2 \in Seq(Row) /\ Len(t2) = Len(t) + 1
      /\ t2[Len(t) + 1] = r /\ \A i \in 1..Len(t) : t2[i] = t[i]
  BY AppendProperties
<1>3. c \in Seq(Entry) /\ Len(c) = Len(t) /\ \A i \in 1..Len(t) : c[i] = t[i].entry
  BY EntriesType
<1>4. c2 \in Seq(Entry) /\ Len(c2) = Len(t2) /\ \A i \in 1..Len(t2) : c2[i] = t2[i].entry
  BY <1>2, EntriesType
<1> HIDE DEF t2, c, c2
<1>5. /\ Append(c, r.entry) \in Seq(Entry)
      /\ Len(Append(c, r.entry)) = Len(c) + 1
      /\ Append(c, r.entry)[Len(c) + 1] = r.entry
      /\ \A i \in 1..Len(c) : Append(c, r.entry)[i] = c[i]
  BY <1>1, <1>3, AppendProperties
<1>6. Len(t) \in Nat
  OBVIOUS
<1>7. \A i \in 1..Len(c2) : c2[i] = Append(c, r.entry)[i]
  BY <1>2, <1>3, <1>4, <1>5, <1>6
<1>8. c2 = Append(c, r.entry)
  BY <1>2, <1>3, <1>4, <1>5, <1>6, <1>7, SeqEqual
<1>9. QED
  BY <1>8 DEF t2, c, c2

\* A row whose id is larger than all others is placed at the end.
LEMMA PlacedAtEnd ==
  ASSUME NEW t \in Seq(Row), NEW r \in Row,
         \A i \in 1..Len(t) : t[i].id < r.id
  PROVE  Placed(t, r) = Append(t, r)
<1> DEFINE Fits(n) == /\ \A i \in 1..n : t[i].id < r.id
                      /\ \A i \in (n + 1)..Len(t) : t[i].id > r.id
           k == CHOOSE n \in 0..Len(t) : Fits(n)
<1>0. Len(t) \in Nat
  OBVIOUS
<1>1. Len(t) \in 0..Len(t) /\ Fits(Len(t))
  BY <1>0
<1> HIDE DEF Fits
<1>2. k \in 0..Len(t) /\ Fits(k)
  BY <1>1
<1> USE DEF Fits
<1> HIDE DEF k
<1>3. k = Len(t)
  <2>1. SUFFICES ASSUME k < Len(t) PROVE FALSE
    BY <1>2
  <2>2. k + 1 \in (k + 1)..Len(t) /\ k + 1 \in 1..Len(t)
    BY <1>2, <2>1
  <2>3. t[k + 1].id > r.id /\ t[k + 1].id < r.id
    BY <1>2, <2>2
  <2>4. t[k + 1].id \in Nat /\ r.id \in Nat
    <3>1. t[k + 1] \in Row
      BY <2>2
    <3>2. \A x \in Row : x.id \in Nat
      BY DEF Row
    <3>3. QED
      BY <3>1, <3>2
  <2>5. QED
    BY <2>3, <2>4
<1>4. SubSeq(t, 1, Len(t)) = t /\ SubSeq(t, Len(t) + 1, Len(t)) = << >>
  BY SubSeqFull, SubSeqEmpty
<1>5. Append(t, r) \o << >> = Append(t, r)
  OBVIOUS
<1>6. Placed(t, r) = Append(SubSeq(t, 1, k), r) \o SubSeq(t, k + 1, Len(t))
  BY DEF Placed, k
<1>7. QED
  BY <1>3, <1>4, <1>5, <1>6

\* _last_hash returns a digest: the newest entry's, or the genesis hash.
LEMMA LastHashType ==
  ASSUME NEW c \in Seq(Entry)
  PROVE  LastHash(c) \in Digest
<1>1. CASE c = << >>
  BY <1>1, HashAssumption DEF LastHash
<1>2. CASE c # << >>
  <2>1. c[Len(c)] \in Entry
    BY <1>2
  <2>2. QED
    BY <1>2, <2>1 DEF LastHash, Entry
<1>3. QED
  BY <1>1, <1>2

\* The entry that append builds from a payload and a digest is a proper one.
LEMMA MakeEntryType ==
  ASSUME NEW p \in Payload, NEW d \in Digest
  PROVE  MakeEntry(p, d) \in Entry
BY HashAssumption DEF MakeEntry, Entry, Data

\* Linking an entry to the newest hash keeps a chain intact.
LEMMA IntactAppend ==
  ASSUME NEW c \in Seq(Entry), Intact(c),
         NEW p \in Payload
  PROVE  Intact(Append(c, MakeEntry(p, LastHash(c))))
<1> DEFINE e == MakeEntry(p, LastHash(c))
           c2 == Append(c, e)
<1>1. e \in Entry
  BY LastHashType, MakeEntryType
<1>2. c2 \in Seq(Entry) /\ Len(c2) = Len(c) + 1 /\ c2[Len(c) + 1] = e
      /\ \A i \in 1..Len(c) : c2[i] = c[i]
  BY <1>1
<1>3. SUFFICES ASSUME NEW i \in 1..(Len(c) + 1)
               PROVE  EntryOk(c2, i)
  BY <1>2 DEF Intact
<1>4. CASE i \in 1..Len(c)
  <2>1. EntryOk(c, i)
    BY <1>4 DEF Intact
  <2>2. CarriedHash(c2, i) = CarriedHash(c, i)
    <3>1. CASE i = 1
      BY <3>1 DEF CarriedHash
    <3>2. CASE i # 1
      <4>1. i - 1 \in 1..Len(c)
        BY <1>4, <3>2
      <4>2. QED
        BY <1>2, <3>2, <4>1 DEF CarriedHash
    <3>3. QED
      BY <3>1, <3>2
  <2>3. QED
    BY <1>2, <1>4, <2>1, <2>2 DEF EntryOk
<1>5. CASE i = Len(c) + 1
  <2>1. CarriedHash(c2, i) = LastHash(c)
    <3>1. CASE c = << >>
      BY <1>5, <3>1 DEF CarriedHash, LastHash
    <3>2. CASE c # << >>
      <4>1. Len(c) \in 1..Len(c) /\ i # 1 /\ i - 1 = Len(c)
        BY <1>5, <3>2
      <4>2. QED
        BY <1>2, <3>2, <4>1 DEF CarriedHash, LastHash
    <3>3. QED
      BY <3>1, <3>2
  <2>2. QED
    BY <1>2, <1>5, <2>1 DEF EntryOk, MakeEntry, Rehash
<1>6. QED
  BY <1>4, <1>5
-------------------------------------------------------------------------------
(* The inductive invariant *)

\* The empty log satisfies the inductive invariant.
LEMMA InitIInv == Init => IInv
<1> SUFFICES ASSUME Init PROVE IInv
  OBVIOUS
<1>1. TypeOK
  BY HashAssumption, BoundAssumption DEF Init, TypeOK
<1>2. LockInv
  BY AppenderAssumption DEF Init, LockInv, InTransaction
<1>3. HolderInv
  BY DEF Init, HolderInv
<1>4. IdInv
  BY DEF Init, IdInv
<1>5. ChainInv
  <2>1. Entries(audit_log) \in Seq(Entry) /\ Len(Entries(audit_log)) = Len(audit_log)
    BY <1>1, EntriesType DEF TypeOK
  <2>2. Len(audit_log) = 0
    BY DEF Init
  <2>3. QED
    BY <2>1, <2>2 DEF ChainInv, Intact
<1>6. QED
  BY <1>1, <1>2, <1>3, <1>4, <1>5 DEF IInv

\* What Commit does to the log when the invariant holds: its row goes to the
\* end, where it links to the hash before it.
LEMMA CommitAppends ==
  ASSUME IInv, NEW a \in Appender, Commit(a)
  PROVE  /\ row[a] \in Row
         /\ audit_log' = Append(audit_log, row[a])
         /\ Entries(audit_log)' =
              Append(Entries(audit_log),
                     MakeEntry(verdict[a], LastHash(Entries(audit_log))))
<1>1. /\ row[a] \in Row
      /\ row[a].entry = MakeEntry(verdict[a], LastHash(Entries(audit_log)))
      /\ \A i \in 1..Len(audit_log) : audit_log[i].id < row[a].id
  BY DEF IInv, HolderInv, Commit
<1>2. audit_log \in Seq(Row)
  BY DEF IInv, TypeOK
<1>3. audit_log' = Append(audit_log, row[a])
  BY <1>1, <1>2, PlacedAtEnd DEF Commit
<1>4. Entries(audit_log)' = Entries(audit_log')
  BY DEF Entries
<1>5. QED
  BY <1>1, <1>2, <1>3, <1>4, EntriesAppend

\* No step of append, commit or abort breaks a type.
LEMMA TypeStep == IInv /\ [Next]_vars => TypeOK'
<1> SUFFICES ASSUME IInv, [Next]_vars PROVE TypeOK'
  OBVIOUS
<1> USE DEF TypeOK
<1>0. TypeOK
  BY DEF IInv
<1>1. ASSUME NEW a \in Appender, NEW p \in Payload, Call(a, p) PROVE TypeOK'
  BY <1>0, <1>1 DEF Call
<1>2. ASSUME NEW a \in Appender, AcquireLock(a) PROVE TypeOK'
  BY <1>0, <1>2 DEF AcquireLock
<1>3. ASSUME NEW a \in Appender, ReadLastHash(a) PROVE TypeOK'
  <2>1. LastHash(Entries(audit_log)) \in Digest
    BY <1>0, EntriesType, LastHashType
  <2>2. QED
    BY <1>0, <1>3, <2>1 DEF ReadLastHash
<1>4. ASSUME NEW a \in Appender, Insert(a) PROVE TypeOK'
  <2>1. MakeEntry(verdict[a], prev_hash[a]) \in Entry
    BY <1>0, MakeEntryType
  <2>2. [id |-> next_id, entry |-> MakeEntry(verdict[a], prev_hash[a])] \in Row
    BY <1>0, <2>1 DEF Row
  <2>3. QED
    BY <1>0, <1>4, <2>2 DEF Insert
<1>5. ASSUME NEW a \in Appender, Commit(a) PROVE TypeOK'
  <2>1. audit_log' \in Seq(Row)
    <3>1. row[a] \in Row /\ audit_log' = Append(audit_log, row[a])
      BY <1>5, CommitAppends
    <3>2. QED
      BY <1>0, <3>1, AppendProperties
  <2>2. QED
    BY <1>0, <1>5, <2>1 DEF Commit
<1>6. ASSUME NEW a \in Appender, Abort(a) PROVE TypeOK'
  BY <1>0, <1>6 DEF Abort
<1>7. CASE UNCHANGED vars
  BY <1>0, <1>7 DEF vars
<1>8. QED
  BY <1>1, <1>2, <1>3, <1>4, <1>5, <1>6, <1>7 DEF Next

\* At most one transaction is past pg_advisory_xact_lock, and it is the holder.
LEMMA LockStep == IInv /\ [Next]_vars => LockInv'
<1> SUFFICES ASSUME IInv, [Next]_vars PROVE LockInv'
  OBVIOUS
<1>0. /\ LockInv
      /\ pc \in [Appender -> {"idle", "waiting", "locked", "read", "inserted"}]
  BY DEF IInv, TypeOK
<1> USE AppenderAssumption DEF LockInv, InTransaction
<1>1. ASSUME NEW a \in Appender, NEW p \in Payload, Call(a, p) PROVE LockInv'
  BY <1>0, <1>1 DEF Call
<1>2. ASSUME NEW a \in Appender, AcquireLock(a) PROVE LockInv'
  BY <1>0, <1>2 DEF AcquireLock
<1>3. ASSUME NEW a \in Appender, ReadLastHash(a) PROVE LockInv'
  BY <1>0, <1>3 DEF ReadLastHash
<1>4. ASSUME NEW a \in Appender, Insert(a) PROVE LockInv'
  BY <1>0, <1>4 DEF Insert
<1>5. ASSUME NEW a \in Appender, Commit(a) PROVE LockInv'
  BY <1>0, <1>5 DEF Commit
<1>6. ASSUME NEW a \in Appender, Abort(a) PROVE LockInv'
  BY <1>0, <1>6 DEF Abort
<1>7. CASE UNCHANGED vars
  BY <1>0, <1>7 DEF vars
<1>8. QED
  BY <1>1, <1>2, <1>3, <1>4, <1>5, <1>6, <1>7 DEF Next

\* What the holder read as the newest hash is still the newest when it inserts
\* and commits: nobody else commits meanwhile.
LEMMA HolderStep == IInv /\ [Next]_vars => HolderInv'
<1> SUFFICES ASSUME IInv, [Next]_vars PROVE HolderInv'
  OBVIOUS
<1>0. TypeOK /\ LockInv /\ HolderInv /\ IdInv
  BY DEF IInv
<1>1. ASSUME NEW a \in Appender, NEW p \in Payload, Call(a, p) PROVE HolderInv'
  BY <1>0, <1>1 DEF Call, HolderInv, TypeOK, Entries
<1>2. ASSUME NEW a \in Appender, AcquireLock(a) PROVE HolderInv'
  BY <1>0, <1>2 DEF AcquireLock, HolderInv, TypeOK, Entries
<1>3. ASSUME NEW a \in Appender, ReadLastHash(a) PROVE HolderInv'
  BY <1>0, <1>3 DEF ReadLastHash, HolderInv, TypeOK, Entries
<1>4. ASSUME NEW a \in Appender, Insert(a) PROVE HolderInv'
  <2> SUFFICES ASSUME NEW b \in Appender
               PROVE  /\ pc'[b] \in {"read", "inserted"} =>
                           prev_hash'[b] = LastHash(Entries(audit_log))'
                      /\ pc'[b] = "inserted" =>
                           /\ row'[b] \in Row
                           /\ row'[b].entry = MakeEntry(verdict'[b], prev_hash'[b])
                           /\ row'[b].id < next_id'
                           /\ \A i \in 1..Len(audit_log') : audit_log'[i].id < row'[b].id
    BY DEF HolderInv
  <2>1. CASE b = a
    <3> DEFINE r == [id |-> next_id, entry |-> MakeEntry(verdict[a], prev_hash[a])]
    <3>1. row'[a] = r /\ next_id' = next_id + 1 /\ next_id \in Nat
      BY <1>0, <1>4 DEF Insert, TypeOK
    <3>2. r \in Row
      BY <1>0, <3>1, MakeEntryType DEF TypeOK, Row
    <3>3. r.id = next_id /\ r.entry = MakeEntry(verdict[a], prev_hash[a])
      OBVIOUS
    <3> HIDE DEF r
    <3>4. prev_hash[a] = LastHash(Entries(audit_log))
      BY <1>0, <1>4 DEF Insert, HolderInv
    <3>5. \A i \in 1..Len(audit_log) : audit_log[i].id < next_id
      BY <1>0 DEF IdInv
    <3>6. QED
      BY <1>4, <2>1, <3>1, <3>2, <3>3, <3>4, <3>5 DEF Insert, Entries
  <2>2. CASE b # a
    <3>1. pc[b] \notin {"read", "inserted"}
      BY <1>0, <1>4, <2>2 DEF Insert, LockInv, InTransaction
    <3>2. QED
      BY <1>0, <1>4, <2>2, <3>1 DEF Insert, TypeOK
  <2>3. QED
    BY <2>1, <2>2
<1>5. ASSUME NEW a \in Appender, Commit(a) PROVE HolderInv'
  <2>1. \A b \in Appender : b # a => pc[b] \notin {"read", "inserted"}
    BY <1>0, <1>5 DEF Commit, LockInv, InTransaction
  <2>2. \A b \in Appender : pc'[b] \notin {"read", "inserted"}
    BY <1>0, <1>5, <2>1 DEF Commit, TypeOK
  <2>3. QED
    BY <2>2 DEF HolderInv
<1>6. ASSUME NEW a \in Appender, Abort(a) PROVE HolderInv'
  BY <1>0, <1>6 DEF Abort, HolderInv, TypeOK, Entries
<1>7. CASE UNCHANGED vars
  BY <1>0, <1>7 DEF vars, HolderInv, Entries
<1>8. QED
  BY <1>1, <1>2, <1>3, <1>4, <1>5, <1>6, <1>7 DEF Next

\* Only Commit changes the log; it adds one entry that links to the newest.
LEMMA LogStep ==
  ASSUME IInv, [Next]_vars
  PROVE  \/ /\ audit_log' = audit_log
            /\ Entries(audit_log)' = Entries(audit_log)
            /\ next_id' = next_id \/ next_id' = next_id + 1
         \/ \E a \in Appender :
              /\ row[a] \in Row
              /\ row[a].id < next_id
              /\ next_id' = next_id
              /\ verdict[a] \in Payload
              /\ audit_log' = Append(audit_log, row[a])
              /\ Entries(audit_log)' =
                   Append(Entries(audit_log),
                          MakeEntry(verdict[a], LastHash(Entries(audit_log))))
<1>1. ASSUME NEW a \in Appender, Commit(a)
      PROVE  /\ row[a] \in Row
             /\ row[a].id < next_id
             /\ next_id' = next_id
             /\ verdict[a] \in Payload
             /\ audit_log' = Append(audit_log, row[a])
             /\ Entries(audit_log)' =
                  Append(Entries(audit_log),
                         MakeEntry(verdict[a], LastHash(Entries(audit_log))))
  BY <1>1, CommitAppends DEF IInv, TypeOK, HolderInv, Commit
<1>2. CASE \E a \in Appender : Commit(a)
  BY <1>1, <1>2
<1>3. CASE ~\E a \in Appender : Commit(a)
  <2>1. /\ audit_log' = audit_log
        /\ next_id' = next_id \/ next_id' = next_id + 1
    BY <1>3 DEF Next, vars, Call, AcquireLock, ReadLastHash, Insert, Abort
  <2>2. QED
    BY <2>1 DEF Entries
<1>4. QED
  BY <1>2, <1>3

\* Every id handed out by the sequence is larger than those of committed rows.
LEMMA IdStep == IInv /\ [Next]_vars => IdInv'
<1> SUFFICES ASSUME IInv, [Next]_vars PROVE IdInv'
  OBVIOUS
<1>0. TypeOK /\ IdInv
  BY DEF IInv
<1>1. \A i \in 1..Len(audit_log) : audit_log[i] \in Row
  BY <1>0 DEF TypeOK
<1>2. \A r \in Row : r.id \in Nat
  BY DEF Row
<1>3. CASE audit_log' = audit_log /\ (next_id' = next_id \/ next_id' = next_id + 1)
  BY <1>0, <1>1, <1>2, <1>3 DEF IdInv, TypeOK
<1>4. ASSUME NEW r \in Row, r.id < next_id, next_id' = next_id,
             audit_log' = Append(audit_log, r)
      PROVE  IdInv'
  <2>1. /\ Len(audit_log') = Len(audit_log) + 1
        /\ audit_log'[Len(audit_log) + 1] = r
        /\ \A i \in 1..Len(audit_log) : audit_log'[i] = audit_log[i]
        /\ Len(audit_log) \in Nat
    BY <1>0, <1>4, AppendProperties DEF TypeOK
  <2>2. QED
    BY <1>0, <1>4, <2>1 DEF IdInv
<1>5. QED
  BY <1>3, <1>4, LogStep

\* Every committed entry links to the one before it and hashes to its own
\* entry_hash, and stays so.
LEMMA ChainStep == IInv /\ [Next]_vars => ChainInv'
<1> SUFFICES ASSUME IInv, [Next]_vars PROVE ChainInv'
  OBVIOUS
<1>1. Entries(audit_log) \in Seq(Entry) /\ Intact(Entries(audit_log))
  BY EntriesType DEF IInv, TypeOK, ChainInv
<1>2. CASE Entries(audit_log)' = Entries(audit_log)
  BY <1>1, <1>2 DEF ChainInv
<1>3. ASSUME NEW p \in Payload,
             Entries(audit_log)' =
               Append(Entries(audit_log), MakeEntry(p, LastHash(Entries(audit_log))))
      PROVE  ChainInv'
  BY <1>1, <1>3, IntactAppend DEF ChainInv
<1>4. QED
  BY <1>2, <1>3, LogStep

\* The invariant on which all others rest holds in every reachable state of
\* concurrent appends.
THEOREM InductiveInvariant == Spec => []IInv
<1>1. IInv /\ [Next]_vars => IInv'
  BY TypeStep, LockStep, HolderStep, IdStep, ChainStep DEF IInv
<1>2. QED
  BY InitIInv, <1>1, PTL DEF Spec
-------------------------------------------------------------------------------
(* The theorems *)

\* Every variable keeps its type: in particular every committed row is an
\* entry with digests in its hash columns.
THEOREM TypeCorrect == Spec => []TypeOK
BY InductiveInvariant, PTL DEF IInv

\* verify_chain_detail answers intact in every reachable state, for any
\* number of appenders, payloads and calls: the chain never forks.
THEOREM ChainAlwaysIntact == Spec => []ChainIntact
<1>1. IInv => ChainIntact
  BY DEF IInv, ChainInv, ChainIntact, BrokenAt
<1>2. QED
  BY InductiveInvariant, <1>1, PTL

\* Rows become visible in id order, at the end of the log only.
THEOREM CommitsOnlyAtEnd == Spec => CommitsAtEnd
<1> DEFINE AtEnd == /\ Len(audit_log) <= Len(audit_log')
                    /\ SubSeq(audit_log', 1, Len(audit_log)) = audit_log
<1>1. IInv /\ [Next]_vars => [AtEnd]_vars
  <2> SUFFICES ASSUME IInv, [Next]_vars PROVE AtEnd
    OBVIOUS
  <2>1. audit_log \in Seq(Row) /\ Len(audit_log) \in Nat
    BY DEF IInv, TypeOK
  <2>2. CASE audit_log' = audit_log
    BY <2>1, <2>2, SubSeqFull
  <2>3. ASSUME NEW r \in Row, audit_log' = Append(audit_log, r) PROVE AtEnd
    <3>1. /\ audit_log' \in Seq(Row)
          /\ Len(audit_log') = Len(audit_log) + 1
          /\ \A i \in 1..Len(audit_log) : audit_log'[i] = audit_log[i]
      BY <2>1, <2>3, AppendProperties
    <3>2. SubSeq(audit_log', 1, Len(audit_log)) \in Seq(Row)
          /\ Len(SubSeq(audit_log', 1, Len(audit_log))) = Len(audit_log)
          /\ \A i \in 1..Len(audit_log) :
               SubSeq(audit_log', 1, Len(audit_log))[i] = audit_log'[i]
      BY <2>1, <3>1, SubSeqProperties
    <3>3. SubSeq(audit_log', 1, Len(audit_log)) = audit_log
      BY <2>1, <3>1, <3>2, SeqEqual
    <3>4. QED
      BY <2>1, <3>1, <3>3
  <2>4. QED
    BY <2>2, <2>3, LogStep
<1>2. QED
  BY InductiveInvariant, <1>1, PTL DEF Spec, CommitsAtEnd

\* The locked, abortable transactions implement the atomic append-only
\* chain: each step either leaves the entries alone or is one AppendEntry.
THEOREM Refinement == Spec => ImplementsHashChain
<1>1. Init => Chain!Init
  <2> SUFFICES ASSUME Init PROVE Entries(audit_log) = << >>
    BY DEF Chain!Init
  <2>1. audit_log = << >> /\ << >> \in Seq(Row) /\ Len(audit_log) = 0
    BY DEF Init
  <2>2. Entries(audit_log) \in Seq(Entry) /\ Len(Entries(audit_log)) = 0
    BY <2>1, EntriesType
  <2>3. QED
    BY <2>2, EmptySeq
<1>2. IInv /\ [Next]_vars => [Chain!Next]_(Entries(audit_log))
  <2> SUFFICES ASSUME IInv, [Next]_vars
               PROVE  Chain!Next \/ Entries(audit_log)' = Entries(audit_log)
    OBVIOUS
  <2>1. ASSUME NEW p \in Payload,
               Entries(audit_log)' =
                 Append(Entries(audit_log), MakeEntry(p, LastHash(Entries(audit_log))))
        PROVE  Chain!Next
    BY <2>1 DEF Chain!Next, Chain!AppendEntry, Chain!MakeEntry, Chain!LastHash,
                MakeEntry, LastHash
  <2>2. QED
    BY <2>1, LogStep
<1>3. QED
  BY InductiveInvariant, <1>1, <1>2, PTL DEF Spec, ImplementsHashChain, Chain!Spec
-------------------------------------------------------------------------------
(* Tamper evidence *)

\* Two records hashed on top of the same entry have different hashes.
NoCollision ==
  \A p, q \in Payload, d \in Digest : Hash(p, d) = Hash(q, d) => p = q

\* verify_chain_detail reports the first entry that does not check out.
LEMMA FirstBroken ==
  ASSUME NEW c, Len(c) \in Nat, NEW i \in 1..Len(c), ~EntryOk(c, i),
         \A j \in 1..(i - 1) : EntryOk(c, j)
  PROVE  BrokenAt(c) = i
<1> DEFINE First(k) == ~EntryOk(c, k) /\ \A j \in 1..(k - 1) : EntryOk(c, j)
<1>1. First(i)
  OBVIOUS
<1>2. ASSUME NEW k \in 1..Len(c), First(k) PROVE k = i
  <2>1. CASE k < i
    <3>1. k \in 1..(i - 1)
      BY <2>1
    <3>2. QED
      BY <1>2, <3>1
  <2>2. CASE i < k
    <3>1. i \in 1..(k - 1)
      BY <2>2
    <3>2. QED
      BY <1>2, <3>1
  <2>3. QED
    BY <2>1, <2>2
<1>3. ~Intact(c)
  BY DEF Intact
<1> HIDE DEF First
<1>4. i = CHOOSE k \in 1..Len(c) : First(k)
  BY <1>1, <1>2
<1>5. QED
  BY <1>3, <1>4 DEF BrokenAt, First

\* Replacing entry i by one that does not check out where it stands breaks
\* the chain exactly at i.
LEMMA ReplacedEntryBreaks ==
  ASSUME NEW c \in Seq(Entry), Intact(c), NEW i \in 1..Len(c), NEW e \in Entry,
         \/ e.data.prev_log_hash # CarriedHash(c, i)
         \/ e.entry_hash # Rehash(e.data)
  PROVE  BrokenAt([c EXCEPT ![i] = e]) = i
<1> DEFINE c2 == [c EXCEPT ![i] = e]
<1>1. /\ c2 \in Seq(Entry)
      /\ Len(c2) = Len(c)
      /\ Len(c) \in Nat
      /\ \A j \in 1..Len(c) : c2[j] = IF j = i THEN e ELSE c[j]
  BY ExceptSeq
<1> HIDE DEF c2
<1>2. ASSUME NEW j \in 1..i PROVE CarriedHash(c2, j) = CarriedHash(c, j)
  <2>1. CASE j = 1
    BY <2>1 DEF CarriedHash
  <2>2. CASE j # 1
    <3>1. j - 1 \in 1..Len(c) /\ j - 1 # i
      BY <1>1, <2>2
    <3>2. QED
      BY <1>1, <2>2, <3>1 DEF CarriedHash
  <2>3. QED
    BY <2>1, <2>2
<1>3. ~EntryOk(c2, i)
  BY <1>1, <1>2 DEF EntryOk
<1>4. ASSUME NEW j \in 1..(i - 1) PROVE EntryOk(c2, j)
  <2>1. j \in 1..i /\ j \in 1..Len(c) /\ j # i
    BY <1>1
  <2>2. EntryOk(c, j)
    BY <2>1 DEF Intact
  <2>3. QED
    BY <1>1, <1>2, <2>1, <2>2 DEF EntryOk
<1>5. QED
  BY <1>1, <1>3, <1>4, FirstBroken DEF c2

\* An entry that checks out where it stands, but has another hash than the one
\* it replaces, is given away by the link of the entry behind it, if there is one.
LEMMA ForgedEntryShows ==
  ASSUME NEW c \in Seq(Entry), Intact(c), NEW i \in 1..Len(c), NEW e \in Entry,
         e.data.prev_log_hash = CarriedHash(c, i),
         e.entry_hash = Rehash(e.data),
         e.entry_hash # c[i].entry_hash
  PROVE  BrokenAt([c EXCEPT ![i] = e]) = IF i < Len(c) THEN i + 1 ELSE 0
<1> DEFINE c2 == [c EXCEPT ![i] = e]
<1>1. /\ c2 \in Seq(Entry)
      /\ Len(c2) = Len(c)
      /\ Len(c) \in Nat
      /\ \A j \in 1..Len(c) : c2[j] = IF j = i THEN e ELSE c[j]
  BY ExceptSeq
<1> HIDE DEF c2
<1>2. ASSUME NEW j \in 1..i PROVE CarriedHash(c2, j) = CarriedHash(c, j)
  <2>1. CASE j = 1
    BY <2>1 DEF CarriedHash
  <2>2. CASE j # 1
    <3>1. j - 1 \in 1..Len(c) /\ j - 1 # i
      BY <1>1, <2>2
    <3>2. QED
      BY <1>1, <2>2, <3>1 DEF CarriedHash
  <2>3. QED
    BY <2>1, <2>2
<1>3. ASSUME NEW j \in 1..i PROVE EntryOk(c2, j)
  <2>1. j \in 1..Len(c)
    BY <1>1
  <2>2. EntryOk(c, j) /\ CarriedHash(c2, j) = CarriedHash(c, j)
    BY <1>2, <2>1 DEF Intact
  <2>3. QED
    BY <1>1, <2>1, <2>2 DEF EntryOk
<1>4. CASE i < Len(c)
  <2>1. i + 1 \in 1..Len(c) /\ i + 1 # i /\ i + 1 # 1 /\ (i + 1) - 1 = i
    BY <1>1, <1>4
  <2>2. EntryOk(c, i + 1) /\ c2[i + 1] = c[i + 1] /\ c2[i] = e
    BY <1>1, <2>1 DEF Intact
  <2>3. c2[i + 1].data.prev_log_hash # CarriedHash(c2, i + 1)
    BY <2>1, <2>2 DEF EntryOk, CarriedHash
  <2>4. ~EntryOk(c2, i + 1)
    BY <2>3 DEF EntryOk
  <2>5. \A j \in 1..((i + 1) - 1) : EntryOk(c2, j)
    BY <1>3, <2>1
  <2>6. BrokenAt(c2) = i + 1
    BY <1>1, <2>1, <2>4, <2>5, FirstBroken
  <2>7. QED
    BY <1>4, <2>6 DEF c2
<1>5. CASE i = Len(c)
  <2>1. Intact(c2)
    BY <1>1, <1>3, <1>5 DEF Intact
  <2>2. BrokenAt(c2) = 0
    BY <2>1 DEF BrokenAt
  <2>3. QED
    BY <1>1, <1>5, <2>2 DEF c2
<1>6. QED
  BY <1>1, <1>4, <1>5

\* Rewriting what verify_chain_detail reads of one row, its data or its hash or
\* both, is reported at that row, or at the row behind it when the new hash fits
\* the new data, whatever the log, the row and the new values; only the newest
\* row can be forged unseen.
THEOREM EditsAreDetected ==
  ASSUME NoCollision
  PROVE  Spec => []EditDetected
<1>1. ASSUME IInv PROVE EditDetected
  <2> DEFINE c == Entries(audit_log)
             Forged(i, x, d) == /\ x.prev_log_hash = c[i].data.prev_log_hash
                                /\ d = Rehash(x)
  <2>1. c \in Seq(Entry) /\ Intact(c)
    BY <1>1, EntriesType DEF IInv, TypeOK, ChainInv
  <2> HIDE DEF c
  <2> SUFFICES ASSUME NEW i \in 1..Len(c), NEW x \in Data, NEW d \in Digest,
                      x # c[i].data \/ d # c[i].entry_hash
               PROVE  BrokenAt([c EXCEPT ![i].data = x, ![i].entry_hash = d]) =
                        IF ~Forged(i, x, d) THEN i ELSE IF i < Len(c) THEN i + 1 ELSE 0
    BY DEF EditDetected, c
  <2> DEFINE e == [c[i] EXCEPT !.data = x, !.entry_hash = d]
  <2>2. c[i] \in Entry /\ EntryOk(c, i)
    BY <2>1 DEF Intact
  <2>3. e \in Entry /\ e.data = x /\ e.entry_hash = d
    BY <2>2 DEF Entry
  <2>4. [c EXCEPT ![i].data = x, ![i].entry_hash = d] = [c EXCEPT ![i] = e]
    BY <2>1, <2>2 DEF Entry
  <2> HIDE DEF e
  <2>5. CASE ~Forged(i, x, d)
    <3>1. \/ e.data.prev_log_hash # CarriedHash(c, i)
          \/ e.entry_hash # Rehash(e.data)
      BY <2>2, <2>3, <2>5 DEF EntryOk
    <3>2. BrokenAt([c EXCEPT ![i] = e]) = i
      BY <2>1, <2>3, <3>1, ReplacedEntryBreaks
    <3>3. QED
      BY <2>4, <2>5, <3>2
  <2>6. CASE Forged(i, x, d)
    <3>1. e.data.prev_log_hash = CarriedHash(c, i) /\ e.entry_hash = Rehash(e.data)
      BY <2>2, <2>3, <2>6 DEF EntryOk
    <3>2. d # c[i].entry_hash
      <4>1. SUFFICES ASSUME d = c[i].entry_hash PROVE FALSE
        OBVIOUS
      <4>2. /\ x \in [payload : Payload, prev_log_hash : Digest]
            /\ c[i].data \in [payload : Payload, prev_log_hash : Digest]
        BY <2>2 DEF Entry, Data
      <4>3. x.payload # c[i].data.payload
        BY <2>6, <4>1, <4>2
      <4>4. Hash(x.payload, x.prev_log_hash) = Hash(c[i].data.payload, x.prev_log_hash)
        BY <2>2, <2>6, <4>1 DEF EntryOk, Rehash
      <4>5. QED
        BY <4>2, <4>3, <4>4, NoCollision DEF NoCollision
    <3>3. BrokenAt([c EXCEPT ![i] = e]) = IF i < Len(c) THEN i + 1 ELSE 0
      BY <2>1, <2>3, <3>1, <3>2, ForgedEntryShows
    <3>4. QED
      BY <2>4, <2>6, <3>3
  <2>7. QED
    BY <2>5, <2>6
<1>2. QED
  BY InductiveInvariant, <1>1, PTL

\* No record hashes, on top of an entry, to that entry's own hash.
NoFixedPoint == \A p \in Payload, d \in Digest : Hash(p, d) # d

\* Without entry i, the chain is the same before i and one entry shifted from i on.
LEMMA ShiftedChain ==
  ASSUME NEW c \in Seq(Entry), NEW i \in 1..(Len(c) - 1)
  PROVE  LET c2 == SubSeq(c, 1, i - 1) \o SubSeq(c, i + 1, Len(c))
         IN  /\ Len(c2) = Len(c) - 1
             /\ \A j \in 1..(i - 1) : c2[j] = c[j]
             /\ c2[i] = c[i + 1]
<1> DEFINE front == SubSeq(c, 1, i - 1)
           back == SubSeq(c, i + 1, Len(c))
           c2 == front \o back
<1>1. Len(c) \in Nat /\ i \in Nat /\ 1 <= i /\ i < Len(c)
  OBVIOUS
<1>2. /\ front \in Seq(Entry) /\ Len(front) = i - 1
      /\ \A j \in 1..(i - 1) : front[j] = c[j]
  BY <1>1
<1>3. /\ back \in Seq(Entry) /\ Len(back) = Len(c) - i
      /\ back[1] = c[i + 1]
  BY <1>1
<1> HIDE DEF front, back
<1>4. /\ Len(c2) = Len(front) + Len(back)
      /\ \A j \in 1..Len(front) : c2[j] = front[j]
      /\ c2[Len(front) + 1] = back[1]
  <2>1. /\ Len(front \o back) = Len(front) + Len(back)
        /\ \A j \in 1..(Len(front) + Len(back)) :
             (front \o back)[j] = IF j <= Len(front) THEN front[j]
                                  ELSE back[j - Len(front)]
    BY <1>2, <1>3, ConcatProperties
  <2>2. /\ Len(front) \in Nat /\ Len(back) \in Nat /\ Len(back) >= 1
        /\ (Len(front) + 1) - Len(front) = 1
    BY <1>1, <1>2, <1>3
  <2>3. QED
    BY <2>1, <2>2
<1> HIDE DEF c2
<1>5. Len(c2) = Len(c) - 1 /\ c2[i] = c[i + 1] /\ \A j \in 1..(i - 1) : c2[j] = c[j]
  BY <1>1, <1>2, <1>3, <1>4, SMTT(30)
<1>6. QED
  BY <1>5 DEF c2, front, back

\* Dropping any row but the newest is reported by verify_chain_detail at the
\* position it had, whatever the log: the row behind it links to a hash that its
\* new predecessor does not have.
THEOREM RemovalsAreDetected ==
  ASSUME NoFixedPoint
  PROVE  Spec => []RemovalDetected
<1>1. ASSUME IInv PROVE RemovalDetected
  <2> DEFINE c == Entries(audit_log)
  <2>1. c \in Seq(Entry) /\ Intact(c)
    BY <1>1, EntriesType DEF IInv, TypeOK, ChainInv
  <2> HIDE DEF c
  <2> SUFFICES ASSUME NEW i \in 1..(Len(c) - 1)
               PROVE  BrokenAt(SubSeq(c, 1, i - 1) \o SubSeq(c, i + 1, Len(c))) = i
    BY DEF RemovalDetected, c
  <2> DEFINE c2 == SubSeq(c, 1, i - 1) \o SubSeq(c, i + 1, Len(c))
  <2>2. /\ Len(c2) = Len(c) - 1
        /\ \A j \in 1..(i - 1) : c2[j] = c[j]
        /\ c2[i] = c[i + 1]
    BY <2>1, ShiftedChain
  <2> HIDE DEF c2
  <2>3. Len(c) \in Nat /\ i \in 1..Len(c) /\ i + 1 \in 1..Len(c) /\ Len(c2) \in Nat /\ i \in 1..Len(c2)
    BY <2>1, <2>2
  <2>4. ASSUME NEW j \in 1..i PROVE CarriedHash(c2, j) = CarriedHash(c, j)
    <3>1. j # 1 => j - 1 \in 1..(i - 1)
      BY <2>3
    <3>2. QED
      BY <2>2, <3>1 DEF CarriedHash
  <2>5. CarriedHash(c, i) \in Digest
    <3>1. i # 1 => i - 1 \in 1..Len(c)
      BY <2>3
    <3>2. i # 1 => c[i - 1] \in Entry
      BY <2>1, <3>1
    <3>3. QED
      BY <3>2, HashAssumption DEF CarriedHash, Entry
  <2>6. c[i].entry_hash # CarriedHash(c, i)
    <3>1. EntryOk(c, i) /\ c[i] \in Entry
      BY <2>1, <2>3 DEF Intact
    <3>2. QED
      BY <2>5, <3>1, NoFixedPoint DEF EntryOk, Entry, Data, Rehash, NoFixedPoint
  <2>7. c2[i].data.prev_log_hash = c[i].entry_hash
    <3>1. EntryOk(c, i + 1) /\ i + 1 # 1 /\ (i + 1) - 1 = i
      BY <2>1, <2>3 DEF Intact
    <3>2. QED
      BY <2>2, <3>1 DEF EntryOk, CarriedHash
  <2>8. ~EntryOk(c2, i)
    <3>1. CarriedHash(c2, i) = CarriedHash(c, i)
      BY <2>3, <2>4
    <3>2. QED
      BY <2>6, <2>7, <3>1 DEF EntryOk
  <2>9. ASSUME NEW j \in 1..(i - 1) PROVE EntryOk(c2, j)
    <3>1. j \in 1..Len(c) /\ j \in 1..i
      BY <2>3
    <3>2. EntryOk(c, j) /\ CarriedHash(c2, j) = CarriedHash(c, j)
      BY <2>1, <2>4, <3>1 DEF Intact
    <3>3. QED
      BY <2>2, <3>2 DEF EntryOk
  <2>10. BrokenAt(c2) = i
    BY <2>3, <2>8, <2>9, FirstBroken
  <2>11. QED
    BY <2>10 DEF c2
<1>2. QED
  BY InductiveInvariant, <1>1, PTL
===============================================================================
