--------------------------- MODULE InterceptorProofs --------------------------
(***************************************************************************)
(* Proofs about the daemon.  Its safety rests on one inductive invariant,  *)
(* DaemonInv: what each goroutine may be doing in each phase (PhaseInv),   *)
(* what it finds in the entry it has (OwnInv), how it came by a verdict    *)
(* (VerdictInv), who is about to record which row (ClaimInv), and where    *)
(* entries to submit and files to quarantine are (PendingInv, DueInv).     *)
(*                                                                         *)
(* The argument has two halves.  A goroutine's step changes its own entry  *)
(* only (Frame), so that what the others found there still holds; every    *)
(* ...Step lemma below shows that, and what the goroutine itself finds     *)
(* afterwards.  Then each part of DaemonInv is shown to survive any such   *)
(* step, and those of the user, the watcher, the admins and a crash.       *)
(***************************************************************************)
EXTENDS Interceptor, TLAPS

Restoring == {"release", "moveBack", "copyBack", "unlinkBack"}
Capturing == {"quarantine", "copyIn", "unlinkIn"}
Recording == {"writeMeta", "writingMeta"}

\* A path's timers: the one in the map is armed or has fired.
TimerInv == \A p \in Path : timers[p].mapped = "armed" => timers[p].armed > 0

\* Every content anywhere comes from a write that has happened.
Known == {f \in Files : f \in Written => f <= writes}
KnownInv == /\ home \in [Path -> Known] /\ payload \in [Entry -> Known]
            /\ \A a \in Actor : call[a].content \in Known

TypeInv == TypeOK /\ TimerInv /\ KnownInv

\* What a goroutine may be doing in each phase: no worker has a job before the
\* daemon watches, and main only sweeps.
PhaseInv ==
  /\ phase # "watching" => /\ events = {} /\ jobs = << >> /\ due = {}
                           /\ timers = [p \in Path |-> NoTimer]
                           /\ \A w \in Worker : pc[w] = "idle"
                           /\ \A p \in Path : folder[p] \notin {"created", "watched"}
  /\ phase = "down" => \A a \in Actor : pc[a] = "idle"
  /\ pc[Main] # "idle" => phase = "sweeping"

\* What a goroutine that has an entry finds in it.
OwnInv(a) ==
  /\ Busy(a) => /\ mem[a] \in Metas
                /\ meta[ent[a]].state # "blocked"
                /\ meta[ent[a]].state # IF a = HeldPoller THEN "pending_submit" ELSE "held"
  /\ pc[a] \in Capturing => /\ a \in Worker /\ meta[ent[a]] = NoMeta
                            /\ mem[a].state = "pending_submit"
  /\ pc[a] = "quarantine" => payload[ent[a]] = NoFile
  /\ pc[a] = "copyIn" => payload[ent[a]] = Partial
  /\ pc[a] = "removeAll" => payload[ent[a]] = NoFile
  /\ a \in Worker => pc[a] # "scan"

\* The three ways to have a verdict: an answer, the hold it led to, or a row an
\* admin has decided.
Holds(v) == decisionForVerdict(v) = "hold"
RowOf(q, e, p) == q \in DOMAIN rows /\ rows[q].content = payload[e] /\ rows[q].path = p
VerdictInv(a) ==
  /\ pc[a] \in {"submit", "await"} => a # HeldPoller
  /\ pc[a] = "await" => /\ call[a].verdict # "none"
                        /\ call[a].content = payload[ent[a]] /\ payload[ent[a]] # NoFile
                        /\ Holds(call[a].verdict) /\ call[a].verdict # "open" =>
                              RowOf(call[a].qid, ent[a], mem[a].path)
  /\ pc[a] \in Recording /\ mem[a].state = "held" =>
       RowOf(mem[a].qid, ent[a], mem[a].path) /\ payload[ent[a]] # NoFile
  /\ pc[a] \in Restoring /\ a # HeldPoller =>
       call[a].verdict = "Normal" /\ call[a].content = payload[ent[a]] /\ payload[ent[a]] # NoFile
  /\ a = HeldPoller /\ pc[a] \in Restoring \cup {"removeAll"} =>
       /\ mem[a] = meta[ent[a]] /\ mem[a].state = "held"
       /\ rows[mem[a].qid].status = "approved"
  /\ a = HeldPoller /\ pc[a] \in Recording => mem[a].state = "blocked"

\* The row a goroutine is about to record in a sidecar, or 0.
Claim(a) ==
  IF pc[a] = "await" /\ call[a].verdict # "open" /\ Holds(call[a].verdict) THEN call[a].qid
  ELSE IF pc[a] \in Recording /\ mem[a].state = "held" THEN mem[a].qid ELSE 0
ClaimInv ==
  \A a \in Actor : Claim(a) # 0 =>
    /\ \A b \in Actor \ {a} : Claim(b) # Claim(a)
    /\ \A e \in Entry : meta[e].state = "held" => meta[e].qid # Claim(a)

\* An entry left in "pending_submit" is on main's list, in somebody's hands, or failed.
PendingInv ==
  phase # "down" =>
    \A e \in Entry : meta[e].state = "pending_submit" =>
      \/ e \in failed
      \/ \E a \in Actor : Busy(a) /\ ent[a] = e
      \/ phase = "sweeping" /\ pc[Main] # "idle" /\ e \in todo[Main]

\* A file the daemon ought to quarantine is on its way to a worker.
DueInv ==
  phase = "watching" =>
    \A p \in Path \ removable : home[p] \in due \ missed =>
      \/ p \in events
      \/ timers[p].armed > 0 \/ timers[p].fired > 0
      \/ \E i \in DOMAIN jobs : jobs[i] = p
      \/ \E w \in Worker : pc[w] \in Capturing /\ mem[w].path = p

DaemonInv ==
  /\ TypeInv /\ PhaseInv /\ OneOwner
  /\ \A a \in Actor : OwnInv(a) /\ VerdictInv(a)
  /\ ClaimInv /\ HeldRowMatches /\ PendingInv /\ DueInv

-------------------------------------------------------------------------------
(* One goroutine takes one step *)

\* Nothing of b's changes.
Same(b) == /\ pc'[b] = pc[b] /\ ent'[b] = ent[b] /\ mem'[b] = mem[b] /\ call'[b] = call[b]

\* The table only grows, and what is decided stays decided.
RowsGrow ==
  \A q \in DOMAIN rows :
    /\ q \in DOMAIN rows' /\ rows'[q].content = rows[q].content /\ rows'[q].path = rows[q].path
    /\ rows[q].status # "pending" => rows'[q].status = rows[q].status

\* A step of goroutine a changes nothing of the others, and no entry but its own.
Frame(a) ==
  /\ removable' = removable /\ RowsGrow
  /\ \A b \in Actor \ {a} : Same(b)
  /\ \A e \in Entry : e # ent[a] \/ ~Busy(a) => payload'[e] = payload[e] /\ meta'[e] = meta[e]

\* Nobody else has the entry that a has after its step.
Alone(a) == \A b \in Actor \ {a} : Busy(a)' /\ Busy(b) => ent[b] # ent'[a]

\* Goto moves one goroutine.
LEMMA GotoStep ==
  ASSUME pc \in [Actor -> Steps], NEW a \in Actor, NEW step \in Steps, Goto(a, step)
  PROVE  /\ pc' \in [Actor -> Steps] /\ pc'[a] = step
         /\ \A b \in Actor \ {a} : pc'[b] = pc[b]
BY DEF Goto

\* Return sends one goroutine back to its loop, without an answer.
LEMMA ReturnStep ==
  ASSUME pc \in [Actor -> Steps], call \in [Actor -> Calls], NEW a \in Actor, Return(a)
  PROVE  /\ pc' \in [Actor -> Steps] /\ pc'[a] = Loop(a) /\ pc'[a] \in {"idle", "scan"}
         /\ call' \in [Actor -> Calls] /\ call'[a] = NoCall
         /\ \A b \in Actor \ {a} : pc'[b] = pc[b] /\ call'[b] = call[b]
<1>1. NoCall \in Calls /\ Loop(a) \in Steps /\ Loop(a) \in {"idle", "scan"}
  BY BoundsAssumption DEF NoCall, Calls, Files, Loop, Steps
<1>2. QED
  BY <1>1 DEF Return, Goto

\* A sidecar with a state is a whole record.
LEMMA WholeMeta ==
  ASSUME TypeOK, NEW e \in Entry, meta[e].state \in {"pending_submit", "held", "blocked"}
  PROVE  meta[e] \in Metas
<1>1. NoMeta.state = "none" /\ TornMeta.state = "torn"
  BY DEF NoMeta, TornMeta
<1>2. meta[e] \in Metas \/ meta[e] = NoMeta \/ meta[e] = TornMeta
  BY DEF TypeOK
<1>3. QED
  BY <1>1, <1>2

\* A goroutine without an entry has nothing to find in it.
LEMMA IdleStep ==
  ASSUME NEW a \in Actor, pc'[a] \in {"idle", "scan"}, a \in Worker => pc'[a] = "idle"
  PROVE  OwnInv(a)' /\ VerdictInv(a)'
BY DEF OwnInv, VerdictInv, Busy, Capturing, Recording, Restoring

\* In particular one that is back in its loop.
LEMMA LoopStep ==
  ASSUME NEW a \in Actor, pc'[a] = Loop(a)
  PROVE  OwnInv(a)' /\ VerdictInv(a)'
BY IdleStep DEF Loop

\* A request's record, as its handler and the goroutine fill it in.
LEMMA CallTypes ==
  ASSUME NEW k \in Calls, NEW v \in {"open"} \cup Verdicts, NEW q \in 0..MaxRows, NEW f \in Files
  PROVE  /\ NoCall \in Calls
         /\ [[k EXCEPT !.verdict = v] EXCEPT !.qid = q] \in Calls
         /\ [[k EXCEPT !.verdict = v] EXCEPT !.content = f] \in Calls
         /\ [k EXCEPT !.content = f] \in Calls
<1>1. NoFile \in Files /\ 0 \in 0..MaxRows
  BY BoundsAssumption DEF Files
<1>2. QED
  BY <1>1 DEF Calls, NoCall

\* Truncating meta.json changes the goroutine's own entry only, and leaves it torn.
LEMMA TruncateMetaStep ==
  ASSUME DaemonInv, NEW a \in Actor, TruncateMeta(a)
  PROVE  TypeOK' /\ Frame(a) /\ OwnInv(a)' /\ VerdictInv(a)'
<1> USE DEF disk, watch, history, bounds
<1>t. TypeOK /\ OwnInv(a) /\ VerdictInv(a)
  BY DEF DaemonInv, TypeInv
<1>1. "writingMeta" \in Steps /\ Busy(a)
  BY DEF Steps, TruncateMeta, Busy
<1>2. /\ pc' \in [Actor -> Steps] /\ pc'[a] = "writingMeta"
      /\ \A b \in Actor \ {a} : pc'[b] = pc[b]
  BY <1>1, <1>t, GotoStep DEF TruncateMeta, TypeOK
<1>3. /\ meta' \in [Entry -> Metas \cup {NoMeta, TornMeta}] /\ meta'[ent[a]] = TornMeta
      /\ \A e \in Entry \ {ent[a]} : meta'[e] = meta[e]
  BY <1>t DEF TruncateMeta, TypeOK
<1>4. /\ UNCHANGED << home, payload, phase, ent, mem, call, todo, folder, events, timers, jobs, ignore, rows,
                      due, missed, failed, removable, writes, faults >>
  BY DEF TruncateMeta
<1>5. TypeOK'
  BY <1>t, <1>2, <1>3, <1>4 DEF TypeOK, QuarantineTypeOK
<1>6. Frame(a)
  BY <1>1, <1>2, <1>3, <1>4 DEF Frame, RowsGrow, Same
<1>7. OwnInv(a)'
  BY <1>t, <1>1, <1>2, <1>3, <1>4, NamesAssumption DEF OwnInv, Busy, TornMeta, Capturing, TruncateMeta
<1>8. VerdictInv(a)'
  <2>1. pc[a] \in Recording /\ pc'[a] \in Recording
    BY <1>2 DEF TruncateMeta, Recording
  <2>2. RowOf(mem[a].qid, ent[a], mem[a].path)' <=> RowOf(mem[a].qid, ent[a], mem[a].path)
    BY <1>4 DEF RowOf
  <2>3. QED
    BY <1>t, <2>1, <2>2, <1>2, <1>4 DEF VerdictInv, Recording, Restoring
<1>9. QED
  BY <1>5, <1>6, <1>7, <1>8

\* The record written is the one in memory; a new entry goes on to be submitted.
LEMMA WriteMetaStep ==
  ASSUME DaemonInv, NEW a \in Actor, WriteMeta(a)
  PROVE  TypeOK' /\ Frame(a) /\ OwnInv(a)' /\ VerdictInv(a)'
<1> USE DEF disk, watch, history, bounds
<1>t. TypeOK /\ OwnInv(a) /\ VerdictInv(a)
  BY DEF DaemonInv, TypeInv
<1>1. /\ pc' \in [Actor -> Steps] /\ pc'[a] \in {"submit", Loop(a)}
      /\ pc'[a] = "submit" => mem[a].state = "pending_submit"
      /\ call' \in [Actor -> Calls]
      /\ \A b \in Actor \ {a} : pc'[b] = pc[b] /\ call'[b] = call[b]
  <2>1. CASE mem[a].state = "pending_submit"
    BY <1>t, <2>1, GotoStep DEF WriteMeta, TypeOK, Steps
  <2>2. CASE mem[a].state # "pending_submit"
    BY <1>t, <2>2, ReturnStep DEF WriteMeta, TypeOK
  <2>3. QED
    BY <2>1, <2>2
<1>2. Busy(a) /\ mem[a] \in Metas /\ pc[a] \in Recording
  BY <1>t DEF WriteMeta, Busy, OwnInv, Recording
<1>3. /\ meta' \in [Entry -> Metas \cup {NoMeta, TornMeta}] /\ meta'[ent[a]] = mem[a]
      /\ \A e \in Entry \ {ent[a]} : meta'[e] = meta[e]
  BY <1>t, <1>2 DEF WriteMeta, TypeOK
<1>4. UNCHANGED << home, payload, phase, ent, mem, todo, folder, events, timers, jobs, ignore, rows,
                   due, missed, failed, removable, writes, faults >>
  BY DEF WriteMeta
<1>5. TypeOK'
  BY <1>t, <1>1, <1>3, <1>4 DEF TypeOK, QuarantineTypeOK
<1>6. Frame(a)
  BY <1>1, <1>2, <1>3, <1>4 DEF Frame, RowsGrow, Same
<1>7. CASE pc'[a] = Loop(a)
  BY <1>5, <1>6, <1>7, LoopStep
<1>8. CASE pc'[a] = "submit"
  <2>1. mem[a].state = "pending_submit" /\ a # HeldPoller
    BY <1>t, <1>1, <1>2, <1>8 DEF VerdictInv
  <2>2. OwnInv(a)'
    BY <1>2, <1>3, <1>4, <1>8, <2>1 DEF OwnInv, Busy, Capturing
  <2>3. VerdictInv(a)'
    BY <1>8, <2>1 DEF VerdictInv, Recording, Restoring
  <2>4. QED
    BY <1>5, <1>6, <2>2, <2>3
<1>9. QED
  BY <1>1, <1>7, <1>8

\* A failed write sends the goroutine back to its loop.
LEMMA WriteMetaFailsStep ==
  ASSUME DaemonInv, NEW a \in Actor, WriteMetaFails(a)
  PROVE  TypeOK' /\ Frame(a) /\ OwnInv(a)' /\ VerdictInv(a)'
<1> USE DEF disk, watch, history, bounds
<1>t. TypeOK /\ OwnInv(a) /\ VerdictInv(a)
  BY DEF DaemonInv, TypeInv
<1>1. /\ pc' \in [Actor -> Steps] /\ pc'[a] = Loop(a) /\ call' \in [Actor -> Calls]
      /\ \A b \in Actor \ {a} : pc'[b] = pc[b] /\ call'[b] = call[b]
  BY <1>t, ReturnStep DEF WriteMetaFails, TypeOK
<1>2. /\ failed' \subseteq Entry /\ faults' \in 0..MaxFaults
      /\ UNCHANGED << home, payload, meta, phase, ent, mem, todo, folder, events, timers, jobs, ignore, rows,
                      due, missed, removable, writes >>
  BY <1>t, BoundsAssumption DEF WriteMetaFails, TypeOK, Fault
<1>3. TypeOK'
  BY <1>t, <1>1, <1>2 DEF TypeOK, QuarantineTypeOK
<1>4. Frame(a)
  BY <1>1, <1>2 DEF Frame, RowsGrow, Same
<1>5. QED
  BY <1>1, <1>3, <1>4, LoopStep

\* A failed request sends the goroutine back to its loop.
LEMMA SubmitFailsStep ==
  ASSUME DaemonInv, NEW a \in Actor, SubmitFails(a)
  PROVE  TypeOK' /\ Frame(a) /\ OwnInv(a)' /\ VerdictInv(a)'
<1> USE DEF disk, watch, history, bounds
<1>t. TypeOK /\ OwnInv(a) /\ VerdictInv(a)
  BY DEF DaemonInv, TypeInv
<1>1. /\ pc' \in [Actor -> Steps] /\ pc'[a] = Loop(a) /\ call' \in [Actor -> Calls]
      /\ \A b \in Actor \ {a} : pc'[b] = pc[b] /\ call'[b] = call[b]
  BY <1>t, ReturnStep DEF SubmitFails, TypeOK
<1>2. /\ failed' \subseteq Entry /\ faults' \in 0..MaxFaults
      /\ UNCHANGED << home, payload, meta, phase, ent, mem, todo, folder, events, timers, jobs, ignore, rows,
                      due, missed, removable, writes >>
  BY <1>t, BoundsAssumption DEF SubmitFails, TypeOK, Fault
<1>3. TypeOK'
  BY <1>t, <1>1, <1>2 DEF TypeOK, QuarantineTypeOK
<1>4. Frame(a)
  BY <1>1, <1>2 DEF Frame, RowsGrow, Same
<1>5. QED
  BY <1>1, <1>3, <1>4, LoopStep

\* What is posted is the entry's payload.
LEMMA SubmitStep ==
  ASSUME DaemonInv, NEW a \in Actor, Submit(a)
  PROVE  TypeOK' /\ Frame(a) /\ OwnInv(a)' /\ VerdictInv(a)'
<1> USE DEF disk, watch, history, bounds
<1>t. TypeOK /\ OwnInv(a) /\ VerdictInv(a)
  BY DEF DaemonInv, TypeInv
<1>1. /\ failed' \subseteq Entry
      /\ UNCHANGED << home, payload, meta, phase, ent, mem, todo, folder, events, timers, jobs, ignore, rows,
                      due, missed, removable, writes, faults >>
  BY <1>t DEF Submit, TypeOK
<1>2. CASE payload[ent[a]] = NoFile
  <2>1. /\ pc' \in [Actor -> Steps] /\ pc'[a] = Loop(a) /\ call' \in [Actor -> Calls]
        /\ \A b \in Actor \ {a} : pc'[b] = pc[b] /\ call'[b] = call[b]
    BY <1>t, <1>2, ReturnStep DEF Submit, TypeOK
  <2>2. TypeOK'
    BY <1>t, <1>1, <2>1 DEF TypeOK, QuarantineTypeOK
  <2>3. Frame(a)
    BY <1>1, <2>1 DEF Frame, RowsGrow, Same
  <2>4. QED
    BY <2>1, <2>2, <2>3, LoopStep
<1>3. CASE payload[ent[a]] # NoFile
  <2> DEFINE c == [[NoCall EXCEPT !.verdict = "open"] EXCEPT !.content = payload[ent[a]]]
  <2>0. payload[ent[a]] \in Files /\ 0 \in 0..MaxRows /\ NoCall \in Calls
    BY <1>t, BoundsAssumption DEF TypeOK, NoCall, Calls, Files
  <2>1. c \in Calls /\ c.verdict = "open" /\ c.content = payload[ent[a]]
    <3>1. c \in Calls
      BY <2>0, CallTypes
    <3>2. c.verdict = "open" /\ c.content = payload[ent[a]]
      BY DEF NoCall
    <3>3. QED
      BY <3>1, <3>2
  <2>2. call' = [call EXCEPT ![a] = c] /\ Goto(a, "await")
    BY <1>3 DEF Submit
  <2> HIDE DEF c
  <2>3. /\ pc' \in [Actor -> Steps] /\ pc'[a] = "await" /\ call' \in [Actor -> Calls] /\ call'[a] = c
        /\ \A b \in Actor \ {a} : pc'[b] = pc[b] /\ call'[b] = call[b]
    BY <1>t, <2>1, <2>2, GotoStep DEF TypeOK, Steps
  <2>4. TypeOK'
    BY <1>t, <1>1, <2>3 DEF TypeOK, QuarantineTypeOK
  <2>5. Frame(a)
    BY <1>1, <2>3 DEF Frame, RowsGrow, Same
  <2>6. pc[a] = "submit" /\ Busy(a)
    BY DEF Submit, Busy
  <2>7. OwnInv(a)'
    BY <1>t, <1>1, <2>3, <2>6 DEF OwnInv, Busy, Capturing
  <2>8. VerdictInv(a)'
    BY <1>t, <1>1, <1>3, <2>1, <2>3, <2>6 DEF VerdictInv, Recording, Restoring
  <2>9. QED
    BY <2>4, <2>5, <2>7, <2>8
<1>4. QED
  BY <1>2, <1>3

\* A hold is answered with the id of a row about this payload and path.
LEMMA HandleStep ==
  ASSUME DaemonInv, NEW a \in Actor, Handle(a)
  PROVE  TypeOK' /\ Frame(a) /\ OwnInv(a)' /\ VerdictInv(a)'
<1> USE DEF disk, watch, history, bounds
<1>t. TypeOK /\ OwnInv(a) /\ VerdictInv(a)
  BY DEF DaemonInv, TypeInv
<1>1. PICK v \in Verdicts :
        /\ IF Holds(v) THEN InsertQuarantine(call[a].content, mem[a].path) ELSE UNCHANGED rows
        /\ call' = [call EXCEPT ![a].verdict = v, ![a].qid = IF Holds(v) THEN Len(rows) + 1 ELSE 0]
  BY DEF Handle, Holds
<1>2. /\ pc[a] = "await" /\ Busy(a) /\ mem[a] \in Metas
      /\ call[a].content \in Content /\ call[a].content = payload[ent[a]]
  BY <1>t DEF Handle, Busy, OwnInv, VerdictInv, TypeOK, Files
<1>3. UNCHANGED << home, payload, meta, phase, pc, ent, mem, todo, folder, events, timers, jobs, ignore,
                   due, missed, failed, removable, writes, faults >>
  BY DEF Handle
<1>4. mem[a].path \in Path
  BY <1>2 DEF Metas
<1>5. CASE Holds(v)
  <2> DEFINE row == [content |-> call[a].content, path |-> mem[a].path, status |-> "pending"]
             c == [[call[a] EXCEPT !.verdict = v] EXCEPT !.qid = Len(rows) + 1]
  <2>1. row \in Rows /\ rows \in Seq(Rows) /\ Len(rows) \in Nat /\ Len(rows) + 1 \in 0..MaxRows
    BY <1>t, <1>1, <1>2, <1>4, <1>5, BoundsAssumption DEF Rows, TypeOK, QuarantineTypeOK, InsertQuarantine
  <2>2. rows' = Append(rows, row)
    BY <1>1, <1>5 DEF InsertQuarantine
  <2>3. c \in Calls /\ c.verdict = v /\ c.qid = Len(rows) + 1 /\ c.content = call[a].content
    BY <1>t, <2>1 DEF TypeOK, Calls
  <2>4. call' = [call EXCEPT ![a] = c]
    BY <1>1, <1>5
  <2>r. row.content = call[a].content /\ row.path = mem[a].path
    OBVIOUS
  <2> HIDE DEF c, row
  <2>5. call' \in [Actor -> Calls] /\ call'[a] = c /\ \A b \in Actor \ {a} : call'[b] = call[b]
    BY <1>t, <2>3, <2>4 DEF TypeOK
  <2>6. /\ rows' \in Seq(Rows) /\ Len(rows') = Len(rows) + 1 /\ rows'[Len(rows) + 1] = row
        /\ \A q \in DOMAIN rows : q \in DOMAIN rows' /\ rows'[q] = rows[q]
        /\ Len(rows) + 1 \in DOMAIN rows'
    BY <2>1, <2>2
  <2>7. TypeOK'
    BY <1>t, <1>3, <2>5, <2>6 DEF TypeOK, QuarantineTypeOK
  <2>8. Frame(a)
    BY <1>2, <1>3, <2>5, <2>6 DEF Frame, RowsGrow, Same
  <2>9. OwnInv(a)'
    BY <1>t, <1>2, <1>3 DEF OwnInv, Busy, Capturing
  <2>10. RowOf(call[a].qid, ent[a], mem[a].path)'
    BY <1>2, <1>3, <2>3, <2>5, <2>6, <2>r DEF RowOf
  <2>11. VerdictInv(a)'
    BY <1>t, <1>2, <1>3, <2>3, <2>5, <2>10 DEF VerdictInv, Recording, Restoring, Verdicts
  <2>12. QED
    BY <2>7, <2>8, <2>9, <2>11
<1>6. CASE ~Holds(v)
  <2> DEFINE c == [[call[a] EXCEPT !.verdict = v] EXCEPT !.qid = 0]
  <2>0. call[a] \in Calls /\ 0 \in 0..MaxRows /\ call[a].content \in Files
    BY <1>t, BoundsAssumption DEF TypeOK, Calls
  <2>1. c \in Calls /\ c.verdict = v /\ c.content = call[a].content
    <3>1. c \in Calls
      BY <2>0, CallTypes
    <3>2. c.verdict = v /\ c.content = call[a].content
      BY <2>0 DEF Calls
    <3>3. QED
      BY <3>1, <3>2
  <2>2. call' = [call EXCEPT ![a] = c] /\ rows' = rows
    BY <1>1, <1>6
  <2> HIDE DEF c
  <2>3. call' \in [Actor -> Calls] /\ call'[a] = c /\ \A b \in Actor \ {a} : call'[b] = call[b]
    BY <1>t, <2>1, <2>2 DEF TypeOK
  <2>4. TypeOK'
    BY <1>t, <1>3, <2>2, <2>3 DEF TypeOK, QuarantineTypeOK
  <2>5. Frame(a)
    BY <1>2, <1>3, <2>2, <2>3 DEF Frame, RowsGrow, Same
  <2>6. OwnInv(a)'
    BY <1>t, <1>2, <1>3 DEF OwnInv, Busy, Capturing
  <2>7. VerdictInv(a)'
    BY <1>t, <1>2, <1>3, <1>6, <2>1, <2>3 DEF VerdictInv, Recording, Restoring, Verdicts
  <2>8. QED
    BY <2>4, <2>5, <2>6, <2>7
<1>7. QED
  BY <1>5, <1>6

\* Whatever the decision, the goroutine has what it needs to carry it out.
LEMMA ActStep ==
  ASSUME DaemonInv, NEW a \in Actor, Act(a)
  PROVE  TypeOK' /\ Frame(a) /\ OwnInv(a)' /\ VerdictInv(a)'
<1> USE DEF disk, watch, history, bounds
<1>t. TypeOK /\ OwnInv(a) /\ VerdictInv(a)
  BY DEF DaemonInv, TypeInv
<1>1. /\ pc[a] = "await" /\ Busy(a) /\ mem[a] \in Metas /\ a # HeldPoller
      /\ call[a].verdict \in Verdicts /\ call[a].verdict # "open"
  BY <1>t DEF Act, Busy, OwnInv, VerdictInv, Verdicts
<1>2. UNCHANGED << home, payload, meta, phase, ent, call, todo, folder, events, timers, jobs, ignore, rows,
                   due, missed, failed, removable, writes, faults >>
  BY DEF Act
<1>3. ASSUME NEW m \in Metas, mem' = [mem EXCEPT ![a] = m],
             NEW step \in {"release", "writeMeta"}, Goto(a, step), m.path = mem[a].path,
             step = "release" => call[a].verdict = "Normal",
             step = "writeMeta" /\ m.state = "held" => Holds(call[a].verdict) /\ m.qid = call[a].qid
      PROVE  TypeOK' /\ Frame(a) /\ OwnInv(a)' /\ VerdictInv(a)'
  <2>1. /\ pc' \in [Actor -> Steps] /\ pc'[a] = step /\ \A b \in Actor \ {a} : pc'[b] = pc[b]
        /\ mem' \in [Actor -> Metas \cup {NoMeta}] /\ mem'[a] = m
        /\ \A b \in Actor \ {a} : mem'[b] = mem[b]
    BY <1>t, <1>3, GotoStep DEF TypeOK, Steps
  <2>2. TypeOK'
    BY <1>t, <1>2, <2>1 DEF TypeOK, QuarantineTypeOK
  <2>3. Frame(a)
    BY <1>1, <1>2, <2>1 DEF Frame, RowsGrow, Same
  <2>4. OwnInv(a)'
    BY <1>t, <1>1, <1>2, <2>1 DEF OwnInv, Busy, Capturing
  <2>5. call[a].content = payload[ent[a]] /\ payload[ent[a]] # NoFile
    BY <1>t, <1>1 DEF VerdictInv
  <2>6. CASE step = "release"
    BY <1>1, <1>2, <1>3, <2>1, <2>2, <2>3, <2>4, <2>5, <2>6 DEF VerdictInv, Recording, Restoring
  <2>7. CASE step = "writeMeta"
    <3>1. m.state = "held" => RowOf(m.qid, ent[a], m.path)
      BY <1>t, <1>1, <1>3, <2>7 DEF VerdictInv
    <3>2. m.state = "held" => RowOf(mem[a].qid, ent[a], mem[a].path)'
      BY <1>2, <2>1, <3>1 DEF RowOf
    <3>3. QED
      BY <1>1, <1>2, <2>1, <2>2, <2>3, <2>4, <2>5, <2>7, <3>2 DEF VerdictInv, Recording, Restoring
  <2>8. QED
    BY <2>2, <2>3, <2>4, <2>6, <2>7
<1> DEFINE d == decisionForVerdict(call[a].verdict)
<1>4. CASE d = "release"
  <2>1. call[a].verdict = "Normal"
    BY <1>4 DEF decisionForVerdict
  <2>2. mem' = [mem EXCEPT ![a] = mem[a]] /\ Goto(a, "release")
    BY <1>t, <1>4 DEF Act, TypeOK
  <2>3. QED
    BY <1>1, <1>3, <2>1, <2>2
<1>5. CASE d = "block"
  <2> DEFINE m == [mem[a] EXCEPT !.state = "blocked"]
  <2>1. m \in Metas /\ m.path = mem[a].path /\ m.state = "blocked"
    BY <1>1 DEF Metas
  <2>2. mem' = [mem EXCEPT ![a] = m] /\ Goto(a, "writeMeta")
    BY <1>5 DEF Act
  <2> HIDE DEF m
  <2>3. QED
    BY <1>3, <2>1, <2>2
<1>6. CASE d = "hold"
  <2> DEFINE m == [[mem[a] EXCEPT !.state = "held"] EXCEPT !.qid = call[a].qid]
  <2>0. call[a].qid \in 0..MaxRows
    BY <1>t DEF TypeOK, Calls
  <2>1. m \in Metas /\ m.path = mem[a].path /\ m.state = "held" /\ m.qid = call[a].qid
    BY <1>1, <2>0 DEF Metas
  <2>2. mem' = [mem EXCEPT ![a] = m] /\ Goto(a, "writeMeta")
    BY <1>6 DEF Act
  <2> HIDE DEF m
  <2>3. QED
    BY <1>3, <1>6, <2>1, <2>2 DEF Holds
<1>7. QED
  BY <1>4, <1>5, <1>6 DEF decisionForVerdict

\* Marking the path released touches no entry.
LEMMA MarkReleasedStep ==
  ASSUME DaemonInv, NEW a \in Actor, MarkReleased(a)
  PROVE  TypeOK' /\ Frame(a) /\ OwnInv(a)' /\ VerdictInv(a)'
<1> USE DEF disk, watch, history, bounds
<1>t. TypeOK /\ OwnInv(a) /\ VerdictInv(a)
  BY DEF DaemonInv, TypeInv
<1>1. /\ pc' \in [Actor -> Steps] /\ pc'[a] = "moveBack" /\ pc[a] = "release"
      /\ \A b \in Actor \ {a} : pc'[b] = pc[b]
  BY <1>t, GotoStep DEF MarkReleased, TypeOK, Steps
<1>2. UNCHANGED << home, payload, meta, phase, ent, mem, call, todo, folder, events, timers, jobs, rows,
                   due, missed, failed, removable, writes, faults >>
  BY DEF MarkReleased
<1>3. Busy(a) /\ mem[a] \in Metas /\ mem[a].path \in Path
  BY <1>t, <1>1 DEF Busy, OwnInv, Metas
<1>4. ignore' \subseteq Path
  BY <1>t, <1>3 DEF MarkReleased, TypeOK
<1>5. TypeOK'
  BY <1>t, <1>1, <1>2, <1>4 DEF TypeOK, QuarantineTypeOK
<1>6. Frame(a)
  BY <1>1, <1>2, <1>3 DEF Frame, RowsGrow, Same
<1>7. OwnInv(a)'
  BY <1>t, <1>1, <1>2, <1>3 DEF OwnInv, Busy, Capturing
<1>8. VerdictInv(a)'
  BY <1>t, <1>1, <1>2 DEF VerdictInv, Recording, Restoring
<1>9. QED
  BY <1>5, <1>6, <1>7, <1>8

\* Copying back leaves the payload where it is.
LEMMA CopyBackStep ==
  ASSUME DaemonInv, NEW a \in Actor, CopyBack(a)
  PROVE  TypeOK' /\ Frame(a) /\ OwnInv(a)' /\ VerdictInv(a)'
<1> USE DEF disk, watch, history, bounds
<1>t. TypeOK /\ OwnInv(a) /\ VerdictInv(a)
  BY DEF DaemonInv, TypeInv
<1>1. /\ pc' \in [Actor -> Steps] /\ pc'[a] = "unlinkBack" /\ pc[a] = "copyBack"
      /\ \A b \in Actor \ {a} : pc'[b] = pc[b]
  BY <1>t, GotoStep DEF CopyBack, TypeOK, Steps
<1>2. UNCHANGED << payload, meta, phase, ent, mem, call, todo, folder, timers, jobs, ignore, rows,
                   missed, failed, removable, writes, faults >>
  BY DEF CopyBack
<1>3. Busy(a) /\ mem[a] \in Metas /\ mem[a].path \in Path
  BY <1>t, <1>1 DEF Busy, OwnInv, Metas
<1>4. home' \in [Path -> Files] /\ events' \subseteq Path /\ due' \subseteq Written
  BY <1>t, <1>3 DEF CopyBack, Notify, TypeOK
<1>5. TypeOK'
  BY <1>t, <1>1, <1>2, <1>4 DEF TypeOK, QuarantineTypeOK
<1>6. Frame(a)
  BY <1>1, <1>2, <1>3 DEF Frame, RowsGrow, Same
<1>7. OwnInv(a)'
  BY <1>t, <1>1, <1>2, <1>3 DEF OwnInv, Busy, Capturing
<1>8. VerdictInv(a)'
  BY <1>t, <1>1, <1>2 DEF VerdictInv, Recording, Restoring
<1>9. QED
  BY <1>5, <1>6, <1>7, <1>8

\* Removing the copied payload leaves only the directory to remove.
LEMMA UnlinkBackStep ==
  ASSUME DaemonInv, NEW a \in Actor, UnlinkBack(a)
  PROVE  TypeOK' /\ Frame(a) /\ OwnInv(a)' /\ VerdictInv(a)'
<1> USE DEF disk, watch, history, bounds
<1>t. TypeOK /\ OwnInv(a) /\ VerdictInv(a)
  BY DEF DaemonInv, TypeInv
<1>1. /\ pc' \in [Actor -> Steps] /\ pc'[a] = "removeAll" /\ pc[a] = "unlinkBack" /\ Busy(a)
      /\ \A b \in Actor \ {a} : pc'[b] = pc[b]
  BY <1>t, GotoStep DEF UnlinkBack, TypeOK, Steps, Busy
<1>2. UNCHANGED << home, meta, phase, ent, mem, call, todo, folder, events, timers, jobs, ignore, rows,
                   due, missed, failed, removable, writes, faults >>
  BY DEF UnlinkBack
<1>3. /\ payload' \in [Entry -> Files] /\ payload'[ent[a]] = NoFile
      /\ \A e \in Entry \ {ent[a]} : payload'[e] = payload[e]
  BY <1>t DEF UnlinkBack, TypeOK, Files
<1>4. TypeOK'
  BY <1>t, <1>1, <1>2, <1>3 DEF TypeOK, QuarantineTypeOK
<1>5. Frame(a)
  BY <1>1, <1>2, <1>3 DEF Frame, RowsGrow, Same
<1>6. OwnInv(a)'
  BY <1>t, <1>1, <1>2, <1>3 DEF OwnInv, Busy, Capturing
<1>7. VerdictInv(a)'
  BY <1>t, <1>1, <1>2 DEF VerdictInv, Recording, Restoring
<1>8. QED
  BY <1>4, <1>5, <1>6, <1>7

\* Removing the directory leaves nothing of the entry.
LEMMA RemoveEntryStep ==
  ASSUME DaemonInv, NEW a \in Actor, RemoveEntry(a)
  PROVE  TypeOK' /\ Frame(a) /\ OwnInv(a)' /\ VerdictInv(a)'
<1> USE DEF disk, watch, history, bounds
<1>t. TypeOK /\ OwnInv(a) /\ VerdictInv(a)
  BY DEF DaemonInv, TypeInv
<1>1. /\ pc' \in [Actor -> Steps] /\ pc'[a] = Loop(a) /\ call' \in [Actor -> Calls] /\ Busy(a)
      /\ \A b \in Actor \ {a} : pc'[b] = pc[b] /\ call'[b] = call[b]
  BY <1>t, ReturnStep DEF RemoveEntry, TypeOK, Busy
<1>2. UNCHANGED << home, phase, ent, mem, todo, folder, events, timers, jobs, ignore, rows,
                   due, missed, failed, removable, writes, faults >>
  BY DEF RemoveEntry
<1>3. /\ payload' \in [Entry -> Files] /\ meta' \in [Entry -> Metas \cup {NoMeta, TornMeta}]
      /\ \A e \in Entry \ {ent[a]} : payload'[e] = payload[e] /\ meta'[e] = meta[e]
  BY <1>t DEF RemoveEntry, TypeOK, Files
<1>4. TypeOK'
  BY <1>t, <1>1, <1>2, <1>3 DEF TypeOK, QuarantineTypeOK
<1>5. Frame(a)
  BY <1>1, <1>2, <1>3 DEF Frame, RowsGrow, Same
<1>6. QED
  BY <1>1, <1>4, <1>5, LoopStep

\* Opening both files to copy back touches no entry.
LEMMA OpenBackStep ==
  ASSUME DaemonInv, NEW a \in Actor, pc[a] = "moveBack", OpenBack(a), faults' \in 0..MaxFaults,
         UNCHANGED << meta, phase, ent, mem, todo, folder, timers, jobs, ignore, rows, due, missed, failed,
                      removable, writes >>
  PROVE  TypeOK' /\ Frame(a) /\ OwnInv(a)' /\ VerdictInv(a)'
<1>t. TypeOK /\ OwnInv(a) /\ VerdictInv(a)
  BY DEF DaemonInv, TypeInv
<1>1. Busy(a) /\ mem[a] \in Metas /\ mem[a].path \in Path
  BY <1>t DEF Busy, OwnInv, Metas
<1>2. /\ home' = [home EXCEPT ![mem[a].path] = Partial] /\ Notify(mem[a].path)
      /\ Goto(a, "copyBack") /\ UNCHANGED << payload, call >>
  BY DEF OpenBack
<1>3. /\ pc' \in [Actor -> Steps] /\ pc'[a] = "copyBack" /\ \A b \in Actor \ {a} : pc'[b] = pc[b]
  BY <1>t, <1>2, GotoStep DEF TypeOK, Steps
<1>4. home' \in [Path -> Files] /\ events' \subseteq Path
  BY <1>t, <1>1, <1>2, ContentAssumption DEF TypeOK, Files, Notify
<1>5. TypeOK'
  BY <1>t, <1>2, <1>3, <1>4 DEF TypeOK, QuarantineTypeOK
<1>6. Frame(a)
  BY <1>1, <1>2, <1>3 DEF Frame, RowsGrow, Same
<1>7. OwnInv(a)'
  BY <1>t, <1>1, <1>2, <1>3 DEF OwnInv, Busy, Capturing
<1>8. VerdictInv(a)'
  BY <1>t, <1>1, <1>2, <1>3 DEF VerdictInv, Recording, Restoring
<1>9. QED
  BY <1>5, <1>6, <1>7, <1>8

\* Restoring moves the payload, starts to copy it, or finds none and gives up.
LEMMA MoveBackStep ==
  ASSUME DaemonInv, NEW a \in Actor, MoveBack(a)
  PROVE  TypeOK' /\ Frame(a) /\ OwnInv(a)' /\ VerdictInv(a)'
<1> USE DEF disk, watch, history, bounds
<1>t. TypeOK /\ OwnInv(a) /\ VerdictInv(a)
  BY DEF DaemonInv, TypeInv
<1> DEFINE p == mem[a].path
           e == ent[a]
<1>1. Busy(a) /\ mem[a] \in Metas /\ p \in Path /\ e \in Entry /\ pc[a] = "moveBack"
  BY <1>t DEF MoveBack, Busy, OwnInv, Metas, TypeOK
<1>2. UNCHANGED << meta, phase, ent, mem, todo, folder, timers, jobs, ignore, rows, missed, failed,
                   removable, writes, faults >>
  BY DEF MoveBack
<1>3. CASE payload[e] = NoFile
  <2>1. Return(a) /\ UNCHANGED << home, payload, events, due >>
    BY <1>3 DEF MoveBack
  <2>2. /\ pc' \in [Actor -> Steps] /\ pc'[a] = Loop(a) /\ call' \in [Actor -> Calls]
        /\ \A b \in Actor \ {a} : pc'[b] = pc[b] /\ call'[b] = call[b]
    BY <1>t, <2>1, ReturnStep DEF TypeOK
  <2>3. TypeOK'
    BY <1>t, <1>2, <2>1, <2>2 DEF TypeOK, QuarantineTypeOK
  <2>4. Frame(a)
    BY <1>1, <1>2, <2>1, <2>2 DEF Frame, RowsGrow, Same
  <2>5. QED
    BY <2>2, <2>3, <2>4, LoopStep
<1>4. CASE payload[e] # NoFile /\ p \notin removable
  <2>1. /\ payload' = [payload EXCEPT ![e] = NoFile] /\ home' = [home EXCEPT ![p] = payload[e]]
        /\ due' = due \ {payload[e]} /\ Goto(a, "removeAll") /\ Notify(p) /\ call' = call
    BY <1>4 DEF MoveBack
  <2>2. /\ pc' \in [Actor -> Steps] /\ pc'[a] = "removeAll" /\ \A b \in Actor \ {a} : pc'[b] = pc[b]
    BY <1>t, <2>1, GotoStep DEF TypeOK, Steps
  <2>3. /\ payload' \in [Entry -> Files] /\ payload'[e] = NoFile
        /\ \A f \in Entry \ {e} : payload'[f] = payload[f]
        /\ home' \in [Path -> Files] /\ events' \subseteq Path /\ due' \subseteq Written
    BY <1>t, <1>1, <2>1 DEF TypeOK, Files, Notify
  <2>4. TypeOK'
    BY <1>t, <1>2, <2>1, <2>2, <2>3 DEF TypeOK, QuarantineTypeOK
  <2>5. Frame(a)
    BY <1>1, <1>2, <2>1, <2>2, <2>3 DEF Frame, RowsGrow, Same
  <2>6. OwnInv(a)'
    BY <1>t, <1>1, <1>2, <2>1, <2>2, <2>3 DEF OwnInv, Busy, Capturing
  <2>7. VerdictInv(a)'
    BY <1>t, <1>1, <1>2, <2>1, <2>2 DEF VerdictInv, Recording, Restoring
  <2>8. QED
    BY <2>4, <2>5, <2>6, <2>7
<1>5. CASE payload[e] # NoFile /\ p \in removable
  <2>1. OpenBack(a) /\ due' = due /\ faults' \in 0..MaxFaults
    BY <1>t, <1>2, <1>5 DEF MoveBack, TypeOK
  <2>2. QED
    BY <1>1, <1>2, <2>1, OpenBackStep
<1>6. QED
  BY <1>3, <1>4, <1>5

\* A restore that fails leaves the entry as it is.
LEMMA MoveBackFailsStep ==
  ASSUME DaemonInv, NEW a \in Actor, MoveBackFails(a)
  PROVE  TypeOK' /\ Frame(a) /\ OwnInv(a)' /\ VerdictInv(a)'
<1> USE DEF disk, watch, history, bounds
<1>t. TypeOK /\ OwnInv(a) /\ VerdictInv(a)
  BY DEF DaemonInv, TypeInv
<1>1. /\ pc' \in [Actor -> Steps] /\ pc'[a] = Loop(a) /\ call' \in [Actor -> Calls]
      /\ \A b \in Actor \ {a} : pc'[b] = pc[b] /\ call'[b] = call[b]
  BY <1>t, ReturnStep DEF MoveBackFails, TypeOK
<1>2. /\ failed' \subseteq Entry /\ faults' \in 0..MaxFaults
      /\ UNCHANGED << payload, meta, phase, ent, mem, todo, folder, timers, jobs, ignore, rows,
                      due, missed, removable, writes >>
  BY <1>t, BoundsAssumption DEF MoveBackFails, TypeOK, Fault
<1>3. home' \in [Path -> Files] /\ events' \subseteq Path
  <2>1. Busy(a) /\ mem[a].path \in Path
    BY <1>t DEF MoveBackFails, Busy, OwnInv, Metas
  <2>2. QED
    BY <1>t, <2>1 DEF MoveBackFails, Notify, TypeOK, Files
<1>4. TypeOK'
  BY <1>t, <1>1, <1>2, <1>3 DEF TypeOK, QuarantineTypeOK
<1>5. Frame(a)
  BY <1>1, <1>2 DEF Frame, RowsGrow, Same
<1>6. QED
  BY <1>1, <1>4, <1>5, LoopStep

-------------------------------------------------------------------------------
(* The workers take in files *)

\* A worker's new entry is one nobody has.
LEMMA TakeJobStep ==
  ASSUME DaemonInv, NEW a \in Worker, TakeJob(a)
  PROVE  TypeOK' /\ Frame(a) /\ OwnInv(a)' /\ VerdictInv(a)' /\ Alone(a)
<1> USE DEF disk, watch, history, bounds
<1>t. TypeOK /\ OwnInv(a) /\ VerdictInv(a)
  BY DEF DaemonInv, TypeInv, Actor
<1>a. a \in Actor /\ ~Busy(a) /\ pc[a] = "idle"
  BY DEF TakeJob, Actor, Busy
<1>1. jobs' = Tail(jobs) /\ jobs # << >> /\ Head(jobs) \in Path /\ jobs' \in Seq(Path) /\ Len(jobs') <= JobsCap
  BY <1>t, BoundsAssumption DEF TakeJob, TypeOK
<1>2. UNCHANGED << home, payload, meta, phase, call, todo, folder, events, timers, ignore, rows,
                   due, missed, failed, removable, writes, faults >>
  BY DEF TakeJob
<1>3. CASE UNCHANGED << pc, ent, mem >>
  <2>1. TypeOK'
    BY <1>t, <1>1, <1>2, <1>3 DEF TypeOK, QuarantineTypeOK
  <2>2. Frame(a)
    BY <1>2, <1>3 DEF Frame, RowsGrow, Same
  <2>3. OwnInv(a)' /\ VerdictInv(a)'
    BY <1>a, <1>3, IdleStep
  <2>4. Alone(a)
    BY <1>a, <1>3 DEF Alone, Busy
  <2>5. QED
    BY <2>1, <2>2, <2>3, <2>4
<1>4. ASSUME NEW e \in Entry, Unused(e), ent' = [ent EXCEPT ![a] = e],
             mem' = [mem EXCEPT ![a] = [path |-> Head(jobs), state |-> "pending_submit", qid |-> 0]],
             Goto(a, "quarantine")
      PROVE  TypeOK' /\ Frame(a) /\ OwnInv(a)' /\ VerdictInv(a)' /\ Alone(a) /\ Alone(a)
  <2> DEFINE m == [path |-> Head(jobs), state |-> "pending_submit", qid |-> 0]
  <2>1. m \in Metas /\ m.state = "pending_submit"
    BY <1>1, BoundsAssumption DEF Metas
  <2> HIDE DEF m
  <2>2. /\ pc' \in [Actor -> Steps] /\ pc'[a] = "quarantine" /\ \A b \in Actor \ {a} : pc'[b] = pc[b]
    BY <1>t, <1>a, <1>4, GotoStep DEF TypeOK, Steps
  <2>3. /\ ent' \in [Actor -> Entry] /\ ent'[a] = e /\ mem' \in [Actor -> Metas \cup {NoMeta}] /\ mem'[a] = m
        /\ \A b \in Actor \ {a} : ent'[b] = ent[b] /\ mem'[b] = mem[b]
    BY <1>t, <1>a, <1>4, <2>1 DEF TypeOK, m
  <2>4. payload[e] = NoFile /\ meta[e] = NoMeta /\ \A b \in Actor : ~(Busy(b) /\ ent[b] = e)
    BY <1>4 DEF Unused
  <2>5. TypeOK'
    BY <1>t, <1>1, <1>2, <2>2, <2>3 DEF TypeOK, QuarantineTypeOK
  <2>6. Frame(a)
    BY <1>2, <2>2, <2>3 DEF Frame, RowsGrow, Same
  <2>7. OwnInv(a)'
    BY <1>2, <2>1, <2>2, <2>3, <2>4 DEF OwnInv, Busy, Capturing, NoMeta
  <2>8. VerdictInv(a)'
    BY <2>2 DEF VerdictInv, Recording, Restoring
  <2>9. Alone(a)
    BY <2>3, <2>4 DEF Alone
  <2>10. QED
    BY <2>5, <2>6, <2>7, <2>8, <2>9
<1>5. QED
  BY <1>3, <1>4 DEF TakeJob

\* Opening both files to copy puts a partial payload into the worker's own entry.
LEMMA OpenInStep ==
  ASSUME DaemonInv, NEW a \in Worker, pc[a] = "quarantine", OpenIn(a), faults' \in 0..MaxFaults,
         UNCHANGED << meta, phase, ent, mem, todo, folder, timers, jobs, ignore, rows, due, missed, failed,
                      removable, writes >>
  PROVE  TypeOK' /\ Frame(a) /\ OwnInv(a)' /\ VerdictInv(a)'
<1>t. TypeOK /\ OwnInv(a) /\ VerdictInv(a)
  BY DEF DaemonInv, TypeInv, Actor
<1> DEFINE p == mem[a].path
           e == ent[a]
           c == [call[a] EXCEPT !.content = home[p]]
<1>1. /\ a \in Actor /\ a # HeldPoller /\ Busy(a) /\ mem[a] \in Metas /\ p \in Path /\ e \in Entry
      /\ meta[e] = NoMeta /\ mem[a].state = "pending_submit"
  BY <1>t, NamesAssumption DEF Busy, OwnInv, Metas, TypeOK, Actor, Capturing
<1>2. call[a] \in Calls /\ home[p] \in Files
  BY <1>t, <1>1 DEF TypeOK
<1>3. c \in Calls
  BY <1>2 DEF Calls
<1>4. /\ payload' = [payload EXCEPT ![e] = Partial] /\ call' = [call EXCEPT ![a] = c]
      /\ Goto(a, "copyIn") /\ UNCHANGED << home, events >>
  BY DEF OpenIn
<1> HIDE DEF c
<1>5. /\ pc' \in [Actor -> Steps] /\ pc'[a] = "copyIn" /\ \A b \in Actor \ {a} : pc'[b] = pc[b]
  BY <1>t, <1>1, <1>4, GotoStep DEF TypeOK, Steps
<1>6. /\ payload' \in [Entry -> Files] /\ payload'[e] = Partial
      /\ \A f \in Entry \ {e} : payload'[f] = payload[f]
      /\ call' \in [Actor -> Calls] /\ \A b \in Actor \ {a} : call'[b] = call[b]
  BY <1>t, <1>1, <1>3, <1>4, ContentAssumption DEF TypeOK, Files
<1>7. TypeOK'
  BY <1>t, <1>4, <1>5, <1>6 DEF TypeOK, QuarantineTypeOK
<1>8. Frame(a)
  BY <1>1, <1>4, <1>5, <1>6 DEF Frame, RowsGrow, Same
<1>9. OwnInv(a)'
  BY <1>t, <1>1, <1>5, <1>6 DEF OwnInv, Busy, Capturing
<1>10. VerdictInv(a)'
  BY <1>5 DEF VerdictInv, Recording, Restoring
<1>11. QED
  BY <1>7, <1>8, <1>9, <1>10

\* Quarantining fills the worker's own entry, which has no sidecar yet.
LEMMA CaptureStep ==
  ASSUME DaemonInv, NEW a \in Worker, Capture(a)
  PROVE  TypeOK' /\ Frame(a) /\ OwnInv(a)' /\ VerdictInv(a)'
<1> USE DEF disk, watch, history, bounds
<1>t. TypeOK /\ OwnInv(a) /\ VerdictInv(a)
  BY DEF DaemonInv, TypeInv, Actor
<1> DEFINE p == mem[a].path
           e == ent[a]
<1>1. /\ a \in Actor /\ a # HeldPoller /\ Busy(a) /\ mem[a] \in Metas /\ p \in Path /\ e \in Entry
      /\ pc[a] = "quarantine" /\ meta[e] = NoMeta /\ payload[e] = NoFile
      /\ mem[a].state = "pending_submit"
  BY <1>t, NamesAssumption DEF Capture, Busy, OwnInv, Metas, TypeOK, Actor, Capturing
<1>2. UNCHANGED << meta, phase, ent, mem, todo, folder, timers, jobs, ignore, rows, due, missed, failed,
                   removable, writes, faults >>
  BY DEF Capture
<1>3. CASE home[p] = NoFile
  <2>1. Return(a) /\ UNCHANGED << home, payload, events >>
    BY <1>3 DEF Capture
  <2>2. /\ pc' \in [Actor -> Steps] /\ pc'[a] = Loop(a) /\ call' \in [Actor -> Calls]
        /\ \A b \in Actor \ {a} : pc'[b] = pc[b] /\ call'[b] = call[b]
    BY <1>t, <1>1, <2>1, ReturnStep DEF TypeOK
  <2>3. TypeOK'
    BY <1>t, <1>2, <2>1, <2>2 DEF TypeOK, QuarantineTypeOK
  <2>4. Frame(a)
    BY <1>1, <1>2, <2>1, <2>2 DEF Frame, RowsGrow, Same
  <2>5. QED
    BY <1>1, <2>2, <2>3, <2>4, LoopStep
<1>4. CASE home[p] # NoFile /\ p \notin removable
  <2>1. /\ payload' = [payload EXCEPT ![e] = home[p]] /\ home' = [home EXCEPT ![p] = NoFile]
        /\ Goto(a, "writeMeta") /\ Notify(p) /\ call' = call
    BY <1>4 DEF Capture
  <2>2. /\ pc' \in [Actor -> Steps] /\ pc'[a] = "writeMeta" /\ \A b \in Actor \ {a} : pc'[b] = pc[b]
    BY <1>t, <1>1, <2>1, GotoStep DEF TypeOK, Steps
  <2>3. /\ payload' \in [Entry -> Files] /\ \A f \in Entry \ {e} : payload'[f] = payload[f]
        /\ home' \in [Path -> Files] /\ events' \subseteq Path
    BY <1>t, <1>1, <2>1 DEF TypeOK, Files, Notify
  <2>4. TypeOK'
    BY <1>t, <1>2, <2>1, <2>2, <2>3 DEF TypeOK, QuarantineTypeOK
  <2>5. Frame(a)
    BY <1>1, <1>2, <2>1, <2>2, <2>3 DEF Frame, RowsGrow, Same
  <2>6. OwnInv(a)'
    BY <1>t, <1>1, <1>2, <2>1, <2>2, <2>3 DEF OwnInv, Busy, Capturing
  <2>7. VerdictInv(a)'
    BY <1>1, <1>2, <1>t, <2>2 DEF VerdictInv, Recording, Restoring
  <2>8. QED
    BY <2>4, <2>5, <2>6, <2>7
<1>5. CASE home[p] # NoFile /\ p \in removable
  <2>1. OpenIn(a) /\ faults' \in 0..MaxFaults
    BY <1>t, <1>2, <1>5 DEF Capture, TypeOK
  <2>2. QED
    BY <1>1, <1>2, <2>1, OpenInStep
<1>6. QED
  BY <1>3, <1>4, <1>5

\* The copy replaces the partial payload, or is deleted.
LEMMA CopyInStep ==
  ASSUME DaemonInv, NEW a \in Worker, CopyIn(a)
  PROVE  TypeOK' /\ Frame(a) /\ OwnInv(a)' /\ VerdictInv(a)'
<1> USE DEF disk, watch, history, bounds
<1>t. TypeOK /\ OwnInv(a) /\ VerdictInv(a)
  BY DEF DaemonInv, TypeInv, Actor
<1> DEFINE p == mem[a].path
           e == ent[a]
<1>1. /\ a \in Actor /\ a # HeldPoller /\ Busy(a) /\ mem[a] \in Metas /\ p \in Path /\ e \in Entry
      /\ pc[a] = "copyIn" /\ meta[e] = NoMeta /\ mem[a].state = "pending_submit"
  BY <1>t, NamesAssumption DEF CopyIn, Busy, OwnInv, Metas, TypeOK, Actor, Capturing
<1>2. UNCHANGED << home, meta, phase, ent, mem, todo, folder, events, timers, jobs, ignore, rows, due,
                   missed, failed, removable, writes, faults >>
  BY DEF CopyIn
<1>n. NoCall \in Calls
  BY BoundsAssumption DEF NoCall, Calls, Files
<1>3. ASSUME NEW c \in {call[a].content, home[p]} \ {NoFile}, payload' = [payload EXCEPT ![e] = c],
             call' = [call EXCEPT ![a] = NoCall], Goto(a, "unlinkIn")
      PROVE  TypeOK' /\ Frame(a) /\ OwnInv(a)' /\ VerdictInv(a)'
  <2>0. c \in Files
    BY <1>t, <1>1, <1>3 DEF TypeOK, Calls
  <2>1. /\ pc' \in [Actor -> Steps] /\ pc'[a] = "unlinkIn" /\ \A b \in Actor \ {a} : pc'[b] = pc[b]
    BY <1>t, <1>1, <1>3, GotoStep DEF TypeOK, Steps
  <2>2. /\ payload' \in [Entry -> Files] /\ \A f \in Entry \ {e} : payload'[f] = payload[f]
        /\ call' \in [Actor -> Calls] /\ \A b \in Actor \ {a} : call'[b] = call[b]
    BY <1>t, <1>1, <1>3, <1>n, <2>0 DEF TypeOK
  <2>3. TypeOK'
    BY <1>t, <1>2, <2>1, <2>2 DEF TypeOK, QuarantineTypeOK
  <2>4. Frame(a)
    BY <1>1, <1>2, <2>1, <2>2 DEF Frame, RowsGrow, Same
  <2>5. OwnInv(a)'
    BY <1>t, <1>1, <1>2, <2>1 DEF OwnInv, Busy, Capturing
  <2>6. VerdictInv(a)'
    BY <2>1 DEF VerdictInv, Recording, Restoring
  <2>7. QED
    BY <2>3, <2>4, <2>5, <2>6
<1>4. CASE payload' = [payload EXCEPT ![e] = NoFile] /\ Return(a)
  <2>1. /\ pc' \in [Actor -> Steps] /\ pc'[a] = Loop(a) /\ call' \in [Actor -> Calls]
        /\ \A b \in Actor \ {a} : pc'[b] = pc[b] /\ call'[b] = call[b]
    BY <1>t, <1>1, <1>4, ReturnStep DEF TypeOK
  <2>2. payload' \in [Entry -> Files] /\ \A f \in Entry \ {e} : payload'[f] = payload[f]
    BY <1>t, <1>1, <1>4 DEF TypeOK, Files
  <2>3. TypeOK'
    BY <1>t, <1>2, <2>1, <2>2 DEF TypeOK, QuarantineTypeOK
  <2>4. Frame(a)
    BY <1>1, <1>2, <2>1, <2>2 DEF Frame, RowsGrow, Same
  <2>5. QED
    BY <1>1, <2>1, <2>3, <2>4, LoopStep
<1>5. QED
  BY <1>3, <1>4 DEF CopyIn

\* Removing the copied file touches no entry.
LEMMA UnlinkInStep ==
  ASSUME DaemonInv, NEW a \in Worker, UnlinkIn(a)
  PROVE  TypeOK' /\ Frame(a) /\ OwnInv(a)' /\ VerdictInv(a)'
<1> USE DEF disk, watch, history, bounds
<1>t. TypeOK /\ OwnInv(a) /\ VerdictInv(a)
  BY DEF DaemonInv, TypeInv, Actor
<1> DEFINE p == mem[a].path
<1>1. /\ a \in Actor /\ a # HeldPoller /\ Busy(a) /\ mem[a] \in Metas /\ p \in Path
      /\ pc[a] = "unlinkIn" /\ mem[a].state = "pending_submit" /\ meta[ent[a]] = NoMeta
  BY <1>t, NamesAssumption DEF UnlinkIn, Busy, OwnInv, Metas, TypeOK, Actor, Capturing
<1>2. UNCHANGED << payload, meta, phase, ent, mem, todo, folder, timers, jobs, ignore, rows, due,
                   missed, removable, writes, faults >>
  BY DEF UnlinkIn
<1>3. CASE home[p] = NoFile
  <2>1. Return(a) /\ UNCHANGED << home, events >> /\ failed' \subseteq Entry
    BY <1>t, <1>1, <1>3 DEF UnlinkIn, TypeOK
  <2>2. /\ pc' \in [Actor -> Steps] /\ pc'[a] = Loop(a) /\ call' \in [Actor -> Calls]
        /\ \A b \in Actor \ {a} : pc'[b] = pc[b] /\ call'[b] = call[b]
    BY <1>t, <1>1, <2>1, ReturnStep DEF TypeOK
  <2>3. TypeOK'
    BY <1>t, <1>2, <2>1, <2>2 DEF TypeOK, QuarantineTypeOK
  <2>4. Frame(a)
    BY <1>1, <1>2, <2>1, <2>2 DEF Frame, RowsGrow, Same
  <2>5. QED
    BY <1>1, <2>2, <2>3, <2>4, LoopStep
<1>4. CASE home[p] # NoFile
  <2>1. /\ home' = [home EXCEPT ![p] = NoFile] /\ Goto(a, "writeMeta") /\ Notify(p)
        /\ UNCHANGED << call, failed >>
    BY <1>4 DEF UnlinkIn
  <2>2. /\ pc' \in [Actor -> Steps] /\ pc'[a] = "writeMeta" /\ \A b \in Actor \ {a} : pc'[b] = pc[b]
    BY <1>t, <1>1, <2>1, GotoStep DEF TypeOK, Steps
  <2>3. home' \in [Path -> Files] /\ events' \subseteq Path
    BY <1>t, <1>1, <2>1 DEF TypeOK, Files, Notify
  <2>4. TypeOK'
    BY <1>t, <1>2, <2>1, <2>2, <2>3 DEF TypeOK, QuarantineTypeOK
  <2>5. Frame(a)
    BY <1>1, <1>2, <2>1, <2>2 DEF Frame, RowsGrow, Same
  <2>6. OwnInv(a)'
    BY <1>t, <1>1, <1>2, <2>1, <2>2 DEF OwnInv, Busy, Capturing
  <2>7. VerdictInv(a)'
    BY <1>1, <1>2, <2>2 DEF VerdictInv, Recording, Restoring
  <2>8. QED
    BY <2>4, <2>5, <2>6, <2>7
<1>5. QED
  BY <1>3, <1>4

\* A file that cannot be moved leaves at most a payload without a sidecar.
LEMMA MoveInFailsStep ==
  ASSUME DaemonInv, NEW a \in Actor, MoveInFails(a)
  PROVE  TypeOK' /\ Frame(a) /\ OwnInv(a)' /\ VerdictInv(a)'
<1> USE DEF disk, watch, history, bounds
<1>t. TypeOK /\ OwnInv(a) /\ VerdictInv(a)
  BY DEF DaemonInv, TypeInv
<1>1. /\ pc' \in [Actor -> Steps] /\ pc'[a] = Loop(a) /\ call' \in [Actor -> Calls]
      /\ \A b \in Actor \ {a} : pc'[b] = pc[b] /\ call'[b] = call[b]
  BY <1>t, ReturnStep DEF MoveInFails, TypeOK
<1>2. /\ failed' \subseteq Entry /\ faults' \in 0..MaxFaults /\ missed' \subseteq Written
      /\ UNCHANGED << home, meta, phase, ent, mem, todo, folder, events, timers, jobs, ignore, rows,
                      due, removable, writes >>
  BY <1>t, BoundsAssumption DEF MoveInFails, TypeOK, Fault
<1>3. Busy(a) /\ ent[a] \in Entry
  BY <1>t DEF MoveInFails, Busy, TypeOK
<1>4. payload' \in [Entry -> Files] /\ \A e \in Entry \ {ent[a]} : payload'[e] = payload[e]
  <2>1. /\ call[a].content \in Files /\ NoFile \in Files /\ Partial \in Files /\ payload[ent[a]] \in Files
    BY <1>t, <1>3, ContentAssumption DEF TypeOK, Calls, Files
  <2>2. QED
    BY <1>t, <1>3, <2>1 DEF MoveInFails, TypeOK
<1>5. TypeOK'
  BY <1>t, <1>1, <1>2, <1>4 DEF TypeOK, QuarantineTypeOK
<1>6. Frame(a)
  BY <1>1, <1>2, <1>3, <1>4 DEF Frame, RowsGrow, Same
<1>7. QED
  BY <1>1, <1>5, <1>6, LoopStep

\* A refused rename is a copy instead.
LEMMA RenameRefusedStep ==
  ASSUME DaemonInv, NEW a \in Actor, RenameRefused(a)
  PROVE  TypeOK' /\ Frame(a) /\ OwnInv(a)' /\ VerdictInv(a)'
<1> USE DEF disk, watch, history, bounds
<1>t. TypeOK /\ OwnInv(a)
  BY DEF DaemonInv, TypeInv
<1>1. /\ faults' \in 0..MaxFaults
      /\ UNCHANGED << meta, phase, ent, mem, todo, folder, timers, jobs, ignore, rows, due, missed, failed,
                      removable, writes >>
  BY <1>t, BoundsAssumption DEF RenameRefused, TypeOK, Fault
<1>2. CASE pc[a] = "quarantine" /\ OpenIn(a)
  <2>1. a \in Worker
    BY <1>t, <1>2 DEF OwnInv, Capturing
  <2>2. QED
    BY <1>1, <1>2, <2>1, OpenInStep
<1>3. CASE pc[a] = "moveBack" /\ OpenBack(a)
  BY <1>1, <1>3, OpenBackStep
<1>4. QED
  BY <1>2, <1>3 DEF RenameRefused

-------------------------------------------------------------------------------
(* The scans *)

\* At the start main has a list and no entry.
LEMMA StartStep ==
  ASSUME DaemonInv, Start
  PROVE  TypeOK' /\ Frame(Main) /\ OwnInv(Main)' /\ VerdictInv(Main)' /\ Alone(Main)
<1> USE DEF disk, watch, history, bounds
<1>a. Main \in Actor /\ Main \notin Worker
  BY NamesAssumption DEF Actor
<1>t. TypeOK /\ OwnInv(Main) /\ VerdictInv(Main)
  BY <1>a DEF DaemonInv, TypeInv
<1>1. /\ pc' \in [Actor -> Steps] /\ pc'[Main] = "scan" /\ \A b \in Actor \ {Main} : pc'[b] = pc[b]
  BY <1>a, <1>t, GotoStep DEF Start, TypeOK, Steps
<1>2. UNCHANGED << home, payload, meta, ent, mem, call, folder, events, timers, jobs, ignore, rows, due,
                   missed, failed, removable, writes, faults >>
  BY DEF Start
<1>3. phase' \in {"down", "sweeping", "watching"} /\ todo' \in [Actor -> SUBSET Entry]
  BY <1>a, <1>t DEF Start, TypeOK, Readables
<1>4. TypeOK'
  BY <1>t, <1>1, <1>2, <1>3 DEF TypeOK, QuarantineTypeOK
<1>5. Frame(Main)
  BY <1>1, <1>2 DEF Frame, RowsGrow, Same
<1>6. OwnInv(Main)' /\ VerdictInv(Main)'
  BY <1>1, <1>a, IdleStep
<1>7. Alone(Main)
  BY <1>1 DEF Alone, Busy
<1>8. QED
  BY <1>4, <1>5, <1>6, <1>7

\* When the sweep is over main has no entry.
LEMMA StartWatchingStep ==
  ASSUME DaemonInv, StartWatching
  PROVE  TypeOK' /\ Frame(Main) /\ OwnInv(Main)' /\ VerdictInv(Main)' /\ Alone(Main)
<1> USE DEF disk, watch, history, bounds
<1>a. Main \in Actor /\ Main \notin Worker
  BY NamesAssumption DEF Actor
<1>t. TypeOK /\ OwnInv(Main) /\ VerdictInv(Main)
  BY <1>a DEF DaemonInv, TypeInv
<1>1. /\ pc' \in [Actor -> Steps] /\ pc'[Main] = "idle" /\ \A b \in Actor \ {Main} : pc'[b] = pc[b]
  BY <1>a, <1>t, GotoStep DEF StartWatching, TypeOK, Steps
<1>2. /\ UNCHANGED << home, payload, meta, ent, mem, call, events, timers, jobs, ignore, rows, due,
                      missed, failed, removable, writes >>
      /\ faults' \in 0..MaxFaults /\ folder' \in [Path -> Folders]
  BY <1>t, BoundsAssumption DEF StartWatching, Watch, Fault, TypeOK, Folders
<1>3. phase' \in {"down", "sweeping", "watching"} /\ todo' \in [Actor -> SUBSET Entry]
  BY <1>a, <1>t DEF StartWatching, TypeOK, Readables
<1>4. TypeOK'
  BY <1>t, <1>1, <1>2, <1>3 DEF TypeOK, QuarantineTypeOK
<1>5. Frame(Main)
  BY <1>1, <1>2 DEF Frame, RowsGrow, Same
<1>6. OwnInv(Main)' /\ VerdictInv(Main)'
  BY <1>1, <1>a, IdleStep
<1>7. Alone(Main)
  BY <1>1 DEF Alone, Busy
<1>8. QED
  BY <1>4, <1>5, <1>6, <1>7

\* At a tick the poller has a list and no entry.
LEMMA PollTickStep ==
  ASSUME DaemonInv, PollTick
  PROVE  TypeOK' /\ Frame(HeldPoller) /\ OwnInv(HeldPoller)' /\ VerdictInv(HeldPoller)' /\ Alone(HeldPoller)
<1> USE DEF disk, watch, history, bounds
<1>a. HeldPoller \in Actor /\ HeldPoller \notin Worker
  BY NamesAssumption DEF Actor
<1>t. TypeOK /\ OwnInv(HeldPoller) /\ VerdictInv(HeldPoller)
  BY <1>a DEF DaemonInv, TypeInv
<1>1. /\ pc' \in [Actor -> Steps] /\ pc'[HeldPoller] = "scan" /\ \A b \in Actor \ {HeldPoller} : pc'[b] = pc[b]
  BY <1>a, <1>t, GotoStep DEF PollTick, TypeOK, Steps
<1>2. UNCHANGED << home, payload, meta, ent, mem, call, folder, events, timers, jobs, ignore, rows, due,
                   missed, failed, removable, writes, faults >>
  BY DEF PollTick
<1>3. phase' \in {"down", "sweeping", "watching"} /\ todo' \in [Actor -> SUBSET Entry]
  BY <1>a, <1>t DEF PollTick, TypeOK, Readables
<1>4. TypeOK'
  BY <1>t, <1>1, <1>2, <1>3 DEF TypeOK, QuarantineTypeOK
<1>5. Frame(HeldPoller)
  BY <1>1, <1>2 DEF Frame, RowsGrow, Same
<1>6. OwnInv(HeldPoller)' /\ VerdictInv(HeldPoller)'
  BY <1>1, <1>a, IdleStep
<1>7. Alone(HeldPoller)
  BY <1>1 DEF Alone, Busy
<1>8. QED
  BY <1>4, <1>5, <1>6, <1>7

\* After a tick the poller has no entry.
LEMMA PollDoneStep ==
  ASSUME DaemonInv, PollDone
  PROVE  TypeOK' /\ Frame(HeldPoller) /\ OwnInv(HeldPoller)' /\ VerdictInv(HeldPoller)' /\ Alone(HeldPoller)
<1> USE DEF disk, watch, history, bounds
<1>a. HeldPoller \in Actor /\ HeldPoller \notin Worker
  BY NamesAssumption DEF Actor
<1>t. TypeOK /\ OwnInv(HeldPoller) /\ VerdictInv(HeldPoller)
  BY <1>a DEF DaemonInv, TypeInv
<1>1. /\ pc' \in [Actor -> Steps] /\ pc'[HeldPoller] = "idle" /\ \A b \in Actor \ {HeldPoller} : pc'[b] = pc[b]
  BY <1>a, <1>t, GotoStep DEF PollDone, TypeOK, Steps
<1>2. UNCHANGED << home, payload, meta, ent, mem, call, folder, events, timers, jobs, ignore, rows, due,
                   missed, failed, removable, writes, faults >>
  BY DEF PollDone
<1>3. phase' \in {"down", "sweeping", "watching"} /\ todo' \in [Actor -> SUBSET Entry]
  BY <1>a, <1>t DEF PollDone, TypeOK, Readables
<1>4. TypeOK'
  BY <1>t, <1>1, <1>2, <1>3 DEF TypeOK, QuarantineTypeOK
<1>5. Frame(HeldPoller)
  BY <1>1, <1>2 DEF Frame, RowsGrow, Same
<1>6. OwnInv(HeldPoller)' /\ VerdictInv(HeldPoller)'
  BY <1>1, <1>a, IdleStep
<1>7. Alone(HeldPoller)
  BY <1>1 DEF Alone, Busy
<1>8. QED
  BY <1>4, <1>5, <1>6, <1>7

\* The sweep takes an entry in "pending_submit", which neither poller nor workers have.
LEMMA SweepVisitStep ==
  ASSUME DaemonInv, NEW e \in Entry, SweepVisit(e)
  PROVE  TypeOK' /\ Frame(Main) /\ OwnInv(Main)' /\ VerdictInv(Main)' /\ Alone(Main)
<1> USE DEF disk, watch, history, bounds
<1>a. Main \in Actor /\ Main \notin Worker
  BY NamesAssumption DEF Actor
<1>t. TypeOK /\ OwnInv(Main) /\ VerdictInv(Main)
  BY <1>a DEF DaemonInv, TypeInv
<1>1. /\ pc[Main] = "scan" /\ todo' = [todo EXCEPT ![Main] = @ \ {e}] /\ todo' \in [Actor -> SUBSET Entry]
      /\ ~Busy(Main)
  BY <1>a, <1>t DEF SweepVisit, Visit, TypeOK, Busy
<1>2. UNCHANGED << home, payload, meta, phase, call, folder, events, timers, jobs, ignore, rows, due,
                   missed, failed, removable, writes, faults >>
  BY DEF SweepVisit, Visit
<1>3. CASE meta[e].state # "pending_submit"
  <2>1. UNCHANGED << ent, mem, pc >>
    BY <1>3 DEF SweepVisit
  <2>2. TypeOK'
    BY <1>t, <1>1, <1>2, <2>1 DEF TypeOK, QuarantineTypeOK
  <2>3. Frame(Main)
    BY <1>2, <2>1 DEF Frame, RowsGrow, Same
  <2>4. OwnInv(Main)' /\ VerdictInv(Main)'
    BY <1>1, <1>a, <2>1, IdleStep
  <2>5. Alone(Main)
    BY <1>1, <2>1 DEF Alone, Busy
  <2>6. QED
    BY <2>2, <2>3, <2>4, <2>5
<1>4. CASE meta[e].state = "pending_submit"
  <2>1. ent' = [ent EXCEPT ![Main] = e] /\ mem' = [mem EXCEPT ![Main] = meta[e]] /\ Goto(Main, "submit")
    BY <1>4 DEF SweepVisit
  <2>2. meta[e] \in Metas
    BY <1>t, <1>4, WholeMeta
  <2>3. /\ pc' \in [Actor -> Steps] /\ pc'[Main] = "submit" /\ \A b \in Actor \ {Main} : pc'[b] = pc[b]
    BY <1>t, <1>a, <2>1, GotoStep DEF TypeOK, Steps
  <2>4. /\ ent' \in [Actor -> Entry] /\ ent'[Main] = e
        /\ mem' \in [Actor -> Metas \cup {NoMeta}] /\ mem'[Main] = meta[e]
        /\ \A b \in Actor \ {Main} : ent'[b] = ent[b] /\ mem'[b] = mem[b]
    BY <1>t, <1>a, <2>1, <2>2 DEF TypeOK
  <2>5. TypeOK'
    BY <1>t, <1>1, <1>2, <2>3, <2>4 DEF TypeOK, QuarantineTypeOK
  <2>6. Frame(Main)
    BY <1>1, <1>2, <2>3, <2>4 DEF Frame, RowsGrow, Same
  <2>7. OwnInv(Main)'
    BY <1>2, <1>4, <2>2, <2>3, <2>4, NamesAssumption DEF OwnInv, Busy, Capturing
  <2>8. VerdictInv(Main)'
    BY <2>3, NamesAssumption DEF VerdictInv, Recording, Restoring
  <2>9. \A b \in Actor \ {Main} : Busy(b) => b = HeldPoller /\ ent[b] # e
    <3>1. phase # "watching" /\ \A w \in Worker : ~Busy(w)
      BY <1>1 DEF DaemonInv, PhaseInv, Busy
    <3>2. OwnInv(HeldPoller)
      BY DEF DaemonInv, Actor
    <3>3. QED
      BY <1>4, <3>1, <3>2 DEF OwnInv, Actor
  <2>10. Alone(Main)
    BY <2>4, <2>9 DEF Alone
  <2>11. QED
    BY <2>5, <2>6, <2>7, <2>8, <2>10
<1>5. QED
  BY <1>3, <1>4

\* The poller takes a held entry whose row is decided, which nobody else has.
LEMMA PollVisitStep ==
  ASSUME DaemonInv, NEW e \in Entry, PollVisit(e)
  PROVE  TypeOK' /\ Frame(HeldPoller) /\ OwnInv(HeldPoller)' /\ VerdictInv(HeldPoller)' /\ Alone(HeldPoller)
<1> USE DEF disk, watch, history, bounds
<1>a. HeldPoller \in Actor /\ HeldPoller \notin Worker
  BY NamesAssumption DEF Actor
<1>t. TypeOK /\ OwnInv(HeldPoller) /\ VerdictInv(HeldPoller)
  BY <1>a DEF DaemonInv, TypeInv
<1>1. /\ pc[HeldPoller] = "scan" /\ todo' = [todo EXCEPT ![HeldPoller] = @ \ {e}]
      /\ todo' \in [Actor -> SUBSET Entry] /\ ~Busy(HeldPoller)
  BY <1>a, <1>t DEF PollVisit, Visit, TypeOK, Busy
<1>2. UNCHANGED << home, payload, meta, phase, call, folder, events, timers, jobs, ignore, rows, due,
                   missed, failed, removable, writes, faults >>
  BY DEF PollVisit, Visit
<1> DEFINE status == IF meta[e].state = "held" THEN StatusOf(meta[e].qid) ELSE "none"
<1>3. CASE status \notin {"approved", "rejected"}
  <2>1. UNCHANGED << ent, mem, pc >>
    BY <1>3 DEF PollVisit
  <2>2. TypeOK'
    BY <1>t, <1>1, <1>2, <2>1 DEF TypeOK, QuarantineTypeOK
  <2>3. Frame(HeldPoller)
    BY <1>2, <2>1 DEF Frame, RowsGrow, Same
  <2>4. OwnInv(HeldPoller)' /\ VerdictInv(HeldPoller)'
    BY <1>1, <1>a, <2>1, IdleStep
  <2>5. Alone(HeldPoller)
    BY <1>1, <2>1 DEF Alone, Busy
  <2>6. QED
    BY <2>2, <2>3, <2>4, <2>5
<1>4. CASE status \in {"approved", "rejected"}
  <2> DEFINE m == IF status = "approved" THEN meta[e] ELSE [meta[e] EXCEPT !.state = "blocked"]
             step == IF status = "approved" THEN "release" ELSE "writeMeta"
  <2>1. ent' = [ent EXCEPT ![HeldPoller] = e] /\ mem' = [mem EXCEPT ![HeldPoller] = m] /\ Goto(HeldPoller, step)
    BY <1>4 DEF PollVisit
  <2>2. meta[e].state = "held" /\ meta[e] \in Metas
    BY <1>t, <1>4, WholeMeta
  <2>3. m \in Metas /\ step \in Steps
    BY <2>2 DEF Metas, Steps
  <2>4. /\ step = "release" => m = meta[e] /\ rows[m.qid].status = "approved"
        /\ step = "writeMeta" => m.state = "blocked"
        /\ step \in {"release", "writeMeta"}
    BY <1>4, <2>2 DEF StatusOf, Metas
  <2> HIDE DEF m, step
  <2>5. /\ pc' \in [Actor -> Steps] /\ pc'[HeldPoller] = step
        /\ \A b \in Actor \ {HeldPoller} : pc'[b] = pc[b]
    BY <1>t, <1>a, <2>1, <2>3, GotoStep DEF TypeOK
  <2>6. /\ ent' \in [Actor -> Entry] /\ ent'[HeldPoller] = e
        /\ mem' \in [Actor -> Metas \cup {NoMeta}] /\ mem'[HeldPoller] = m
        /\ \A b \in Actor \ {HeldPoller} : ent'[b] = ent[b] /\ mem'[b] = mem[b]
    BY <1>t, <1>a, <2>1, <2>3 DEF TypeOK
  <2>7. TypeOK'
    BY <1>t, <1>1, <1>2, <2>5, <2>6 DEF TypeOK, QuarantineTypeOK
  <2>8. Frame(HeldPoller)
    BY <1>1, <1>2, <2>5, <2>6 DEF Frame, RowsGrow, Same
  <2>9. OwnInv(HeldPoller)'
    BY <1>2, <1>a, <2>2, <2>3, <2>4, <2>5, <2>6 DEF OwnInv, Busy, Capturing
  <2>10. VerdictInv(HeldPoller)'
    BY <1>2, <2>2, <2>4, <2>5, <2>6 DEF VerdictInv, Recording, Restoring
  <2>11. \A b \in Actor \ {HeldPoller} : Busy(b) => ent[b] # e
    BY <2>2 DEF DaemonInv, OwnInv
  <2>12. Alone(HeldPoller)
    BY <2>6, <2>11 DEF Alone
  <2>13. QED
    BY <2>7, <2>8, <2>9, <2>10, <2>12
<1>5. QED
  BY <1>3, <1>4

\* A failed poll takes no entry.
LEMMA PollFailsStep ==
  ASSUME DaemonInv, NEW e \in Entry, PollFails(e)
  PROVE  TypeOK' /\ Frame(HeldPoller) /\ OwnInv(HeldPoller)' /\ VerdictInv(HeldPoller)' /\ Alone(HeldPoller)
<1> USE DEF disk, watch, history, bounds
<1>a. HeldPoller \in Actor /\ HeldPoller \notin Worker
  BY NamesAssumption DEF Actor
<1>t. TypeOK /\ OwnInv(HeldPoller) /\ VerdictInv(HeldPoller)
  BY <1>a DEF DaemonInv, TypeInv
<1>1. /\ pc[HeldPoller] = "scan" /\ todo' = [todo EXCEPT ![HeldPoller] = @ \ {e}]
      /\ todo' \in [Actor -> SUBSET Entry] /\ ~Busy(HeldPoller)
  BY <1>a, <1>t DEF PollFails, Visit, TypeOK, Busy
<1>2. /\ UNCHANGED << pc, ent, mem, home, payload, meta, phase, call, folder, events, timers, jobs, ignore, rows, due,
                      missed, failed, removable, writes >>
      /\ faults' \in 0..MaxFaults
  BY <1>t, BoundsAssumption DEF PollFails, Visit, Fault, TypeOK
<1>3. TypeOK'
  BY <1>t, <1>1, <1>2 DEF TypeOK, QuarantineTypeOK
<1>4. Frame(HeldPoller)
  BY <1>2 DEF Frame, RowsGrow, Same
<1>5. OwnInv(HeldPoller)' /\ VerdictInv(HeldPoller)'
  BY <1>1, <1>2, <1>a, IdleStep
<1>6. Alone(HeldPoller)
  BY <1>1, <1>2 DEF Alone, Busy
<1>7. QED
  BY <1>3, <1>4, <1>5, <1>6

-------------------------------------------------------------------------------
(* A step of any goroutine *)

TakeIn(w) == TakeJob(w) \/ Capture(w) \/ CopyIn(w) \/ UnlinkIn(w)
Sweeps == Start \/ StartWatching \/ \E e \in Entry : SweepVisit(e)
Polls == PollTick \/ PollDone \/ \E e \in Entry : PollVisit(e) \/ PollFails(e)
Acts(a) == \/ WorkOn(a) \/ FailAt(a)
           \/ a \in Worker /\ TakeIn(a)
           \/ a = Main /\ Sweeps
           \/ a = HeldPoller /\ Polls

\* Whoever takes a step leaves its own entry as it should be.
LEMMA ActsStep ==
  ASSUME DaemonInv, NEW a \in Actor, Acts(a)
  PROVE  TypeOK' /\ Frame(a) /\ OwnInv(a)' /\ VerdictInv(a)' /\ Alone(a)
<1> DEFINE Good == TypeOK' /\ Frame(a) /\ OwnInv(a)' /\ VerdictInv(a)'
<1>a. ASSUME Busy(a), ent' = ent PROVE Alone(a)
  BY <1>a DEF DaemonInv, OneOwner, Alone
<1>1. CASE WorkOn(a) \/ FailAt(a)
  <2>1. Good
    BY <1>1, TruncateMetaStep, WriteMetaStep, SubmitStep, HandleStep, ActStep, MarkReleasedStep,
       MoveBackStep, CopyBackStep, UnlinkBackStep, RemoveEntryStep, WriteMetaFailsStep, SubmitFailsStep,
       MoveInFailsStep, MoveBackFailsStep, RenameRefusedStep
       DEF WorkOn, FailAt
  <2>2. Busy(a) /\ ent' = ent
    BY <1>1 DEF WorkOn, FailAt, Busy, TruncateMeta, WriteMeta, Submit, Handle, Act, MarkReleased,
       MoveBack, CopyBack, UnlinkBack, RemoveEntry, WriteMetaFails, SubmitFails, MoveInFails, MoveBackFails,
       RenameRefused
  <2>3. QED
    BY <1>a, <2>1, <2>2
<1>2. CASE a \in Worker /\ TakeIn(a)
  <2>1. CASE TakeJob(a)
    BY <1>2, <2>1, TakeJobStep
  <2>2. CASE Capture(a) \/ CopyIn(a) \/ UnlinkIn(a)
    <3>1. Good
      BY <1>2, <2>2, CaptureStep, CopyInStep, UnlinkInStep
    <3>2. Busy(a) /\ ent' = ent
      BY <2>2 DEF Busy, Capture, CopyIn, UnlinkIn
    <3>3. QED
      BY <1>a, <3>1, <3>2
  <2>3. QED
    BY <1>2, <2>1, <2>2 DEF TakeIn
<1>3. CASE a = Main /\ Sweeps
  BY <1>3, StartStep, StartWatchingStep, SweepVisitStep DEF Sweeps
<1>4. CASE a = HeldPoller /\ Polls
  BY <1>4, PollTickStep, PollDoneStep, PollVisitStep, PollFailsStep DEF Polls
<1>5. QED
  BY <1>1, <1>2, <1>3, <1>4 DEF Acts

\* What a goroutine has found holds on while nobody touches its entry and rows.
LEMMA KeepsFinding ==
  ASSUME DaemonInv, NEW b \in Actor, Same(b), RowsGrow, removable' = removable,
         Busy(b) => payload'[ent[b]] = payload[ent[b]] /\ meta'[ent[b]] = meta[ent[b]]
  PROVE  OwnInv(b)' /\ VerdictInv(b)'
<1>t. OwnInv(b) /\ VerdictInv(b) /\ ent[b] \in Entry /\ HeldRowMatches
  BY DEF DaemonInv, TypeInv, TypeOK
<1>1. OwnInv(b)'
  BY <1>t DEF Same, OwnInv, Busy, Capturing
<1>2. ASSUME Busy(b), NEW q, RowOf(q, ent[b], mem[b].path)
      PROVE  q \in DOMAIN rows' /\ rows'[q].content = payload'[ent[b]] /\ rows'[q].path = mem[b].path
  BY <1>2 DEF RowOf, RowsGrow
<1>3. CASE pc[b] \in Restoring \cup {"removeAll"}
  <2>1. Busy(b) /\ pc[b] \notin {"submit", "await"} \cup Recording
    BY <1>3 DEF Busy, Restoring, Recording
  <2>2. b = HeldPoller =>
          /\ mem[b] = meta[ent[b]] /\ mem[b].state = "held" /\ rows[mem[b].qid].status = "approved"
    BY <1>t, <1>3 DEF VerdictInv
  <2>3. b = HeldPoller => rows'[mem[b].qid].status = "approved"
    BY <1>t, <2>2 DEF HeldRowMatches, RowsGrow
  <2>4. b # HeldPoller /\ pc[b] \in Restoring =>
           call[b].verdict = "Normal" /\ call[b].content = payload[ent[b]] /\ payload[ent[b]] # NoFile
    BY <1>t DEF VerdictInv
  <2>5. VerdictInv(b)'
    BY <2>1, <2>2, <2>3, <2>4 DEF Same, VerdictInv
  <2>6. QED
    BY <1>1, <2>5
<1>4. CASE pc[b] \in {"submit", "await"} \cup Recording
  <2>1. Busy(b) /\ pc[b] \notin Restoring \cup {"removeAll"}
    BY <1>4 DEF Busy, Restoring, Recording
  <2>2. pc[b] = "await" /\ Holds(call[b].verdict) /\ call[b].verdict # "open" =>
          RowOf(call[b].qid, ent[b], mem[b].path)'
    BY <1>t, <1>2, <2>1 DEF VerdictInv, RowOf, Same
  <2>3. pc[b] \in Recording /\ mem[b].state = "held" => RowOf(mem[b].qid, ent[b], mem[b].path)'
    BY <1>t, <1>2, <2>1 DEF VerdictInv, RowOf, Same
  <2>4. VerdictInv(b)'
    BY <1>t, <2>1, <2>2, <2>3 DEF Same, VerdictInv
  <2>5. QED
    BY <1>1, <2>4
<1>5. CASE pc[b] \notin {"submit", "await", "removeAll"} \cup Recording \cup Restoring
  BY <1>1, <1>5 DEF Same, VerdictInv
<1>6. QED
  BY <1>3, <1>4, <1>5

\* Nobody's finding is spoilt by another goroutine, and no entry gets two owners.
LEMMA OwnersStep ==
  ASSUME DaemonInv, NEW a \in Actor, Acts(a)
  PROVE  TypeOK' /\ OneOwner' /\ \A b \in Actor : OwnInv(b)' /\ VerdictInv(b)'
<1>1. TypeOK' /\ Frame(a) /\ OwnInv(a)' /\ VerdictInv(a)' /\ Alone(a)
  BY ActsStep
<1>2. OneOwner /\ ent \in [Actor -> Entry]
  BY DEF DaemonInv, TypeInv, TypeOK
<1>3. ASSUME NEW b \in Actor \ {a} PROVE OwnInv(b)' /\ VerdictInv(b)'
  <2>1. Same(b) /\ RowsGrow /\ removable' = removable
    BY <1>1, <1>3 DEF Frame
  <2>2. Busy(b) => ent[b] # ent[a] \/ ~Busy(a)
    BY <1>2, <1>3 DEF OneOwner
  <2>3. Busy(b) => payload'[ent[b]] = payload[ent[b]] /\ meta'[ent[b]] = meta[ent[b]]
    BY <1>1, <1>2, <2>2 DEF Frame
  <2>4. QED
    BY <2>1, <2>3, KeepsFinding
<1>4. OneOwner'
  BY <1>1, <1>2 DEF OneOwner, Alone, Frame, Same, Busy
<1>5. QED
  BY <1>1, <1>3, <1>4

-------------------------------------------------------------------------------
(* Rows, sidecars and claims *)

\* A claim is about a row that is there.
LEMMA ClaimsExist ==
  ASSUME DaemonInv, NEW a \in Actor, Claim(a) # 0
  PROVE  RowOf(Claim(a), ent[a], mem[a].path) /\ payload[ent[a]] # NoFile /\ Busy(a)
BY DEF DaemonInv, VerdictInv, Claim, Busy, Recording

\* A goroutine that is neither waiting for an answer nor recording one claims nothing.
LEMMA NoClaim ==
  ASSUME NEW a \in Actor, pc'[a] \notin {"await", "writeMeta", "writingMeta"}
  PROVE  Claim(a)' = 0
BY DEF Claim, Recording

\* Who does nothing keeps its claim.
LEMMA SameClaim == ASSUME NEW b \in Actor, Same(b) PROVE Claim(b)' = Claim(b)
BY DEF Claim, Same

\* No new claim, no new held entry: what sidecars say of rows stays true.
LEMMA NothingClaimed ==
  ASSUME DaemonInv, RowsGrow,
         \A a \in Actor : Claim(a)' \in {0, Claim(a)},
         \A e \in Entry : meta'[e].state = "held" =>
           /\ meta'[e] = meta[e]
           /\ \/ payload'[e] = payload[e]
              \/ payload'[e] = NoFile /\ rows[meta[e].qid].status = "approved"
  PROVE  ClaimInv' /\ HeldRowMatches'
<1>1. ClaimInv'
  <2> SUFFICES ASSUME NEW a \in Actor, Claim(a)' # 0
               PROVE  /\ \A b \in Actor \ {a} : Claim(b)' # Claim(a)'
                      /\ \A e \in Entry : meta'[e].state = "held" => meta'[e].qid # Claim(a)'
    BY DEF ClaimInv
  <2>1. Claim(a)' = Claim(a) /\ Claim(a) # 0
    OBVIOUS
  <2>2. QED
    BY <2>1 DEF DaemonInv, ClaimInv
<1>2. HeldRowMatches'
  <2> SUFFICES ASSUME NEW e \in Entry, meta'[e].state = "held"
               PROVE  LET q == meta'[e].qid
                      IN  /\ q \in DOMAIN rows'
                          /\ rows'[q].path = meta'[e].path
                          /\ IF payload'[e] = NoFile THEN rows'[q].status = "approved"
                                                     ELSE rows'[q].content = payload'[e]
                          /\ \A f \in Entry \ {e} : meta'[f].state = "held" => meta'[f].qid # q
    BY DEF HeldRowMatches
  <2> DEFINE q == meta[e].qid
  <2>1. meta'[e] = meta[e]
    OBVIOUS
  <2>2. /\ q \in DOMAIN rows /\ rows[q].path = meta[e].path
        /\ IF payload[e] = NoFile THEN rows[q].status = "approved" ELSE rows[q].content = payload[e]
        /\ \A f \in Entry \ {e} : meta[f].state = "held" => meta[f].qid # q
    BY <2>1 DEF DaemonInv, HeldRowMatches
  <2>3. /\ q \in DOMAIN rows' /\ rows'[q].path = rows[q].path /\ rows'[q].content = rows[q].content
        /\ rows[q].status = "approved" => rows'[q].status = "approved"
    BY <2>2 DEF RowsGrow
  <2>4. \A f \in Entry \ {e} : meta'[f].state = "held" => meta'[f].qid # q
    BY <2>2
  <2>5. QED
    BY <2>1, <2>2, <2>3, <2>4
<1>3. QED
  BY <1>1, <1>2

\* The backend's answer creates the row it claims.
LEMMA HandleClaims ==
  ASSUME DaemonInv, NEW a \in Actor, Handle(a)
  PROVE  ClaimInv' /\ HeldRowMatches'
<1> USE DEF disk, watch, history, bounds
<1>t. TypeOK /\ VerdictInv(a) /\ OwnInv(a)
  BY DEF DaemonInv, TypeInv
<1>1. PICK v \in Verdicts :
        /\ IF Holds(v) THEN InsertQuarantine(call[a].content, mem[a].path) ELSE UNCHANGED rows
        /\ call' = [call EXCEPT ![a].verdict = v, ![a].qid = IF Holds(v) THEN Len(rows) + 1 ELSE 0]
  BY DEF Handle, Holds
<1>2. /\ UNCHANGED << payload, meta, pc, ent, mem >> /\ pc[a] = "await" /\ call[a].verdict = "open"
      /\ Frame(a)
  BY ActsStep DEF Handle, Acts, WorkOn
<1>3. \A b \in Actor \ {a} : Claim(b)' = Claim(b)
  BY <1>2, SameClaim DEF Frame
<1>4. Claim(a) = 0
  BY <1>2 DEF Claim, Recording
<1>5. CASE ~Holds(v)
  <2>1. call'[a].verdict = v
    BY <1>t, <1>1 DEF TypeOK, Calls
  <2>2. Claim(a)' = 0
    BY <1>2, <1>5, <2>1 DEF Claim, Recording
  <2>3. QED
    BY <1>2, <1>3, <1>4, <2>2, NothingClaimed DEF Frame
<1>6. CASE Holds(v)
  <2> DEFINE q == Len(rows) + 1
  <2>1. rows \in Seq(Rows) /\ Len(rows) \in Nat /\ q \notin DOMAIN rows /\ q # 0
    BY <1>t DEF TypeOK, QuarantineTypeOK
  <2>2. call'[a].verdict = v /\ call'[a].qid = q
    BY <1>t, <1>1, <1>6 DEF TypeOK, Calls
  <2>3. Claim(a)' = q
    <3>1. v # "open" /\ pc'[a] = "await"
      BY <1>2 DEF Verdicts
    <3>2. QED
      BY <1>6, <2>2, <3>1 DEF Claim
  <2>4. \A b \in Actor : Claim(b) # q
    BY <2>1, ClaimsExist DEF RowOf
  <2>5. \A e \in Entry : meta[e].state = "held" => meta[e].qid # q
    BY <2>1 DEF DaemonInv, HeldRowMatches
  <2> HIDE DEF q
  <2>6. ClaimInv'
    <3> SUFFICES ASSUME NEW b \in Actor, Claim(b)' # 0
                 PROVE  /\ \A c \in Actor \ {b} : Claim(c)' # Claim(b)'
                        /\ \A e \in Entry : meta'[e].state = "held" => meta'[e].qid # Claim(b)'
      BY DEF ClaimInv
    <3>1. CASE b = a
      BY <1>2, <1>3, <2>3, <2>4, <2>5, <3>1
    <3>2. CASE b # a
      BY <1>2, <1>3, <2>3, <2>4, <3>2 DEF DaemonInv, ClaimInv
    <3>3. QED
      BY <3>1, <3>2
  <2>7. HeldRowMatches'
    <3> SUFFICES ASSUME NEW e \in Entry, meta'[e].state = "held"
                 PROVE  LET r == meta'[e].qid
                        IN  /\ r \in DOMAIN rows'
                            /\ rows'[r].path = meta'[e].path
                            /\ IF payload'[e] = NoFile THEN rows'[r].status = "approved"
                                                       ELSE rows'[r].content = payload'[e]
                            /\ \A f \in Entry \ {e} : meta'[f].state = "held" => meta'[f].qid # r
      BY DEF HeldRowMatches
    <3>1. QED
      BY <1>2 DEF DaemonInv, HeldRowMatches, Frame, RowsGrow
  <2>8. QED
    BY <2>6, <2>7
<1>7. QED
  BY <1>5, <1>6

\* A sidecar that becomes held takes over its goroutine's claim.
LEMMA WriteMetaClaims ==
  ASSUME DaemonInv, NEW a \in Actor, WriteMeta(a)
  PROVE  ClaimInv' /\ HeldRowMatches'
<1> USE DEF disk, watch, history, bounds
<1>t. TypeOK /\ VerdictInv(a) /\ OwnInv(a)
  BY DEF DaemonInv, TypeInv
<1>1. Frame(a) /\ UNCHANGED << payload, rows, ent, mem >> /\ pc[a] = "writingMeta" /\ pc[a] \in Recording
  BY ActsStep DEF WriteMeta, Acts, WorkOn, Recording
<1>2. meta'[ent[a]] = mem[a] /\ ent[a] \in Entry
  BY <1>t DEF WriteMeta, TypeOK
<1>3. Claim(a)' = 0
  <2>1. pc'[a] \in {"submit", "idle", "scan"}
    BY <1>t DEF WriteMeta, Return, Goto, Loop, TypeOK
  <2>2. QED
    BY <2>1, NoClaim
<1>4. \A b \in Actor \ {a} : Claim(b)' = Claim(b)
  BY <1>1, SameClaim DEF Frame
<1>5. \A e \in Entry \ {ent[a]} : meta'[e] = meta[e]
  BY <1>1 DEF Frame
<1>6. CASE mem[a].state # "held"
  BY <1>1, <1>2, <1>3, <1>4, <1>5, <1>6, NothingClaimed DEF Frame
<1>7. CASE mem[a].state = "held"
  <2>1. Claim(a) = mem[a].qid
    BY <1>1, <1>7 DEF Claim
  <2>2. RowOf(mem[a].qid, ent[a], mem[a].path) /\ payload[ent[a]] # NoFile
    BY <1>t, <1>1, <1>7 DEF VerdictInv
  <2>3. mem[a].qid # 0
    BY <1>t, <2>2 DEF RowOf, TypeOK, QuarantineTypeOK
  <2>4. /\ \A b \in Actor \ {a} : Claim(b) # mem[a].qid
        /\ \A e \in Entry : meta[e].state = "held" => meta[e].qid # mem[a].qid
    BY <2>1, <2>3 DEF DaemonInv, ClaimInv
  <2>5. ClaimInv'
    <3> SUFFICES ASSUME NEW b \in Actor, Claim(b)' # 0
                 PROVE  /\ \A c \in Actor \ {b} : Claim(c)' # Claim(b)'
                        /\ \A e \in Entry : meta'[e].state = "held" => meta'[e].qid # Claim(b)'
      BY DEF ClaimInv
    <3>1. b # a /\ Claim(b)' = Claim(b) /\ Claim(b) # 0
      BY <1>3, <1>4
    <3>2. /\ \A c \in Actor \ {b} : Claim(c) # Claim(b)
          /\ \A e \in Entry : meta[e].state = "held" => meta[e].qid # Claim(b)
      BY <3>1 DEF DaemonInv, ClaimInv
    <3>3. QED
      BY <1>2, <1>3, <1>4, <1>5, <2>4, <3>1, <3>2
  <2>6. HeldRowMatches'
    <3> SUFFICES ASSUME NEW e \in Entry, meta'[e].state = "held"
                 PROVE  LET r == meta'[e].qid
                        IN  /\ r \in DOMAIN rows
                            /\ rows[r].path = meta'[e].path
                            /\ IF payload[e] = NoFile THEN rows[r].status = "approved"
                                                       ELSE rows[r].content = payload[e]
                            /\ \A f \in Entry \ {e} : meta'[f].state = "held" => meta'[f].qid # r
      BY <1>1 DEF HeldRowMatches
    <3>1. CASE e = ent[a]
      BY <1>2, <1>5, <2>2, <2>4, <3>1 DEF RowOf
    <3>2. CASE e # ent[a]
      <4>1. meta'[e] = meta[e]
        BY <1>5, <3>2
      <4>2. QED
        BY <1>2, <1>5, <2>4, <3>2, <4>1 DEF DaemonInv, HeldRowMatches
    <3>3. QED
      BY <3>1, <3>2
  <2>7. QED
    BY <2>5, <2>6
<1>8. QED
  BY <1>6, <1>7

\* Every other step leaves claims and held sidecars alone, or gives them up.
LEMMA ClaimsStep ==
  ASSUME DaemonInv, NEW a \in Actor, Acts(a)
  PROVE  ClaimInv' /\ HeldRowMatches'
<1> USE DEF disk, watch, history, bounds
<1>t. TypeOK /\ VerdictInv(a) /\ OwnInv(a) /\ ent[a] \in Entry
  BY DEF DaemonInv, TypeInv, TypeOK
<1>f. TypeOK' /\ Frame(a) /\ VerdictInv(a)'
  BY ActsStep
\* It is enough to look at the goroutine's own claim and its own entry.
<1>q. ASSUME Claim(a)' \in {0, Claim(a)},
             Busy(a) /\ meta'[ent[a]].state = "held" =>
               /\ meta'[ent[a]] = meta[ent[a]]
               /\ \/ payload'[ent[a]] = payload[ent[a]]
                  \/ payload'[ent[a]] = NoFile /\ rows[meta[ent[a]].qid].status = "approved"
      PROVE  ClaimInv' /\ HeldRowMatches'
  <2>1. \A b \in Actor : Claim(b)' \in {0, Claim(b)}
    BY <1>f, <1>q, SameClaim DEF Frame
  <2>2. \A e \in Entry : meta'[e].state = "held" =>
          /\ meta'[e] = meta[e]
          /\ \/ payload'[e] = payload[e]
             \/ payload'[e] = NoFile /\ rows[meta[e].qid].status = "approved"
    BY <1>f, <1>q DEF Frame
  <2>3. QED
    BY <1>f, <2>1, <2>2, NothingClaimed DEF Frame
<1>n. ASSUME pc'[a] \notin {"await", "writeMeta", "writingMeta"}, UNCHANGED << payload, meta >>
      PROVE  ClaimInv' /\ HeldRowMatches'
  BY <1>n, <1>q, NoClaim
<1>1. CASE TruncateMeta(a)
  <2>1. Claim(a)' = Claim(a)
    BY <1>1, <1>t DEF TruncateMeta, Claim, Goto, TypeOK, Recording
  <2>2. meta'[ent[a]].state # "held"
    BY <1>1, <1>t DEF TruncateMeta, TypeOK, TornMeta
  <2>3. QED
    BY <1>q, <2>1, <2>2
<1>2. CASE Submit(a)
  <2>1. UNCHANGED << payload, meta >>
    BY <1>2 DEF Submit
  <2>2. CASE payload[ent[a]] = NoFile
    BY <1>2, <1>t, <2>1, <2>2, <1>n DEF Submit, Return, Goto, Loop, TypeOK
  <2>3. CASE payload[ent[a]] # NoFile
    <3>1. pc'[a] = "await" /\ call'[a].verdict = "open"
      <4>1. pc'[a] = "await"
        BY <1>2, <1>t, <2>3 DEF Submit, Goto, TypeOK
      <4>2. DOMAIN call = Actor /\ call' = [call EXCEPT ![a] = [NoCall EXCEPT !.verdict = "open", !.content = payload[ent[a]]]]
        BY <1>2, <1>t, <2>3 DEF Submit, TypeOK
      <4>3. QED
        BY <4>1, <4>2 DEF NoCall
    <3>2. Claim(a)' = 0
      BY <3>1 DEF Claim, Recording
    <3>3. QED
      BY <1>q, <2>1, <3>2
  <2>4. QED
    BY <2>2, <2>3
<1>3. CASE Act(a)
  <2>1. UNCHANGED << payload, meta, call >> /\ pc[a] = "await" /\ call[a].verdict \in Verdicts
    BY <1>3 DEF Act
  <2>2. call[a].verdict # "open"
    BY <2>1 DEF Verdicts
  <2>3. pc'[a] \in {"release", "writeMeta"}
    BY <1>3, <1>t DEF Act, Goto, TypeOK
  <2>4. mem[a] \in Metas /\ mem \in [Actor -> Metas \cup {NoMeta}]
    BY <2>1, <1>t DEF OwnInv, Busy, TypeOK
  <2>5. pc'[a] = "writeMeta" /\ mem'[a].state = "held" =>
          Holds(call[a].verdict) /\ mem'[a].qid = call[a].qid
    <3>1. CASE decisionForVerdict(call[a].verdict) = "release"
      BY <1>3, <1>t, <3>1 DEF Act, Goto, TypeOK
    <3>2. CASE decisionForVerdict(call[a].verdict) = "block"
      BY <1>3, <2>4, <3>2 DEF Act, Metas
    <3>3. CASE decisionForVerdict(call[a].verdict) = "hold"
      BY <1>3, <2>4, <3>3 DEF Act, Metas, Holds
    <3>4. QED
      BY <3>1, <3>2, <3>3 DEF decisionForVerdict
  <2>6. Claim(a)' \in {0, Claim(a)}
    BY <2>1, <2>2, <2>3, <2>5 DEF Claim, Recording
  <2>7. QED
    BY <1>q, <2>1, <2>6
<1>4. CASE MoveBack(a)
  <2>1. pc'[a] \notin {"await", "writeMeta", "writingMeta"} /\ meta' = meta
    BY <1>4, <1>t DEF MoveBack, OpenBack, Return, Goto, Loop, TypeOK
  <2>2. payload'[ent[a]] \in {payload[ent[a]], NoFile} /\ pc[a] = "moveBack" /\ Busy(a)
    BY <1>4, <1>t DEF MoveBack, OpenBack, TypeOK, Busy
  <2>3. meta[ent[a]].state = "held" => rows[meta[ent[a]].qid].status = "approved"
    BY <1>t, <2>2 DEF OwnInv, VerdictInv, Restoring
  <2>4. QED
    BY <1>q, <2>1, <2>2, <2>3, NoClaim
<1>5. CASE MarkReleased(a) \/ CopyBack(a)
  BY <1>5, <1>t, <1>n DEF MarkReleased, CopyBack, Goto, TypeOK
<1>6. CASE UnlinkBack(a)
  <2>1. pc'[a] = "removeAll" /\ meta' = meta /\ pc[a] = "unlinkBack" /\ Busy(a) /\ payload'[ent[a]] = NoFile
    BY <1>6, <1>t DEF UnlinkBack, Goto, TypeOK, Busy
  <2>2. meta[ent[a]].state = "held" => rows[meta[ent[a]].qid].status = "approved"
    BY <1>t, <2>1 DEF OwnInv, VerdictInv, Restoring
  <2>3. QED
    BY <1>q, <2>1, <2>2, NoClaim
<1>7. CASE RemoveEntry(a)
  <2>1. pc'[a] \in {"idle", "scan"} /\ meta'[ent[a]].state # "held"
    BY <1>7, <1>t DEF RemoveEntry, Return, Goto, Loop, TypeOK, NoMeta
  <2>2. QED
    BY <1>q, <2>1, NoClaim
<1>8. CASE FailAt(a)
  <2>1. CASE WriteMetaFails(a) \/ SubmitFails(a) \/ MoveBackFails(a)
    <3>1. UNCHANGED << payload, meta >> /\ Return(a)
      BY <2>1 DEF WriteMetaFails, SubmitFails, MoveBackFails
    <3>2. pc'[a] \in {"idle", "scan"}
      BY <1>t, <3>1 DEF Return, Goto, Loop, TypeOK
    <3>3. QED
      BY <1>n, <3>1, <3>2
  <2>2. CASE MoveInFails(a) \/ (RenameRefused(a) /\ pc[a] = "quarantine")
    <3>1. meta' = meta /\ pc[a] \in Capturing /\ pc'[a] \in {"idle", "scan", "copyIn"}
      BY <1>t, <2>2 DEF MoveInFails, RenameRefused, OpenIn, Return, Goto, Loop, Capturing, TypeOK
    <3>2. meta[ent[a]].state # "held"
      BY <1>t, <3>1 DEF OwnInv, NoMeta
    <3>3. QED
      BY <1>q, <3>1, <3>2, NoClaim
  <2>3. CASE RenameRefused(a) /\ pc[a] # "quarantine"
    <3>1. UNCHANGED << payload, meta >> /\ pc'[a] = "copyBack"
      BY <1>t, <2>3 DEF RenameRefused, OpenBack, Goto, TypeOK
    <3>2. QED
      BY <1>n, <3>1
  <2>4. QED
    BY <1>8, <2>1, <2>2, <2>3 DEF FailAt
<1>9. CASE a \in Worker /\ TakeIn(a)
  <2>1. CASE TakeJob(a)
    BY <1>t, <1>n, <2>1 DEF TakeJob, Goto, TypeOK
  <2>2. CASE Capture(a) \/ CopyIn(a) \/ UnlinkIn(a)
    <3>1. /\ meta' = meta /\ mem' = mem /\ meta[ent[a]] = NoMeta /\ mem[a].state = "pending_submit"
          /\ pc'[a] \in {"writeMeta", "copyIn", "unlinkIn", "idle", "scan"}
      BY <1>t, <2>2 DEF Capture, OpenIn, CopyIn, UnlinkIn, Return, Goto, Loop, TypeOK, OwnInv, Capturing
    <3>2. Claim(a)' = 0
      BY <3>1 DEF Claim
    <3>3. QED
      BY <1>q, <3>1, <3>2 DEF NoMeta
  <2>3. QED
    BY <1>9, <2>1, <2>2 DEF TakeIn
<1>10. CASE a = Main /\ Sweeps
  <2>1. UNCHANGED << payload, meta >>
    BY <1>10 DEF Sweeps, Start, StartWatching, SweepVisit, Visit
  <2>2. pc'[a] \in {"idle", "scan", "submit"}
    BY <1>10, <1>t DEF Sweeps, Start, StartWatching, SweepVisit, Visit, Goto, TypeOK
  <2>3. QED
    BY <1>n, <2>1, <2>2
<1>11. CASE a = HeldPoller /\ Polls
  <2>1. UNCHANGED << payload, meta >>
    BY <1>11 DEF Polls, PollTick, PollDone, PollVisit, PollFails, Visit
  <2>2. pc'[a] \in {"idle", "scan", "release", "writeMeta"}
    BY <1>11, <1>t DEF Polls, PollTick, PollDone, PollVisit, PollFails, Visit, Goto, TypeOK
  <2>3. Claim(a)' = 0
    BY <1>f, <1>11, <2>2 DEF Claim, VerdictInv
  <2>4. QED
    BY <1>q, <2>1, <2>3
<1>12. QED
  BY <1>1, <1>2, <1>3, <1>4, <1>5, <1>6, <1>7, <1>8, <1>9, <1>10, <1>11, HandleClaims, WriteMetaClaims
     DEF Acts, WorkOn

-------------------------------------------------------------------------------
(* Phases, and entries nobody has *)

\* Main and the poller only step while the daemon is up, workers once it watches.
LEMMA WhoActs ==
  ASSUME DaemonInv, NEW a \in Actor, Acts(a)
  PROVE  \/ a = Main /\ Start
         \/ a = Main /\ phase = "sweeping" /\ pc[Main] # "idle"
         \/ a = HeldPoller /\ phase # "down"
         \/ a \in Worker /\ phase = "watching"
<1>1. CASE WorkOn(a) \/ FailAt(a)
  <2>1. pc[a] # "idle"
    BY <1>1 DEF WorkOn, FailAt, TruncateMeta, WriteMeta, Submit, Handle, Act, MarkReleased,
       MoveBack, CopyBack, UnlinkBack, RemoveEntry, WriteMetaFails, SubmitFails, MoveInFails, MoveBackFails,
       RenameRefused
  <2>2. QED
    BY <2>1 DEF DaemonInv, TypeInv, TypeOK, PhaseInv, Actor
<1>2. CASE a \in Worker /\ TakeIn(a)
  <2>1. jobs # << >> \/ pc[a] # "idle"
    BY <1>2 DEF TakeIn, TakeJob, Capture, CopyIn, UnlinkIn
  <2>2. QED
    BY <1>2, <2>1 DEF DaemonInv, PhaseInv
<1>3. CASE a = Main /\ Sweeps
  <2>1. Start \/ pc[Main] # "idle"
    BY <1>3 DEF Sweeps, StartWatching, SweepVisit, Visit
  <2>2. QED
    BY <1>3, <2>1 DEF DaemonInv, PhaseInv
<1>4. CASE a = HeldPoller /\ Polls
  <2>1. phase # "down" \/ pc[HeldPoller] # "idle"
    BY <1>4 DEF Polls, PollTick, PollDone, PollVisit, PollFails, Visit
  <2>2. QED
    BY <1>4, <2>1 DEF DaemonInv, PhaseInv, Actor
<1>5. QED
  BY <1>1, <1>2, <1>3, <1>4 DEF Acts

\* Apart from the two steps of main that change the phase, a goroutine's step
\* leaves the phase and the timers alone, and the watcher's lists while there is none.
LEMMA Around ==
  ASSUME DaemonInv, NEW a \in Actor, Acts(a), ~(a = Main /\ (Start \/ StartWatching))
  PROVE  /\ UNCHANGED << phase, folder, timers, removable, writes >>
         /\ phase # "watching" => UNCHANGED << events, jobs, due >>
         /\ missed \subseteq missed' /\ failed \subseteq failed'
<1> USE DEF disk, watch, history, bounds
\* Before the daemon watches no directory does, and nothing is due.
<1>w. phase # "watching" => /\ \A p \in Path : folder[p] \notin {"created", "watched"}
                            /\ due = {} /\ \A p \in Path : Notify(p) => events' = events
  BY DEF DaemonInv, PhaseInv, Notify
<1>p. Busy(a) => mem[a].path \in Path
  BY DEF DaemonInv, OwnInv, Metas
<1>1. CASE WorkOn(a)
  <2>1. CASE MoveBack(a) \/ CopyBack(a)
    <3>1. /\ UNCHANGED << phase, folder, timers, removable, writes, jobs, missed, failed >>
          /\ due' = due \/ \E c : due' = due \ {c}
          /\ events' = events \/ Notify(mem[a].path)
      BY <2>1 DEF MoveBack, CopyBack, OpenBack
    <3>2. Busy(a)
      BY <2>1 DEF MoveBack, CopyBack, Busy
    <3>3. QED
      BY <1>w, <1>p, <3>1, <3>2
  <2>2. QED
    BY <1>1, <2>1 DEF WorkOn, TruncateMeta, WriteMeta, Submit, Handle, Act, MarkReleased, UnlinkBack,
       RemoveEntry
<1>2. CASE FailAt(a)
  <2>1. /\ UNCHANGED << phase, folder, timers, removable, writes, jobs, due >>
        /\ missed \subseteq missed' /\ failed \subseteq failed'
        /\ events' = events \/ Notify(mem[a].path)
    BY <1>2 DEF FailAt, WriteMetaFails, SubmitFails, MoveInFails, MoveBackFails, RenameRefused, OpenIn,
       OpenBack, Fault
  <2>2. Busy(a)
    BY <1>2 DEF FailAt, WriteMetaFails, SubmitFails, MoveInFails, MoveBackFails, RenameRefused, Busy
  <2>3. QED
    BY <1>w, <1>p, <2>1, <2>2
<1>3. CASE a \in Worker /\ TakeIn(a)
  <2>1. phase = "watching"
    BY <1>3, WhoActs, NamesAssumption
  <2>2. QED
    BY <1>3, <2>1 DEF TakeIn, TakeJob, Capture, CopyIn, UnlinkIn
<1>4. CASE a = Main /\ Sweeps
  BY <1>4 DEF Sweeps, SweepVisit, Visit
<1>5. CASE a = HeldPoller /\ Polls
  <2>1. CASE PollTick \/ PollDone
    BY <2>1 DEF PollTick, PollDone
  <2>2. ASSUME NEW e \in Entry, PollVisit(e) \/ PollFails(e)
        PROVE  UNCHANGED << phase, folder, timers, removable, writes, events, jobs, due, missed, failed >>
    BY <2>2 DEF PollVisit, PollFails, Visit, Fault
  <2>3. QED
    BY <1>5, <2>1, <2>2 DEF Polls
<1>6. QED
  BY <1>1, <1>2, <1>3, <1>4, <1>5 DEF Acts

\* No goroutine's step gives a worker a job before the daemon watches.
LEMMA PhaseStep ==
  ASSUME DaemonInv, NEW a \in Actor, Acts(a)
  PROVE  PhaseInv'
<1> USE DEF disk, watch, history, bounds
<1>t. PhaseInv /\ TypeOK
  BY DEF DaemonInv, TypeInv
<1>f. \A b \in Actor \ {a} : pc'[b] = pc[b]
  BY ActsStep DEF Frame, Same
<1>m. Main \in Actor /\ Main \notin Worker /\ \A w \in Worker : w \in Actor
  BY NamesAssumption DEF Actor
<1>1. CASE a = Main /\ Start
  BY <1>1, <1>t, <1>f, <1>m DEF Start, PhaseInv, Goto, TypeOK
<1>2. CASE a = Main /\ StartWatching
  BY <1>2, <1>t, <1>f, <1>m DEF StartWatching, PhaseInv, Goto, TypeOK
<1>3. CASE ~(a = Main /\ (Start \/ StartWatching))
  <2>1. /\ phase' = phase /\ timers' = timers /\ folder' = folder
        /\ phase # "watching" => UNCHANGED << events, jobs, due >>
    BY <1>3, Around
  <2>2. \/ a = Main /\ phase = "sweeping"
        \/ a = HeldPoller /\ phase # "down"
        \/ a \in Worker /\ phase = "watching"
    BY <1>3, WhoActs
  <2>3. phase # "watching" => \A w \in Worker : pc'[w] = "idle"
    BY <1>t, <1>f, <1>m, <2>2, NamesAssumption DEF PhaseInv
  <2>4. pc'[Main] # "idle" => phase = "sweeping"
    BY <1>t, <1>f, <1>m, <2>2, NamesAssumption DEF PhaseInv
  <2>5. phase # "down"
    BY <2>2
  <2>6. QED
    BY <1>t, <2>1, <2>3, <2>4, <2>5 DEF PhaseInv
<1>4. QED
  BY <1>1, <1>2, <1>3

\* An entry on main's list stays there until main has it.
LEMMA SweepKeeps ==
  ASSUME DaemonInv, NEW a \in Actor, Acts(a), phase = "sweeping", pc[Main] # "idle", NEW e \in todo[Main],
         ~(a = Main /\ StartWatching)
  PROVE  /\ pc'[Main] # "idle"
         /\ \/ e \in todo'[Main]
            \/ Busy(Main)' /\ ent'[Main] = e
            \/ meta'[e].state # "pending_submit"
<1> USE DEF disk, watch, history, bounds
<1>t. TypeOK /\ Main \in Actor /\ Main \notin Worker /\ Main # HeldPoller
  BY NamesAssumption DEF DaemonInv, TypeInv, Actor
<1>1. CASE WorkOn(a) \/ FailAt(a)
  <2>1. todo' = todo
    BY <1>1 DEF WorkOn, FailAt, TruncateMeta, WriteMeta, Submit, Handle, Act, MarkReleased,
       MoveBack, CopyBack, UnlinkBack, RemoveEntry, WriteMetaFails, SubmitFails, MoveInFails, MoveBackFails,
       RenameRefused
  <2>2. CASE a # Main
    BY <1>t, <2>1, <2>2, ActsStep DEF Frame, Same
  <2>3. CASE a = Main
    <3>1. pc'[Main] # "idle"
      BY <1>1, <1>t, <2>3 DEF WorkOn, FailAt, TruncateMeta, WriteMeta, Submit, Handle, Act, MarkReleased,
         MoveBack, CopyBack, UnlinkBack, RemoveEntry, WriteMetaFails, SubmitFails, MoveInFails, MoveBackFails,
         RenameRefused, OpenIn, OpenBack, Return, Goto, Loop, TypeOK
    <3>2. QED
      BY <2>1, <3>1
  <2>4. QED
    BY <2>2, <2>3
<1>2. CASE a \in Worker /\ TakeIn(a)
  BY <1>2, WhoActs, NamesAssumption
<1>3. CASE a = Main /\ Sweeps
  <2>1. PICK x \in Entry : SweepVisit(x)
    BY <1>3 DEF Sweeps, Start
  <2>2. pc'[Main] # "idle" /\ meta' = meta
    BY <1>t, <2>1 DEF SweepVisit, Visit, Goto, TypeOK
  <2>3. CASE e # x
    BY <1>t, <2>1, <2>2, <2>3 DEF SweepVisit, Visit, TypeOK
  <2>4. CASE e = x /\ meta[e].state = "pending_submit"
    BY <1>t, <2>1, <2>2, <2>4 DEF SweepVisit, Visit, TypeOK, Goto, Busy
  <2>5. QED
    BY <2>2, <2>3, <2>4
<1>4. CASE a = HeldPoller /\ Polls
  <2>1. todo'[Main] = todo[Main]
    BY <1>t, <1>4 DEF Polls, PollTick, PollDone, PollVisit, PollFails, Visit, TypeOK
  <2>2. pc'[Main] = pc[Main]
    BY <1>t, <1>4, ActsStep DEF Frame, Same
  <2>3. QED
    BY <2>1, <2>2
<1>5. QED
  BY <1>1, <1>2, <1>3, <1>4 DEF Acts

\* Whoever lets go of an entry has settled it, or has failed on it.
LEMMA LetsGo ==
  ASSUME DaemonInv, NEW a \in Actor, Acts(a), Busy(a), ~Busy(a)', meta'[ent[a]].state = "pending_submit"
  PROVE  ent[a] \in failed'
<1> USE DEF disk, watch, history, bounds
<1>t. TypeOK /\ OwnInv(a) /\ VerdictInv(a) /\ ent[a] \in Entry
  BY DEF DaemonInv, TypeInv, TypeOK
<1>1. CASE FailAt(a)
  BY <1>1, <1>t DEF FailAt, WriteMetaFails, SubmitFails, MoveInFails, MoveBackFails, RenameRefused, OpenIn,
     OpenBack, Goto, Busy, TypeOK
<1>2. CASE WorkOn(a)
  <2>1. CASE TruncateMeta(a) \/ Handle(a) \/ Act(a) \/ MarkReleased(a) \/ CopyBack(a) \/ UnlinkBack(a)
    BY <1>t, <2>1 DEF TruncateMeta, Handle, Act, MarkReleased, CopyBack, UnlinkBack, Goto, TypeOK, Busy
  <2>2. CASE WriteMeta(a)
    BY <1>t, <2>2 DEF WriteMeta, Goto, TypeOK, Busy
  <2>3. CASE Submit(a)
    BY <1>t, <2>3 DEF Submit, Goto, TypeOK, Busy
  <2>4. CASE MoveBack(a)
    <3>1. pc[a] = "moveBack" /\ pc[a] \in Restoring /\ meta' = meta
      BY <2>4 DEF MoveBack, Restoring
    <3>2. a # HeldPoller
      BY <1>t, <3>1 DEF OwnInv
    <3>3. payload[ent[a]] # NoFile
      BY <1>t, <3>1, <3>2 DEF VerdictInv
    <3>4. QED
      BY <1>t, <2>4, <3>3 DEF MoveBack, OpenBack, Goto, TypeOK, Busy
  <2>5. CASE RemoveEntry(a)
    BY <1>t, <2>5 DEF RemoveEntry, NoMeta, TypeOK
  <2>6. QED
    BY <1>2, <2>1, <2>2, <2>3, <2>4, <2>5 DEF WorkOn
<1>3. CASE a \in Worker /\ TakeIn(a)
  <2>1. CASE TakeJob(a)
    BY <2>1 DEF TakeJob, Busy
  <2>2. CASE Capture(a) \/ CopyIn(a) \/ UnlinkIn(a)
    BY <1>t, <2>2 DEF Capture, CopyIn, UnlinkIn, OwnInv, Capturing, NoMeta
  <2>3. QED
    BY <1>3, <2>1, <2>2 DEF TakeIn
<1>4. CASE a = Main /\ Sweeps
  <2>1. CASE Start
    BY <1>4, <2>1 DEF Start, DaemonInv, PhaseInv, Busy
  <2>2. QED
    BY <1>4, <2>1 DEF Sweeps, StartWatching, SweepVisit, Visit, Busy
<1>5. CASE a = HeldPoller /\ Polls
  BY <1>5 DEF Polls, PollTick, PollDone, PollVisit, PollFails, Visit, Busy
<1>6. QED
  BY <1>1, <1>2, <1>3, <1>4, <1>5 DEF Acts

\* An entry in "pending_submit" stays accounted for.
LEMMA PendingStep ==
  ASSUME DaemonInv, NEW a \in Actor, Acts(a)
  PROVE  PendingInv'
<1> USE DEF disk, watch, history, bounds
<1>t. TypeOK /\ Main \in Actor /\ PendingInv /\ ent \in [Actor -> Entry]
  BY DEF DaemonInv, TypeInv, TypeOK, Actor
<1>f. Frame(a)
  BY ActsStep
<1> SUFFICES ASSUME phase' # "down", NEW e \in Entry, meta'[e].state = "pending_submit"
             PROVE  \/ e \in failed'
                    \/ \E b \in Actor : Busy(b)' /\ ent'[b] = e
                    \/ phase' = "sweeping" /\ pc'[Main] # "idle" /\ e \in todo'[Main]
  BY DEF PendingInv
<1>1. CASE Busy(a) /\ ent[a] = e
  <2>1. ent'[a] = ent[a]
    BY <1>1, <1>t, WhoActs, ActsStep DEF Acts, WorkOn, FailAt, TruncateMeta, WriteMeta, Submit, Handle, Act,
       MarkReleased, MoveBack, CopyBack, UnlinkBack, RemoveEntry, WriteMetaFails, SubmitFails, MoveInFails,
       MoveBackFails, RenameRefused, TakeIn, TakeJob, Capture, CopyIn, UnlinkIn, Sweeps, Start, StartWatching, SweepVisit, Visit,
       Polls, PollTick, PollDone, PollVisit, PollFails, Busy
  <2>2. QED
    BY <1>1, <2>1, LetsGo
<1>2. CASE ~(Busy(a) /\ ent[a] = e)
  <2>1. meta'[e] = meta[e]
    BY <1>2, <1>f DEF Frame
  <2>2. CASE a = Main /\ Start
    <3>1. meta[e] \in Metas
      BY <1>t, <2>1, WholeMeta
    <3>2. phase' = "sweeping" /\ pc'[Main] = "scan" /\ e \in todo'[Main]
      BY <1>t, <2>2, <3>1 DEF Start, Goto, TypeOK, Readables, Readable
    <3>3. QED
      BY <3>2
  <2>3. CASE a = Main /\ StartWatching
    <3>1. phase = "sweeping" /\ pc[Main] = "scan" /\ todo[Main] = {} /\ failed' = failed
      BY <2>3 DEF StartWatching
    <3>2. e \in failed \/ \E b \in Actor : Busy(b) /\ ent[b] = e
      BY <1>t, <2>1, <3>1 DEF PendingInv
    <3>3. \A b \in Actor : Busy(b) => b # a
      BY <2>3, <3>1 DEF Busy
    <3>4. QED
      BY <1>f, <3>1, <3>2, <3>3 DEF Frame, Same, Busy
  <2>4. CASE ~(a = Main /\ (Start \/ StartWatching))
    <3>1. phase' = phase /\ failed \subseteq failed'
      BY <2>4, Around
    <3>2. CASE e \in failed
      BY <3>1, <3>2
    <3>3. CASE \E b \in Actor : Busy(b) /\ ent[b] = e
      BY <1>2, <1>f, <3>3 DEF Frame, Same, Busy
    <3>4. CASE phase = "sweeping" /\ pc[Main] # "idle" /\ e \in todo[Main]
      BY <1>t, <2>4, <3>1, <3>4, SweepKeeps
    <3>5. QED
      BY <1>t, <2>1, <3>1, <3>2, <3>3, <3>4 DEF PendingInv
  <2>5. QED
    BY <2>2, <2>3, <2>4
<1>3. QED
  BY <1>1, <1>2

-------------------------------------------------------------------------------
(* Files on their way to a worker *)

\* "No file" is nothing a user wrote.
LEMMA NotAFile == NoFile \notin Written
BY ContentAssumption, NamesAssumption DEF Written

\* A step that brings no file that is due to a watched path, and takes none off its
\* way: a worker that quits the path leaves nothing due there.
LEMMA OnTheWay ==
  ASSUME DaemonInv, NEW a \in Actor, \A b \in Actor \ {a} : Same(b),
         UNCHANGED << phase, removable, timers, jobs >>, phase = "watching" => events \subseteq events',
         due' \subseteq due, missed \subseteq missed',
         pc[a] \in Capturing => \/ home'[mem[a].path] \notin due' \ missed'
                                \/ mem[a].path \in removable
                                \/ pc'[a] \in Capturing /\ mem'[a].path = mem[a].path,
         \A p \in Path \ removable : home'[p] = home[p] \/ home'[p] \notin due'
  PROVE  DueInv'
<1> SUFFICES ASSUME phase = "watching", NEW p \in Path \ removable, home'[p] \in due' \ missed'
             PROVE  \/ p \in events'
                    \/ timers[p].armed > 0 \/ timers[p].fired > 0
                    \/ \E i \in DOMAIN jobs : jobs[i] = p
                    \/ \E w \in Worker : pc'[w] \in Capturing /\ mem'[w].path = p
  BY DEF DueInv
<1>1. home'[p] = home[p] /\ home[p] \in due \ missed
  OBVIOUS
<1>2. \/ p \in events
      \/ timers[p].armed > 0 \/ timers[p].fired > 0
      \/ \E i \in DOMAIN jobs : jobs[i] = p
      \/ \E w \in Worker : pc[w] \in Capturing /\ mem[w].path = p
  BY <1>1 DEF DaemonInv, DueInv
<1>3. ASSUME NEW w \in Worker, pc[w] \in Capturing, mem[w].path = p
      PROVE  pc'[w] \in Capturing /\ mem'[w].path = p
  BY <1>3 DEF Same, Actor
<1>4. QED
  BY <1>2, <1>3

\* Receiving a job loses no file that is due: the worker has it now.
LEMMA TakeJobDue ==
  ASSUME DaemonInv, NEW a \in Worker, TakeJob(a)
  PROVE  DueInv'
<1> USE DEF disk, watch, history, bounds
<1>t. TypeOK /\ a \in Actor /\ \A w \in Worker : w \in Actor
  BY DEF DaemonInv, TypeInv, Actor
<1>1. /\ UNCHANGED << home, phase, events, timers, due, missed, removable >>
      /\ jobs' = Tail(jobs) /\ jobs # << >> /\ jobs \in Seq(Path) /\ pc[a] = "idle"
  BY <1>t DEF TakeJob, TypeOK
<1>2. \A b \in Actor \ {a} : Same(b)
  BY <1>t, ActsStep DEF Acts, TakeIn, Frame
<1> SUFFICES ASSUME phase = "watching", NEW p \in Path \ removable, home[p] \in due \ missed
             PROVE  \/ p \in events
                    \/ timers[p].armed > 0 \/ timers[p].fired > 0
                    \/ \E i \in DOMAIN jobs' : jobs'[i] = p
                    \/ \E w \in Worker : pc'[w] \in Capturing /\ mem'[w].path = p
  BY <1>1 DEF DueInv
<1>3. home[p] # NoFile
  BY <1>t, NotAFile DEF TypeOK
<1>4. CASE \E w \in Worker : pc[w] \in Capturing /\ mem[w].path = p
  <2>1. PICK w \in Worker : pc[w] \in Capturing /\ mem[w].path = p
    BY <1>4
  <2>2. w # a /\ Same(w)
    BY <1>1, <1>2, <1>t, <2>1 DEF Capturing
  <2>3. QED
    BY <2>1, <2>2 DEF Same
<1>5. CASE \E i \in DOMAIN jobs : jobs[i] = p
  <2>1. PICK i \in DOMAIN jobs : jobs[i] = p
    BY <1>5
  <2>2. CASE i = 1
    <3>1. Head(jobs) = p
      BY <1>1, <2>1, <2>2
    <3>2. pc'[a] = "quarantine" /\ mem'[a].path = p
      BY <1>t, <1>3, <3>1 DEF TakeJob, Goto, TypeOK
    <3>3. QED
      BY <3>2 DEF Capturing
  <2>3. CASE i # 1
    <3>1. i - 1 \in DOMAIN jobs' /\ jobs'[i - 1] = p
      BY <1>1, <2>1, <2>3
    <3>2. QED
      BY <3>1
  <2>4. QED
    BY <2>2, <2>3
<1>6. QED
  BY <1>4, <1>5 DEF DaemonInv, DueInv

\* A file that is due stays on its way, whichever goroutine takes a step.
LEMMA DueStep ==
  ASSUME DaemonInv, NEW a \in Actor, Acts(a)
  PROVE  DueInv'
<1> USE DEF disk, watch, history, bounds
<1>t. TypeOK /\ OwnInv(a)
  BY DEF DaemonInv, TypeInv
<1>f. /\ \A b \in Actor \ {a} : Same(b)
      /\ removable' = removable
  BY ActsStep DEF Frame
<1>1. CASE a = Main /\ Start
  BY <1>1 DEF Start, DueInv
<1>2. CASE a = Main /\ StartWatching
  <2>1. due' = {}
    BY <1>2 DEF StartWatching, DaemonInv, PhaseInv
  <2>2. QED
    BY <2>1 DEF DueInv
<1>3. CASE a \in Worker /\ TakeJob(a)
  BY <1>3, TakeJobDue
<1>d. due \subseteq Written /\ NoFile \notin due /\ Partial \notin due
  <2>1. Partial \notin Written
    BY NamesAssumption DEF Written
  <2>2. QED
    BY <1>t, <2>1, NotAFile DEF TypeOK
<1>p. Busy(a) => mem[a].path \in Path
  BY <1>t DEF OwnInv, Metas
<1>4. CASE a \in Worker /\ Capture(a)
  <2>1. /\ UNCHANGED << phase, timers, jobs, missed, due >> /\ events \subseteq events'
        /\ mem[a].path \in Path
    BY <1>4, <1>p DEF Capture, OpenIn, Notify, Busy
  <2>2. /\ home'[mem[a].path] = NoFile \/ mem[a].path \in removable
        /\ \A p \in Path : home'[p] \in {home[p], NoFile}
    BY <1>4, <1>t, <2>1 DEF Capture, OpenIn, TypeOK
  <2>3. QED
    BY <1>d, <1>f, <2>1, <2>2, OnTheWay
<1>5. CASE MoveBack(a) \/ CopyBack(a)
  <2>1. /\ UNCHANGED << phase, timers, jobs, missed >> /\ events \subseteq events'
        /\ due' \in {due, due \ {payload[ent[a]]}} /\ pc[a] \notin Capturing
    BY <1>5 DEF MoveBack, CopyBack, OpenBack, Notify, Capturing
  <2>2. ASSUME NEW p \in Path
        PROVE  \/ home'[p] \in {home[p], Partial}
               \/ home'[p] = payload[ent[a]] /\ due' = due \ {payload[ent[a]]}
    <3>1. CASE MoveBack(a)
      BY <1>t, <3>1 DEF MoveBack, OpenBack, TypeOK
    <3>2. CASE CopyBack(a)
      BY <1>t, <3>2 DEF CopyBack, TypeOK
    <3>3. QED
      BY <1>5, <3>1, <3>2
  <2>3. \A p \in Path \ removable : home'[p] = home[p] \/ home'[p] \notin due'
    BY <1>d, <2>1, <2>2
  <2>4. QED
    BY <1>f, <2>1, <2>3, OnTheWay
<1>7. CASE a \in Worker /\ UnlinkIn(a)
  <2>1. UNCHANGED << phase, timers, jobs, missed, due >> /\ events \subseteq events'
    BY <1>7 DEF UnlinkIn, Notify
  <2>2. /\ \A p \in Path : home'[p] \in {home[p], NoFile}
        /\ mem[a].path \in Path => home'[mem[a].path] = NoFile
    BY <1>7, <1>t DEF UnlinkIn, TypeOK
  <2>3. mem[a].path \in Path
    BY <1>7, <1>p DEF UnlinkIn, Busy
  <2>4. QED
    BY <1>d, <1>f, <2>1, <2>2, <2>3, OnTheWay
<1>8. ASSUME UNCHANGED << home, phase, timers, jobs, missed, due, events >>, pc[a] \notin Capturing
      PROVE  DueInv'
  BY <1>8, <1>f, OnTheWay
<1>9. CASE \/ TruncateMeta(a) \/ WriteMeta(a) \/ Submit(a) \/ Handle(a) \/ Act(a) \/ MarkReleased(a)
           \/ UnlinkBack(a) \/ RemoveEntry(a) \/ WriteMetaFails(a) \/ SubmitFails(a)
  BY <1>8, <1>9 DEF TruncateMeta, WriteMeta, Submit, Handle, Act, MarkReleased, UnlinkBack, RemoveEntry,
     WriteMetaFails, SubmitFails, Capturing
<1>14. CASE MoveInFails(a)
  <2>1. /\ UNCHANGED << home, phase, timers, jobs, due, events >>
        /\ missed' = missed \cup ({home[mem[a].path]} \cap Written)
    BY <1>14 DEF MoveInFails
  <2>2. home'[mem[a].path] \notin due' \ missed'
    BY <1>d, <2>1
  <2>3. QED
    BY <1>f, <2>1, <2>2, OnTheWay
<1>15. CASE MoveBackFails(a)
  <2>1. /\ UNCHANGED << phase, timers, jobs, missed, due >> /\ events \subseteq events'
        /\ pc[a] \notin Capturing
    BY <1>15 DEF MoveBackFails, Notify, Capturing
  <2>2. \A p \in Path : home'[p] \in {home[p], NoFile}
    BY <1>15, <1>t DEF MoveBackFails, TypeOK
  <2>3. QED
    BY <1>d, <1>f, <2>1, <2>2, OnTheWay
<1>16. CASE RenameRefused(a)
  <2>1. /\ UNCHANGED << phase, timers, jobs, missed, due, mem >> /\ events \subseteq events'
    BY <1>16 DEF RenameRefused, OpenIn, OpenBack, Notify
  <2>2. /\ \A p \in Path : home'[p] \in {home[p], Partial}
        /\ pc[a] \in Capturing => pc'[a] \in Capturing
    BY <1>16, <1>t DEF RenameRefused, OpenIn, OpenBack, Goto, Capturing, TypeOK
  <2>3. QED
    BY <1>d, <1>f, <2>1, <2>2, OnTheWay
<1>10. CASE a \in Worker /\ CopyIn(a)
  <2>1. UNCHANGED << home, phase, timers, jobs, missed, due, events, mem >>
    BY <1>10 DEF CopyIn
  <2>2. home[mem[a].path] = NoFile \/ pc'[a] \in Capturing
    BY <1>10, <1>t DEF CopyIn, Goto, Capturing, TypeOK
  <2>3. QED
    BY <1>d, <1>f, <2>1, <2>2, OnTheWay
<1>11. CASE a = Main /\ \E e \in Entry : SweepVisit(e)
  BY <1>8, <1>11 DEF SweepVisit, Visit, Capturing
<1>12. CASE a = HeldPoller /\ Polls
  <2>1. UNCHANGED << home, phase, timers, jobs, missed, due, events >> /\ pc[a] \in {"idle", "scan"}
    BY <1>12 DEF Polls, PollTick, PollDone, PollVisit, PollFails, Visit
  <2>2. QED
    BY <1>8, <2>1 DEF Capturing
<1>13. QED
  BY <1>1, <1>2, <1>3, <1>4, <1>5, <1>7, <1>9, <1>10, <1>11, <1>12, <1>14, <1>15, <1>16
     DEF Acts, WorkOn, TakeIn, Sweeps, FailAt

\* A goroutine moves contents about and makes none up.
LEMMA KnownStep ==
  ASSUME DaemonInv, NEW a \in Actor, Acts(a)
  PROVE  KnownInv'
<1> USE DEF disk, watch, history, bounds
<1>t. /\ TypeOK /\ home \in [Path -> Known] /\ payload \in [Entry -> Known] /\ ent[a] \in Entry
      /\ call \in [Actor -> Calls] /\ \A b \in Actor : call[b].content \in Known
      /\ a \in Actor
  BY DEF DaemonInv, TypeInv, TypeOK, KnownInv
<1>n. {NoFile, Partial} \subseteq Known
  <2>1. Partial \notin Written
    BY NamesAssumption DEF Written
  <2>2. QED
    BY <2>1, NotAFile, ContentAssumption DEF Known, Files
<1>0. Known' = Known
  <2>1. writes' = writes
    <3>1. CASE Start \/ StartWatching
      BY <3>1 DEF Start, StartWatching, Fault
    <3>2. CASE ~(Start \/ StartWatching)
      BY <3>2, Around
    <3>3. QED
      BY <3>1, <3>2
  <2>2. QED
    BY <2>1 DEF Known
<1>f. \A b \in Actor \ {a} : call'[b] = call[b]
  BY ActsStep DEF Frame, Same
<1>q. ASSUME home' \in [Path -> Known], payload' \in [Entry -> Known], call'[a].content \in Known
      PROVE  KnownInv'
  BY <1>0, <1>f, <1>q, <1>t DEF KnownInv
<1>e. NoCall.content \in Known
  BY <1>n DEF NoCall
<1>1. CASE \/ TruncateMeta(a) \/ Act(a) \/ MarkReleased(a)
           \/ a = Main /\ Sweeps
           \/ a = HeldPoller /\ Polls
  <2>1. UNCHANGED << home, payload, call >>
    BY <1>1 DEF TruncateMeta, Act, MarkReleased, Sweeps, Start, StartWatching, SweepVisit, Visit,
       Polls, PollTick, PollDone, PollVisit, PollFails
  <2>2. QED
    BY <1>q, <1>t, <2>1
<1>2. CASE WriteMeta(a) \/ WriteMetaFails(a) \/ SubmitFails(a) \/ TakeJob(a)
  <2>1. UNCHANGED << home, payload >> /\ (call' = call \/ Return(a))
    BY <1>2 DEF WriteMeta, WriteMetaFails, SubmitFails, TakeJob
  <2>2. call'[a] \in {call[a], NoCall}
    BY <1>t, <2>1 DEF Return
  <2>3. QED
    BY <1>e, <1>q, <1>t, <2>1, <2>2
<1>3. CASE Submit(a)
  <2>1. UNCHANGED << home, payload >>
    BY <1>3 DEF Submit
  <2>2. call'[a].content \in {NoFile, payload[ent[a]]}
    <3>1. CASE payload[ent[a]] = NoFile
      BY <1>3, <1>t, <3>1 DEF Submit, Return, NoCall
    <3>2. CASE payload[ent[a]] # NoFile
      <4>1. call' = [call EXCEPT ![a] = [[NoCall EXCEPT !.verdict = "open"] EXCEPT !.content = payload[ent[a]]]]
        BY <1>3, <3>2 DEF Submit
      <4>2. QED
        BY <1>t, <4>1 DEF NoCall
    <3>3. QED
      BY <3>1, <3>2
  <2>3. QED
    BY <1>n, <1>q, <1>t, <2>1, <2>2
<1>4. CASE Handle(a)
  <2>1. UNCHANGED << home, payload >>
    BY <1>4 DEF Handle
  <2>2. call'[a].content = call[a].content
    BY <1>4, <1>t DEF Handle, Calls
  <2>3. QED
    BY <1>q, <1>t, <2>1, <2>2
<1>5. CASE MoveBack(a)
  <2>1. call'[a] \in {call[a], NoCall}
    BY <1>5, <1>t DEF MoveBack, OpenBack, Return
  <2>2. home' \in [Path -> Known] /\ payload' \in [Entry -> Known]
    BY <1>5, <1>n, <1>t DEF MoveBack, OpenBack
  <2>3. QED
    BY <1>e, <1>q, <1>t, <2>1, <2>2
<1>6. CASE CopyBack(a) \/ UnlinkBack(a)
  <2>1. home' \in [Path -> Known] /\ payload' \in [Entry -> Known] /\ call' = call
    BY <1>6, <1>n, <1>t DEF CopyBack, UnlinkBack
  <2>2. QED
    BY <1>q, <1>t, <2>1
<1>7. CASE RemoveEntry(a)
  <2>1. home' = home /\ payload' \in [Entry -> Known] /\ call'[a] = NoCall
    BY <1>7, <1>n, <1>t DEF RemoveEntry, Return
  <2>2. QED
    BY <1>e, <1>q, <1>t, <2>1
<1>8. CASE a \in Worker /\ Capture(a)
  <2>p. mem[a].path \in Path
    BY <1>8 DEF DaemonInv, OwnInv, Capture, Busy, Metas
  <2>1. home' \in [Path -> Known] /\ payload' \in [Entry -> Known]
    BY <1>8, <1>n, <1>t, <2>p DEF Capture, OpenIn
  <2>2. call'[a].content \in {call[a].content, NoFile, home[mem[a].path]}
    BY <1>8, <1>t DEF Capture, OpenIn, Return, NoCall, Calls
  <2>3. QED
    BY <1>n, <1>q, <1>t, <2>p, <2>1, <2>2
<1>9. CASE a \in Worker /\ CopyIn(a)
  <2>p. mem[a].path \in Path
    BY <1>9 DEF DaemonInv, OwnInv, CopyIn, Busy, Metas
  <2>1. home' = home /\ payload' \in [Entry -> Known] /\ call'[a] = NoCall
    BY <1>9, <1>n, <1>t, <2>p DEF CopyIn, Return
  <2>2. QED
    BY <1>e, <1>q, <1>t, <2>1
<1>10. CASE a \in Worker /\ UnlinkIn(a)
  <2>1. home' \in [Path -> Known] /\ payload' = payload /\ call'[a] \in {call[a], NoCall}
    BY <1>10, <1>n, <1>t DEF UnlinkIn, Return
  <2>2. QED
    BY <1>e, <1>q, <1>t, <2>1
<1>11. CASE MoveInFails(a)
  <2>1. home' = home /\ call'[a] = NoCall
    BY <1>11, <1>t DEF MoveInFails, Return
  <2>2. payload' \in [Entry -> Known]
    BY <1>11, <1>n, <1>t DEF MoveInFails
  <2>3. QED
    BY <1>e, <1>q, <1>t, <2>1, <2>2
<1>12. CASE MoveBackFails(a)
  <2>1. home' \in [Path -> Known] /\ payload' = payload /\ call'[a] = NoCall
    BY <1>12, <1>n, <1>t DEF MoveBackFails, Return
  <2>2. QED
    BY <1>e, <1>q, <1>t, <2>1
<1>13. CASE RenameRefused(a)
  <2>p. mem[a].path \in Path
    BY <1>13 DEF DaemonInv, OwnInv, RenameRefused, Busy, Metas
  <2>1. home' \in [Path -> Known] /\ payload' \in [Entry -> Known]
    BY <1>13, <1>n, <1>t DEF RenameRefused, OpenIn, OpenBack
  <2>2. call'[a].content \in {call[a].content, home[mem[a].path]}
    BY <1>13, <1>t DEF RenameRefused, OpenIn, OpenBack, Calls
  <2>3. QED
    BY <1>n, <1>q, <1>t, <2>p, <2>1, <2>2
<1>14. QED
  BY <1>1, <1>2, <1>3, <1>4, <1>5, <1>6, <1>7, <1>8, <1>9, <1>10, <1>11, <1>12, <1>13
     DEF Acts, WorkOn, TakeIn, FailAt

\* A goroutine's step keeps everything.
LEMMA ActsKeep ==
  ASSUME DaemonInv, NEW a \in Actor, Acts(a)
  PROVE  DaemonInv'
<1>1. TypeOK' /\ OneOwner' /\ \A b \in Actor : OwnInv(b)' /\ VerdictInv(b)'
  BY OwnersStep
<1>2. timers' = timers
  <2>1. CASE Start \/ StartWatching
    BY <2>1 DEF Start, StartWatching, watch
  <2>2. CASE ~(Start \/ StartWatching)
    BY <2>2, Around
  <2>3. QED
    BY <2>1, <2>2
<1>3. TypeInv'
  BY <1>1, <1>2, KnownStep DEF DaemonInv, TypeInv, TimerInv
<1>4. QED
  BY <1>1, <1>3, PhaseStep, ClaimsStep, PendingStep, DueStep DEF DaemonInv

-------------------------------------------------------------------------------
(* The user, the watcher, admins and crashes *)

\* A step that touches no goroutine, no entry and no phase: only the types, the
\* watcher's lists and the files on their way are left to look at.
LEMMA StillStep ==
  ASSUME DaemonInv, UNCHANGED << payload, meta, phase, pc, ent, mem, call, todo, removable, failed >>,
         RowsGrow, TypeInv', DueInv',
         phase # "watching" => /\ UNCHANGED << events, jobs, due, timers >>
                               /\ \A p \in Path : folder'[p] \notin {"created", "watched"}
  PROVE  DaemonInv'
<1>1. \A b \in Actor : OwnInv(b)' /\ VerdictInv(b)'
  BY KeepsFinding DEF Same
<1>2. OneOwner'
  BY DEF DaemonInv, OneOwner, Busy
<1>3. PhaseInv'
  BY DEF DaemonInv, PhaseInv
<1>4. ClaimInv' /\ HeldRowMatches'
  <2>1. \A a \in Actor : Claim(a)' = Claim(a)
    BY SameClaim DEF Same
  <2>2. QED
    BY <2>1, NothingClaimed
<1>5. PendingInv'
  BY DEF DaemonInv, PendingInv, Busy
<1>6. QED
  BY <1>1, <1>2, <1>3, <1>4, <1>5 DEF DaemonInv

\* What the user writes is new, and is reported if it ought to be.
LEMMA UserKeeps == ASSUME DaemonInv, NEW p \in Path, UserWrite(p) \/ UserRemove(p) PROVE DaemonInv'
<1> USE DEF disk, watch, history, bounds
<1>t. TypeOK /\ TimerInv /\ DueInv /\ PhaseInv
  BY DEF DaemonInv, TypeInv
<1>1. /\ UNCHANGED << payload, meta, phase, pc, ent, mem, call, todo, folder, timers, jobs, ignore, removable,
                      rows, failed, faults >>
      /\ phase # "watching" => UNCHANGED << events, due >>
      /\ events \subseteq events' /\ missed \subseteq missed'
  BY <1>t DEF UserWrite, UserRemove, Notify, PhaseInv
<1>2. /\ home' \in [Path -> Files] /\ writes' \in 0..MaxWrites /\ due' \subseteq Written /\ missed' \subseteq Written
      /\ events' \subseteq Path
      /\ \A q \in Path \ {p} : home'[q] = home[q]
      /\ due' = due \/ due' = due \cup {writes + 1}
      /\ \/ home'[p] \notin due' \ missed' \/ p \in removable \/ p \in events'
         \/ phase # "watching"
  <2>1. CASE UserWrite(p)
    <3>1. writes + 1 \in Written /\ writes + 1 \in 0..MaxWrites /\ writes + 1 \in Files
      BY <1>t, <2>1, BoundsAssumption, ContentAssumption DEF UserWrite, TypeOK, Written, Files
    <3>2. QED
      BY <1>t, <2>1, <3>1 DEF UserWrite, TypeOK
  <2>2. CASE UserRemove(p)
    <3>1. home' = [home EXCEPT ![p] = NoFile] /\ due' = due /\ missed' = missed /\ writes' = writes /\ NoFile \notin due
      BY <1>t, <2>2, NotAFile DEF UserRemove, TypeOK
    <3>2. events' \subseteq Path
      BY <1>t, <2>2 DEF UserRemove, Notify, TypeOK
    <3>3. QED
      BY <1>t, <3>1, <3>2 DEF TypeOK, Files
  <2>3. QED
    BY <2>1, <2>2
<1>k. KnownInv' /\ \A q \in Path : home[q] \in Written => home[q] # writes + 1
  <2>1. /\ writes \in Nat /\ writes' \in Nat /\ writes <= writes' /\ home \in [Path -> Known]
        /\ UserWrite(p) => writes' = writes + 1
    BY <1>t, BoundsAssumption DEF UserWrite, UserRemove, TypeOK, DaemonInv, TypeInv, KnownInv
  <2>2. \A f \in Known : f \in Known'
    BY <2>1 DEF Known, Written
  <2>3. NoFile \in Known' /\ (UserWrite(p) => writes + 1 \in Known')
    <3>1. NoFile \in Known'
      BY NotAFile DEF Known, Files, Written
    <3>2. UserWrite(p) => writes + 1 \in Files /\ writes + 1 <= writes'
      BY <2>1, BoundsAssumption, ContentAssumption DEF Files, UserWrite
    <3>3. QED
      BY <3>1, <3>2 DEF Known
  <2>4. home' \in [Path -> Known']
    BY <2>1, <2>2, <2>3 DEF UserWrite, UserRemove
  <2>5. \A q \in Path : home[q] \in Written => home[q] # writes + 1
    BY <2>1 DEF Known, Written
  <2>6. QED
    BY <1>1, <2>2, <2>4, <2>5 DEF DaemonInv, TypeInv, KnownInv
<1>3. TypeInv'
  BY <1>t, <1>1, <1>2, <1>k DEF TypeInv, TypeOK, QuarantineTypeOK, TimerInv
<1>4. DueInv'
  <2> SUFFICES ASSUME phase = "watching", NEW q \in Path \ removable, home'[q] \in due' \ missed'
               PROVE  \/ q \in events'
                      \/ timers[q].armed > 0 \/ timers[q].fired > 0
                      \/ \E i \in DOMAIN jobs : jobs[i] = q
                      \/ \E w \in Worker : pc[w] \in Capturing /\ mem[w].path = q
    BY <1>1 DEF DueInv
  <2>1. CASE q = p
    BY <1>2, <2>1
  <2>2. CASE q # p /\ home[q] \in due
    BY <1>t, <1>1, <1>2, <2>2 DEF DueInv
  <2>3. CASE q # p /\ home[q] \notin due
    BY <1>2, <1>k, <2>3
  <2>4. QED
    BY <2>1, <2>2, <2>3
<1>5. QED
  BY <1>1, <1>3, <1>4, <1>t, StillStep DEF RowsGrow, PhaseInv

\* A new directory brings no file.
LEMMA FolderKeeps == ASSUME DaemonInv, NEW p \in Path, UserMakesFolder(p) PROVE DaemonInv'
<1> USE DEF disk, watch, history, bounds
<1>t. TypeOK /\ TimerInv /\ KnownInv /\ DueInv /\ PhaseInv
  BY DEF DaemonInv, TypeInv
<1>1. /\ UNCHANGED << disk, phase, pc, ent, mem, call, todo, events, timers, jobs, ignore, rows,
                      history, bounds >>
      /\ folder' \in [Path -> Folders]
      /\ \A q \in Path : folder'[q] = folder[q] \/ folder'[q] = "unwatched" \/ phase = "watching"
  BY <1>t DEF UserMakesFolder, TypeOK, Folders
<1>2. TypeInv'
  BY <1>t, <1>1 DEF TypeInv, TypeOK, QuarantineTypeOK, TimerInv, KnownInv, Known
<1>3. DueInv'
  BY <1>t, <1>1 DEF DueInv
<1>4. QED
  BY <1>1, <1>2, <1>3, <1>t, StillStep DEF RowsGrow, PhaseInv

Timer == [mapped : {"none", "armed", "fired"}, armed : Nat, fired : Nat]
Sound(t) == t.mapped = "armed" => t.armed > 0

\* What the stabilizer does to a path's timers: no timer is ever forgotten but the
\* armed one that a new event or a deletion stops.
LEMMA TimerMoves ==
  ASSUME NEW t \in Timer, Sound(t)
  PROVE  /\ Touched(t) \in Timer /\ Sound(Touched(t)) /\ Touched(t).armed > 0
         /\ Cancelled(t) \in Timer /\ Sound(Cancelled(t))
         /\ t.mapped = "armed" =>
              LET u == [mapped |-> "fired", armed |-> t.armed - 1, fired |-> t.fired + 1]
              IN  u \in Timer /\ Sound(u) /\ u.fired > 0
         /\ Unarmed(t) > 0 =>
              LET u == [[t EXCEPT !.armed = t.armed - 1] EXCEPT !.fired = t.fired + 1]
              IN  u \in Timer /\ Sound(u) /\ u.fired > 0
         /\ t.fired > 0 =>
              LET u == [[t EXCEPT !.mapped = "none"] EXCEPT !.fired = t.fired - 1]
              IN  u \in Timer /\ Sound(u)
<1>1. t.armed \in Nat /\ t.fired \in Nat /\ Unarmed(t) \in Nat
  BY DEF Timer, Sound, Unarmed
\* The two fields a step sets.
<1>a. ASSUME NEW m \in {"none", "armed", "fired"}, NEW n \in Nat
      PROVE  /\ [[t EXCEPT !.mapped = m] EXCEPT !.armed = n] \in Timer
             /\ [[t EXCEPT !.mapped = m] EXCEPT !.armed = n].mapped = m
             /\ [[t EXCEPT !.mapped = m] EXCEPT !.armed = n].armed = n
             /\ [[t EXCEPT !.mapped = m] EXCEPT !.fired = n] \in Timer
             /\ [[t EXCEPT !.mapped = m] EXCEPT !.fired = n].mapped = m
             /\ [[t EXCEPT !.mapped = m] EXCEPT !.fired = n].armed = t.armed
  BY DEF Timer
<1>b. ASSUME NEW i \in Nat, NEW n \in Nat
      PROVE  /\ [[t EXCEPT !.armed = i] EXCEPT !.fired = n] \in Timer
             /\ [[t EXCEPT !.armed = i] EXCEPT !.fired = n].mapped = t.mapped
             /\ [[t EXCEPT !.armed = i] EXCEPT !.fired = n].armed = i
             /\ [[t EXCEPT !.armed = i] EXCEPT !.fired = n].fired = n
  BY DEF Timer
<1>2. Touched(t) \in Timer /\ Sound(Touched(t)) /\ Touched(t).armed > 0
  <2> DEFINE n == Unarmed(t) + 1
             u == [[t EXCEPT !.mapped = "armed"] EXCEPT !.armed = n]
  <2>1. n \in Nat /\ n > 0
    BY <1>1
  <2>2. Touched(t) = u
    BY DEF Touched
  <2> HIDE DEF n
  <2>3. u \in Timer /\ u.armed = n
    BY <1>a, <2>1
  <2> HIDE DEF u
  <2>4. QED
    BY <2>1, <2>2, <2>3 DEF Sound
<1>3. Cancelled(t) \in Timer /\ Sound(Cancelled(t))
  BY <1>1 DEF Cancelled, Timer, Sound
<1>4. t.mapped = "armed" =>
        LET u == [mapped |-> "fired", armed |-> t.armed - 1, fired |-> t.fired + 1]
        IN  u \in Timer /\ Sound(u) /\ u.fired > 0
  BY <1>1 DEF Timer, Sound
<1>5. Unarmed(t) > 0 =>
        LET u == [[t EXCEPT !.armed = t.armed - 1] EXCEPT !.fired = t.fired + 1]
        IN  u \in Timer /\ Sound(u) /\ u.fired > 0
  <2> DEFINE u == [[t EXCEPT !.armed = t.armed - 1] EXCEPT !.fired = t.fired + 1]
  <2> SUFFICES ASSUME Unarmed(t) > 0 PROVE u \in Timer /\ Sound(u) /\ u.fired > 0
    OBVIOUS
  <2>1. /\ t.armed - 1 \in Nat /\ t.fired + 1 \in Nat /\ t.fired + 1 > 0
        /\ t.mapped = "armed" => t.armed - 1 > 0
    BY <1>1 DEF Unarmed
  <2>2. u \in Timer /\ u.mapped = t.mapped /\ u.armed = t.armed - 1 /\ u.fired = t.fired + 1
    BY <1>b, <2>1
  <2> HIDE DEF u
  <2>3. QED
    BY <2>1, <2>2 DEF Sound
<1>6. t.fired > 0 => LET u == [[t EXCEPT !.mapped = "none"] EXCEPT !.fired = t.fired - 1]
                     IN  u \in Timer /\ Sound(u)
  <2> DEFINE u == [[t EXCEPT !.mapped = "none"] EXCEPT !.fired = t.fired - 1]
  <2> SUFFICES ASSUME t.fired > 0 PROVE u \in Timer /\ Sound(u)
    OBVIOUS
  <2>1. t.fired - 1 \in Nat
    BY <1>1
  <2>2. u \in Timer /\ u.mapped = "none"
    BY <1>a, <2>1
  <2> HIDE DEF u
  <2>3. QED
    BY <2>2 DEF Sound
<1>7. QED
  BY <1>2, <1>3, <1>4, <1>5, <1>6

\* A step of the watcher takes files further on their way.
LEMMA WatcherKeeps == ASSUME DaemonInv, Watcher PROVE DaemonInv'
<1> USE DEF disk, watch, history, bounds
<1>t. TypeOK /\ TimerInv /\ KnownInv /\ DueInv /\ PhaseInv
  BY DEF DaemonInv, TypeInv
<1> PICK p \in Path : HandleEvent(p) \/ HandleFolder(p) \/ Fire(p) \/ Settle(p) \/ SweepMount(p)
  BY DEF Watcher
<1>1. /\ UNCHANGED << disk, phase, pc, ent, mem, call, todo, ignore, rows, due, failed, bounds >>
      /\ missed \subseteq missed' /\ folder' \in [Path -> Folders]
  BY <1>t DEF HandleEvent, HandleFolder, Fire, Settle, SweepMount, TypeOK, Folders
<1>2. timers[p] \in Timer /\ Sound(timers[p]) /\ timers \in [Path -> Timer]
  BY <1>t DEF TypeOK, Timer, TimerInv, Sound
\* What the handlers do to the watcher's lists.
<1>3. PICK u \in Timer : /\ timers' = [timers EXCEPT ![p] = u] /\ Sound(u)
                         /\ \/ timers[p].armed = 0 /\ timers[p].fired = 0
                            \/ u.armed > 0 \/ u.fired > 0
                            \/ \E i \in DOMAIN jobs' : jobs'[i] = p
                            \/ home[p] = NoFile
  <2> DEFINE t == timers[p]
  <2>1. CASE HandleEvent(p)
    <3>1. CASE home[p] = NoFile
      <4>1. timers' = [timers EXCEPT ![p] = Cancelled(t)]
        BY <2>1, <3>1 DEF HandleEvent
      <4>2. QED
        BY <1>2, <3>1, <4>1, TimerMoves
    <3>2. CASE home[p] # NoFile /\ p \in ignore
      <4>1. timers' = [timers EXCEPT ![p] = t]
        BY <1>2, <2>1, <3>2 DEF HandleEvent
      <4>2. (t.armed = 0 /\ t.fired = 0) \/ t.armed > 0 \/ t.fired > 0
        BY <1>2 DEF Timer
      <4>3. QED
        BY <1>2, <4>1, <4>2
    <3>3. CASE home[p] # NoFile /\ p \notin ignore
      <4>1. timers' = [timers EXCEPT ![p] = Touched(t)]
        BY <2>1, <3>3 DEF HandleEvent
      <4>2. QED
        BY <1>2, <4>1, TimerMoves
    <3>4. QED
      BY <3>1, <3>2, <3>3
  <2>2. CASE Fire(p)
    <3>1. CASE t.mapped = "armed" /\ timers' = [timers EXCEPT ![p] = [mapped |-> "fired", armed |-> @.armed - 1,
                                                                      fired |-> @.fired + 1]]
      <4> DEFINE x == [mapped |-> "fired", armed |-> t.armed - 1, fired |-> t.fired + 1]
      <4>1. timers' = [timers EXCEPT ![p] = x]
        BY <1>2, <3>1
      <4>2. x \in Timer /\ Sound(x) /\ x.fired > 0
        BY <1>2, <3>1, TimerMoves
      <4> HIDE DEF x
      <4>3. QED
        BY <4>1, <4>2
    <3>2. CASE Unarmed(t) > 0 /\ timers' = [timers EXCEPT ![p].armed = @ - 1, ![p].fired = @ + 1]
      <4> DEFINE x == [[t EXCEPT !.armed = t.armed - 1] EXCEPT !.fired = t.fired + 1]
      <4>1. timers' = [timers EXCEPT ![p] = x]
        BY <1>2, <3>2
      <4>2. x \in Timer /\ Sound(x) /\ x.fired > 0
        BY <1>2, <3>2, TimerMoves
      <4> HIDE DEF x
      <4>3. QED
        BY <4>1, <4>2
    <3>3. QED
      BY <2>2, <3>1, <3>2 DEF Fire
  <2>3. CASE Settle(p)
    <3> DEFINE x == [[t EXCEPT !.mapped = "none"] EXCEPT !.fired = t.fired - 1]
    <3>1. timers' = [timers EXCEPT ![p] = x]
      BY <1>2, <2>3 DEF Settle
    <3>2. x \in Timer /\ Sound(x)
      BY <1>2, <2>3, TimerMoves DEF Settle
    <3> HIDE DEF x
    <3>3. Len(jobs) + 1 \in DOMAIN jobs' /\ jobs'[Len(jobs) + 1] = p
      BY <1>t, <2>3 DEF Settle, TypeOK
    <3>4. QED
      BY <3>1, <3>2, <3>3
  <2>4. CASE SweepMount(p) \/ HandleFolder(p)
    <3>1. timers' = [timers EXCEPT ![p] = t]
      BY <1>2, <2>4 DEF SweepMount, HandleFolder
    <3>2. (t.armed = 0 /\ t.fired = 0) \/ t.armed > 0 \/ t.fired > 0
      BY <1>2 DEF Timer
    <3>3. QED
      BY <1>2, <3>1, <3>2
  <2>5. QED
    BY <2>1, <2>2, <2>3, <2>4
<1>4. /\ jobs' \in Seq(Path) /\ Len(jobs') <= JobsCap
      /\ \A i \in DOMAIN jobs : i \in DOMAIN jobs' /\ jobs'[i] = jobs[i]
  <2>1. jobs' = jobs \/ (jobs' = Append(jobs, p) /\ Len(jobs) < JobsCap)
    BY DEF HandleEvent, HandleFolder, Fire, Settle, SweepMount
  <2>2. QED
    <3>1. jobs \in Seq(Path) /\ Len(jobs) \in Nat /\ Len(jobs) <= JobsCap /\ JobsCap \in Nat
      BY <1>t, BoundsAssumption DEF TypeOK
    <3>2. CASE jobs' = jobs
      BY <3>1, <3>2
    <3>3. CASE jobs' = Append(jobs, p) /\ Len(jobs) < JobsCap
      BY <3>1, <3>3
    <3>4. QED
      BY <2>1, <3>2, <3>3
<1>5. events' \subseteq Path /\ missed' \subseteq Written /\ \A q \in Path \ {p} : q \in events => q \in events'
  BY <1>t DEF HandleEvent, HandleFolder, Fire, Settle, SweepMount, TypeOK
<1>6. p \in removable \/ p \in events' \/ p \notin events \/ home[p] = NoFile
        \/ home[p] \in missed' \/ home[p] \notin Written \/ timers'[p].armed > 0
  <2>1. CASE HandleEvent(p) /\ home[p] # NoFile /\ p \notin ignore
    <3>1. timers' = [timers EXCEPT ![p] = Touched(timers[p])]
      BY <2>1 DEF HandleEvent
    <3>2. QED
      BY <1>2, <3>1, TimerMoves
  <2>2. CASE HandleEvent(p) /\ p \in ignore
    BY <2>2 DEF HandleEvent
  <2>3. CASE HandleFolder(p) \/ Fire(p) \/ Settle(p) \/ SweepMount(p)
    BY <2>3 DEF HandleFolder, Fire, Settle, SweepMount
  <2>4. QED
    BY <2>1, <2>2, <2>3
<1>7. TypeInv'
  <2>1. timers' \in [Path -> Timer]
    BY <1>2, <1>3
  <2>2. TypeOK'
    BY <1>t, <1>1, <1>4, <1>5, <2>1 DEF TypeOK, QuarantineTypeOK, Timer
  <2>3. TimerInv'
    BY <1>2, <1>3, <1>t DEF TimerInv, Sound
  <2>4. KnownInv'
    BY <1>1, <1>t DEF KnownInv, Known
  <2>5. QED
    BY <2>2, <2>3, <2>4 DEF TypeInv
<1>8. DueInv'
  <2> SUFFICES ASSUME phase = "watching", NEW q \in Path \ removable, home[q] \in due \ missed'
               PROVE  \/ q \in events'
                      \/ timers'[q].armed > 0 \/ timers'[q].fired > 0
                      \/ \E i \in DOMAIN jobs' : jobs'[i] = q
                      \/ \E w \in Worker : pc[w] \in Capturing /\ mem[w].path = q
    BY <1>1 DEF DueInv
  <2>1. /\ home[q] \in Written /\ home[q] # NoFile
        /\ \/ q \in events
           \/ timers[q].armed > 0 \/ timers[q].fired > 0
           \/ \E i \in DOMAIN jobs : jobs[i] = q
           \/ \E w \in Worker : pc[w] \in Capturing /\ mem[w].path = q
    BY <1>1, <1>t, NotAFile DEF DueInv, TypeOK
  <2>2. CASE \E i \in DOMAIN jobs : jobs[i] = q
    BY <1>4, <2>2
  <2>3. CASE q # p
    BY <1>2, <1>3, <1>4, <1>5, <2>1, <2>3
  <2>4. CASE q = p /\ q \in events
    BY <1>6, <2>1, <2>4
  <2>5. CASE q = p /\ (timers[q].armed > 0 \/ timers[q].fired > 0)
    BY <1>2, <1>3, <2>1, <2>5
  <2>6. QED
    BY <2>1, <2>2, <2>3, <2>4, <2>5
<1>9. phase # "watching" => UNCHANGED << events, jobs, due, timers, folder >>
  <2>1. CASE HandleEvent(p) \/ HandleFolder(p) \/ SweepMount(p)
    BY <1>t, <2>1 DEF HandleEvent, HandleFolder, SweepMount, PhaseInv
  <2>2. CASE Fire(p) \/ Settle(p)
    <3>1. ASSUME timers[p] = NoTimer PROVE FALSE
      BY <2>2, <3>1 DEF Fire, Settle, Unarmed, NoTimer
    <3>2. QED
      BY <1>t, <3>1 DEF PhaseInv
  <2>3. QED
    BY <2>1, <2>2
<1>10. QED
  BY <1>1, <1>7, <1>8, <1>9, <1>t, StillStep DEF RowsGrow, PhaseInv

\* What the watcher does not get to see is given up on.
LEMMA UnseenKeeps == ASSUME DaemonInv, Unseen PROVE DaemonInv'
<1> USE DEF disk, watch, history, bounds
<1>t. TypeOK /\ TimerInv /\ KnownInv /\ DueInv /\ PhaseInv
  BY DEF DaemonInv, TypeInv
<1> PICK p \in Path : HandleFolderFails(p) \/ EventLost(p)
  BY DEF Unseen
<1>1. /\ UNCHANGED << disk, phase, pc, ent, mem, call, todo, timers, jobs, ignore, rows, due, failed,
                      removable, writes >>
      /\ faults' \in 0..MaxFaults /\ folder' \in [Path -> Folders] /\ events' \subseteq Path
      /\ missed \subseteq missed' /\ missed' \subseteq Written
  <2>1. faults' \in 0..MaxFaults
    BY <1>t, BoundsAssumption DEF HandleFolderFails, EventLost, Fault, TypeOK
  <2>2. CASE HandleFolderFails(p)
    BY <1>t, <2>1, <2>2 DEF HandleFolderFails, Fault, TypeOK, Folders
  <2>3. CASE EventLost(p)
    BY <1>t, <2>1, <2>3 DEF EventLost, Fault, TypeOK, Folders
  <2>4. QED
    BY <2>2, <2>3
<1>2. /\ \A q \in Path : q \in events => q \in events' \/ home[q] \in missed' \/ home[q] \notin Written
      /\ \A q \in Path : folder'[q] \in {folder[q], "unwatched"}
      /\ events' \subseteq events
  BY <1>t DEF HandleFolderFails, EventLost, TypeOK
<1>3. TypeInv'
  BY <1>t, <1>1 DEF TypeInv, TypeOK, QuarantineTypeOK, TimerInv, KnownInv, Known
<1>4. DueInv'
  BY <1>t, <1>1, <1>2 DEF DueInv, TypeOK
<1>5. QED
  BY <1>1, <1>2, <1>3, <1>4, <1>t, StillStep DEF RowsGrow, PhaseInv

\* The ignore window of a path ends.
LEMMA IgnoreKeeps == ASSUME DaemonInv, NEW p \in Path, IgnoreExpires(p) PROVE DaemonInv'
<1> USE DEF disk, watch, history, bounds
<1>1. /\ UNCHANGED << disk, phase, pc, ent, mem, call, todo, folder, events, timers, jobs, rows, history, bounds >>
      /\ ignore' \subseteq ignore
  BY DEF IgnoreExpires
<1>2. TypeInv'
  <2>1. TypeOK'
    BY <1>1 DEF DaemonInv, TypeInv, TypeOK, QuarantineTypeOK
  <2>2. TimerInv' /\ KnownInv'
    BY <1>1 DEF DaemonInv, TypeInv, TimerInv, KnownInv, Known
  <2>3. QED
    BY <2>1, <2>2 DEF TypeInv
<1>3. DueInv'
  BY <1>1 DEF DaemonInv, DueInv
<1>4. QED
  BY <1>1, <1>2, <1>3, StillStep DEF RowsGrow, DaemonInv, PhaseInv

\* An admin decides a pending row, and only its status changes.
LEMMA DecideKeeps == ASSUME DaemonInv, Decide PROVE DaemonInv'
<1> USE DEF disk, watch, history, bounds
<1>1. UNCHANGED << disk, phase, pc, ent, mem, call, todo, watch, history, bounds >>
  BY DEF Decide
<1>t. rows \in Seq(Rows)
  BY DEF DaemonInv, TypeInv, TypeOK, QuarantineTypeOK
<1>2. PICK q \in DOMAIN rows, s \in {"approved", "rejected"} :
        rows[q].status = "pending" /\ rows' = [rows EXCEPT ![q].status = s]
  BY DEF Decide, AdminDecides, DecideQuarantine
<1>3. [rows[q] EXCEPT !.status = s] \in Rows
  <2>1. rows[q] \in Rows
    BY <1>t
  <2>2. ASSUME NEW r \in Rows, NEW x \in {"approved", "rejected"} PROVE [r EXCEPT !.status = x] \in Rows
    BY <2>2 DEF Rows
  <2>3. QED
    BY <2>1, <2>2
<1>4. rows' = [rows EXCEPT ![q] = [rows[q] EXCEPT !.status = s]]
  BY <1>t, <1>2
<1>5. rows' \in Seq(Rows)
  BY <1>t, <1>3, <1>4
<1>6. RowsGrow
  <2>0. rows[q] \in Rows
    BY <1>t
  <2>1. /\ [rows[q] EXCEPT !.status = s].content = rows[q].content
        /\ [rows[q] EXCEPT !.status = s].path = rows[q].path
    BY <2>0 DEF Rows
  <2>2. QED
    BY <1>t, <1>2, <1>4, <2>1 DEF RowsGrow
<1>7. TypeInv'
  <2>1. TypeOK'
    BY <1>1, <1>5 DEF DaemonInv, TypeInv, TypeOK, QuarantineTypeOK
  <2>2. TimerInv' /\ KnownInv'
    BY <1>1 DEF DaemonInv, TypeInv, TimerInv, KnownInv, Known
  <2>3. QED
    BY <2>1, <2>2 DEF TypeInv
<1>8. DueInv'
  BY <1>1 DEF DaemonInv, DueInv
<1>9. QED
  BY <1>1, <1>6, <1>7, <1>8, StillStep DEF DaemonInv, PhaseInv

\* A crash empties the memory of every goroutine; entries and rows stay as they are.
LEMMA CrashKeeps == ASSUME DaemonInv, Crash PROVE DaemonInv'
<1> USE DEF disk, watch, history, bounds
<1>t. TypeOK
  BY DEF DaemonInv, TypeInv
<1>1. /\ UNCHANGED << home, payload, meta, ent, rows, writes, removable >> /\ phase' = "down"
      /\ \A a \in Actor : pc'[a] = "idle" /\ call'[a] = NoCall
      /\ events' = {} /\ jobs' = << >> /\ due' = {} /\ timers' = [p \in Path |-> NoTimer]
      /\ folder' \in [Path -> {"none", "unwatched"}]
  BY DEF Crash, Fault
<1>2. TypeOK'
  <2>1. /\ pc' \in [Actor -> Steps] /\ mem' \in [Actor -> Metas \cup {NoMeta}]
        /\ todo' \in [Actor -> SUBSET Entry]
    BY DEF Crash, Steps
  <2>2. call' \in [Actor -> Calls]
    <3>1. NoCall \in Calls
      BY BoundsAssumption DEF NoCall, Calls, Files
    <3>2. QED
      BY <3>1 DEF Crash
  <2>3. timers' \in [Path -> [mapped : {"none", "armed", "fired"}, armed : Nat, fired : Nat]]
    BY <1>1 DEF NoTimer
  <2>4. jobs' \in Seq(Path) /\ Len(jobs') <= JobsCap
    BY <1>1, BoundsAssumption
  <2>5. /\ ignore' = {} /\ missed' = {} /\ failed' = {} /\ faults' \in 0..MaxFaults
    BY <1>t, BoundsAssumption DEF Crash, Fault, TypeOK
  <2>6. QED
    BY <1>1, <1>t, <2>1, <2>2, <2>3, <2>4, <2>5 DEF TypeOK, QuarantineTypeOK, Folders
<1>3. TypeInv'
  <2>1. TimerInv'
    BY <1>1 DEF TimerInv, NoTimer
  <2>2. KnownInv'
    <3>1. NoFile \in Known' /\ Known' = Known
      BY <1>1, NotAFile DEF Known, Files
    <3>2. QED
      BY <1>1, <3>1 DEF DaemonInv, TypeInv, KnownInv, NoCall
  <2>3. QED
    BY <1>2, <2>1, <2>2 DEF TypeInv
<1>4. \A a \in Actor : OwnInv(a)' /\ VerdictInv(a)'
  BY <1>1, IdleStep
<1>5. PhaseInv' /\ OneOwner'
  BY <1>1 DEF PhaseInv, OneOwner, Busy, Actor
<1>6. ClaimInv' /\ HeldRowMatches'
  <2>1. \A a \in Actor : Claim(a)' = 0
    BY <1>1, NoClaim
  <2>2. RowsGrow
    BY <1>1 DEF RowsGrow
  <2>3. QED
    BY <1>1, <2>1, <2>2, NothingClaimed
<1>7. PendingInv' /\ DueInv'
  BY <1>1 DEF PendingInv, DueInv
<1>8. QED
  BY <1>3, <1>4, <1>5, <1>6, <1>7 DEF DaemonInv

-------------------------------------------------------------------------------
(* The daemon *)

\* Before the daemon's first start all of it holds.
LEMMA InitHolds == Init => DaemonInv
<1> SUFFICES ASSUME Init PROVE DaemonInv
  OBVIOUS
<1> USE DEF Init
<1>1. TypeOK
  <2>1. /\ home \in [Path -> Files] /\ payload \in [Entry -> Files]
        /\ meta \in [Entry -> Metas \cup {NoMeta, TornMeta}] /\ mem \in [Actor -> Metas \cup {NoMeta}]
    BY DEF Files
  <2>2. pc \in [Actor -> Steps] /\ ent \in [Actor -> Entry] /\ todo \in [Actor -> SUBSET Entry]
    BY DEF Steps
  <2>3. call \in [Actor -> Calls]
    <3>1. NoCall \in Calls
      BY BoundsAssumption DEF NoCall, Calls, Files
    <3>2. QED
      BY <3>1
  <2>4. timers \in [Path -> [mapped : {"none", "armed", "fired"}, armed : Nat, fired : Nat]]
    BY DEF NoTimer
  <2>5. /\ rows \in Seq(Rows) /\ jobs \in Seq(Path) /\ Len(jobs) <= JobsCap
        /\ writes \in 0..MaxWrites /\ faults \in 0..MaxFaults
    BY BoundsAssumption
  <2>6. removable \subseteq Path /\ folder \in [Path -> Folders]
    BY NamesAssumption DEF Folders
  <2>7. QED
    BY <2>1, <2>2, <2>3, <2>4, <2>5, <2>6 DEF TypeOK, QuarantineTypeOK
<1>2. TypeInv
  <2>1. TimerInv
    BY DEF TimerInv, NoTimer
  <2>2. KnownInv
    <3>1. NoFile \in Known
      BY NotAFile DEF Known, Files
    <3>2. QED
      BY <3>1 DEF KnownInv, NoCall
  <2>3. QED
    BY <1>1, <2>1, <2>2 DEF TypeInv
<1>3. \A a \in Actor : OwnInv(a) /\ VerdictInv(a)
  BY DEF OwnInv, VerdictInv, Busy, Capturing, Recording, Restoring
<1>4. PhaseInv /\ OneOwner
  BY DEF PhaseInv, OneOwner, Busy, Actor
<1>5. ClaimInv /\ HeldRowMatches
  BY DEF ClaimInv, HeldRowMatches, Claim, Recording, NoMeta
<1>6. PendingInv /\ DueInv
  BY DEF PendingInv, DueInv
<1>7. QED
  BY <1>2, <1>3, <1>4, <1>5, <1>6 DEF DaemonInv

\* Who takes a step of the daemon.
LEMMA WhoSteps ==
  ASSUME Next
  PROVE  \/ \E p \in Path : UserWrite(p) \/ UserRemove(p) \/ UserMakesFolder(p) \/ IgnoreExpires(p)
         \/ Decide \/ Watcher \/ Unseen \/ Crash
         \/ \E a \in Actor : Acts(a)
<1>1. CASE Sweep
  <2>1. Main \in Actor /\ Acts(Main)
    BY <1>1 DEF Sweep, Acts, Sweeps, Actor
  <2>2. QED
    BY <2>1
<1>2. CASE Poll \/ \E e \in Entry : PollFails(e)
  <2>1. HeldPoller \in Actor /\ Acts(HeldPoller)
    BY <1>2 DEF Poll, Acts, Polls, Actor
  <2>2. QED
    BY <2>1
<1>3. CASE \E w \in Worker : Work(w)
  <2>1. PICK w \in Worker : Work(w)
    BY <1>3
  <2>2. w \in Actor /\ Acts(w)
    BY <2>1 DEF Work, Acts, TakeIn, Actor
  <2>3. QED
    BY <2>2
<1>4. CASE \E a \in Actor : FailAt(a)
  BY <1>4 DEF Acts
<1>5. QED
  BY <1>1, <1>2, <1>3, <1>4 DEF Next, User

\* Every step of the daemon, its user and the admins keeps it.
LEMMA DaemonStep == DaemonInv /\ [Next]_vars => DaemonInv'
<1> SUFFICES ASSUME DaemonInv, [Next]_vars PROVE DaemonInv'
  OBVIOUS
<1>1. CASE Next
  BY <1>1, WhoSteps, UserKeeps, FolderKeeps, IgnoreKeeps, DecideKeeps, WatcherKeeps, UnseenKeeps, CrashKeeps,
     ActsKeep
<1>2. CASE UNCHANGED vars
  <2> USE <1>2 DEF vars, disk, watch, history, bounds
  <2>1. TypeOK'
    BY DEF DaemonInv, TypeInv, TypeOK, QuarantineTypeOK
  <2>2. TimerInv' /\ KnownInv'
    BY DEF DaemonInv, TypeInv, TimerInv, KnownInv, Known
  <2>3. DueInv'
    BY DEF DaemonInv, DueInv
  <2>4. QED
    BY <2>1, <2>2, <2>3, StillStep DEF TypeInv, RowsGrow, DaemonInv, PhaseInv
<1>3. QED
  BY <1>1, <1>2

\* DaemonInv is an invariant of the daemon.
THEOREM DaemonInvariant == Spec => []DaemonInv
BY InitHolds, DaemonStep, PTL DEF Spec

\* Every variable of the daemon keeps its type.
THEOREM TypeCorrect == Spec => []TypeOK
<1>1. DaemonInv => TypeOK
  BY DEF DaemonInv, TypeInv
<1>2. QED
  BY <1>1, DaemonInvariant, PTL

\* Workers, sweep and poller never handle the same entry at once, without a
\* lock on the directory (main.go:30-58, heldpoller.go:34).
THEOREM OneOwnerAlways == Spec => []OneOwner
<1>1. DaemonInv => OneOwner
  BY DEF DaemonInv
<1>2. QED
  BY <1>1, DaemonInvariant, PTL

\* What goes back to its path was judged Normal in this request, or is the
\* file of the row an admin approved (worker.go:60-65, heldpoller.go:43-46).
THEOREM ReleasesAreAuthorised == Spec => []ReleaseAuthorised
<1>1. DaemonInv => ReleaseAuthorised
  <2> SUFFICES ASSUME DaemonInv, NEW a \in Actor, pc[a] \in Restoring, payload[ent[a]] # NoFile
               PROVE  \/ call[a].verdict = "Normal" /\ call[a].content = payload[ent[a]]
                      \/ LET q == mem[a].qid
                         IN  /\ q \in DOMAIN rows
                             /\ rows[q] = [content |-> payload[ent[a]], path |-> mem[a].path,
                                           status |-> "approved"]
    BY DEF ReleaseAuthorised, Restoring
  <2>1. CASE a # HeldPoller
    BY <2>1 DEF DaemonInv, VerdictInv
  <2>2. CASE a = HeldPoller
    <3> DEFINE q == mem[a].qid
    <3>1. /\ mem[a] = meta[ent[a]] /\ mem[a].state = "held" /\ rows[q].status = "approved"
          /\ ent[a] \in Entry
      BY <2>2 DEF DaemonInv, VerdictInv, TypeInv, TypeOK
    <3>2. /\ q \in DOMAIN rows /\ rows[q].path = mem[a].path
          /\ rows[q].content = payload[ent[a]]
      BY <3>1 DEF DaemonInv, HeldRowMatches
    <3>3. rows[q] \in Rows
      BY <3>2 DEF DaemonInv, TypeInv, TypeOK, QuarantineTypeOK
    <3>4. rows[q] = [content |-> rows[q].content, path |-> rows[q].path, status |-> rows[q].status]
      BY <3>3 DEF Rows
    <3>5. QED
      BY <3>1, <3>2, <3>4
  <2>3. QED
    BY <2>1, <2>2
<1>2. QED
  BY <1>1, DaemonInvariant, PTL

\* The sidecar of a held entry names its own row and nobody else's, through
\* submissions, crashes and decisions in any order (worker.go:82-86).
THEOREM HeldRowsMatch == Spec => []HeldRowMatches
<1>1. DaemonInv => HeldRowMatches
  BY DEF DaemonInv
<1>2. QED
  BY <1>1, DaemonInvariant, PTL

\* The startup sweep leaves no entry in "pending_submit" behind but those an
\* operation failed on (main.go:34-38).
THEOREM SweepSkipsNone == Spec => []StuckOnlyAfterFailure
<1>1. DaemonInv => StuckOnlyAfterFailure
  BY DEF DaemonInv, PendingInv, PhaseInv, StuckOnlyAfterFailure
<1>2. QED
  BY <1>1, DaemonInvariant, PTL

\* A daemon at rest has taken every file written while it watched, but those it
\* gave up on: their event fell into an ignore window (watcher.go:73) or was lost
\* with the kernel's queue (watcher.go:48), their directory had no watch
\* (watcher.go:25, 63), or moveFile failed on them (worker.go:43).
THEOREM NothingIsOverlooked == Spec => []QuarantinedUnlessMissed
<1>1. DaemonInv => QuarantinedUnlessMissed
  <2> SUFFICES ASSUME DaemonInv, AtRest, NEW p \in Path \ removable, home[p] \in due, home[p] \notin missed
               PROVE  FALSE
    BY DEF QuarantinedUnlessMissed
  <2>1. timers[p].armed = 0 /\ timers[p].fired = 0
    BY DEF AtRest, NoTimer
  <2>2. ~\E w \in Worker : pc[w] \in Capturing
    BY DEF AtRest, Busy, Actor, Capturing
  <2>3. p \notin events /\ DOMAIN jobs = {} /\ phase = "watching"
    BY DEF AtRest
  <2>4. QED
    BY <2>1, <2>2, <2>3 DEF DaemonInv, DueInv
<1>2. QED
  BY <1>1, DaemonInvariant, PTL

\* A blocked entry is never touched again (meta.go:22): no goroutine has it.
THEOREM BlockedStays == Spec => BlockedIsTerminal
<1>1. ASSUME DaemonInv, [Next]_vars, NEW e \in Entry, meta[e].state = "blocked"
      PROVE  meta'[e] = meta[e] /\ payload'[e] = payload[e]
  <2>1. CASE \E a \in Actor : Acts(a)
    <3>1. PICK a \in Actor : Acts(a)
      BY <2>1
    <3>2. Frame(a)
      BY <1>1, <3>1, ActsStep
    <3>3. Busy(a) => ent[a] # e
      BY <1>1 DEF DaemonInv, OwnInv
    <3>4. QED
      BY <3>2, <3>3 DEF Frame
  <2>2. CASE ~\E a \in Actor : Acts(a)
    <3>1. UNCHANGED << payload, meta >>
      BY <1>1, <2>2, WhoSteps DEF vars, disk, UserWrite, UserRemove, UserMakesFolder, IgnoreExpires,
         Decide, Watcher, HandleEvent, HandleFolder, Fire, Settle, SweepMount, Unseen,
         HandleFolderFails, EventLost, Crash
    <3>2. QED
      BY <3>1
  <2>3. QED
    BY <2>1, <2>2
<1>2. DaemonInv /\ [Next]_vars =>
        [\A e \in Entry : meta[e].state = "blocked" => meta'[e] = meta[e] /\ payload'[e] = payload[e]]_vars
  BY <1>1
<1>3. QED
  BY <1>2, DaemonInvariant, PTL DEF Spec, BlockedIsTerminal

\* The exceptions of BytesLostOnlyByOverwrite.
Overwrites(c) ==
  \E a \in Actor :
    \/ pc[a] \in {"moveBack", "copyBack", "unlinkIn"} /\ home[mem[a].path] = c
    \/ pc[a] = "unlinkBack" /\ payload[ent[a]] = c

\* A goroutine's step loses no content but by overwriting a newer file.
LEMMA ActsLose ==
  ASSUME DaemonInv, NEW a \in Actor, Acts(a), NEW c \in Written, c \in Stored, c \notin Stored'
  PROVE  Overwrites(c)
<1> USE DEF disk, watch, history, bounds
<1>t. /\ home \in [Path -> Files] /\ payload \in [Entry -> Files] /\ ent[a] \in Entry
      /\ Busy(a) => mem[a].path \in Path
  BY DEF DaemonInv, TypeInv, TypeOK, OwnInv, Metas
<1>c. c # NoFile /\ c # Partial
  BY NotAFile, NamesAssumption DEF Written
<1>g. \A p \in Path : home'[p] # c
  BY DEF Stored
<1>h. \A e \in Entry : payload'[e] # c
  BY DEF Stored
<1>i. (\E p \in Path : home[p] = c) \/ (\E e \in Entry : payload[e] = c)
  BY DEF Stored
\* A step that touches neither files nor payloads loses nothing.
<1>0. ASSUME UNCHANGED << home, payload >> PROVE FALSE
  BY <1>0, <1>g, <1>h, <1>i
<1>1. CASE a \in Worker /\ Capture(a)
  <2>1. pc[a] = "quarantine" /\ Busy(a) /\ payload[ent[a]] = NoFile
    BY <1>1 DEF Capture, Busy, DaemonInv, OwnInv
  <2>2. CASE home[mem[a].path] = NoFile
    BY <1>0, <1>1, <2>2 DEF Capture
  <2>3. CASE home[mem[a].path] # NoFile /\ mem[a].path \notin removable
    BY <1>1, <1>t, <1>c, <1>g, <1>h, <1>i, <2>1, <2>3 DEF Capture
  <2>4. CASE home[mem[a].path] # NoFile /\ mem[a].path \in removable
    BY <1>1, <1>t, <1>c, <1>g, <1>h, <1>i, <2>1, <2>4 DEF Capture, OpenIn
  <2>5. QED
    BY <2>2, <2>3, <2>4
<1>2. CASE a \in Worker /\ CopyIn(a)
  <2>1. payload[ent[a]] = Partial /\ home' = home
    BY <1>2 DEF CopyIn, DaemonInv, OwnInv
  <2>2. \A e \in Entry \ {ent[a]} : payload'[e] = payload[e]
    BY <1>2, <1>t DEF CopyIn
  <2>3. QED
    BY <1>c, <1>g, <1>h, <1>i, <2>1, <2>2
<1>3. CASE a \in Worker /\ UnlinkIn(a)
  <2>1. payload' = payload /\ pc[a] = "unlinkIn" /\ \A p \in Path \ {mem[a].path} : home'[p] = home[p]
    BY <1>3, <1>t DEF UnlinkIn
  <2>2. home[mem[a].path] = c
    BY <1>g, <1>h, <1>i, <2>1
  <2>3. QED
    BY <2>1, <2>2 DEF Overwrites
<1>4. CASE MoveBack(a)
  <2>1. pc[a] = "moveBack" /\ Busy(a)
    BY <1>4 DEF MoveBack, Busy
  <2>2. \A p \in Path \ {mem[a].path} : home'[p] = home[p]
    BY <1>4, <1>t DEF MoveBack, OpenBack
  <2>3. \/ payload' = payload
        \/ /\ home'[mem[a].path] = payload[ent[a]]
           /\ \A e \in Entry \ {ent[a]} : payload'[e] = payload[e]
    BY <1>4, <1>t, <2>1 DEF MoveBack, OpenBack
  <2>4. \A e \in Entry : payload[e] # c
    BY <1>t, <1>g, <1>h, <2>1, <2>3
  <2>5. home[mem[a].path] = c
    BY <1>g, <1>i, <2>2, <2>4
  <2>6. QED
    BY <2>1, <2>5 DEF Overwrites
<1>5. CASE CopyBack(a)
  <2>1. payload' = payload /\ pc[a] = "copyBack" /\ \A p \in Path \ {mem[a].path} : home'[p] = home[p]
    BY <1>5, <1>t DEF CopyBack
  <2>2. home[mem[a].path] = c
    BY <1>g, <1>h, <1>i, <2>1
  <2>3. QED
    BY <2>1, <2>2 DEF Overwrites
<1>6. CASE UnlinkBack(a)
  <2>1. home' = home /\ pc[a] = "unlinkBack" /\ \A e \in Entry \ {ent[a]} : payload'[e] = payload[e]
    BY <1>6, <1>t DEF UnlinkBack
  <2>2. payload[ent[a]] = c
    BY <1>g, <1>h, <1>i, <2>1
  <2>3. QED
    BY <2>1, <2>2 DEF Overwrites
<1>7. CASE RemoveEntry(a)
  <2>1. payload[ent[a]] = NoFile
    BY <1>7 DEF RemoveEntry, DaemonInv, OwnInv
  <2>2. home' = home /\ \A e \in Entry \ {ent[a]} : payload'[e] = payload[e]
    BY <1>7, <1>t DEF RemoveEntry
  <2>3. QED
    BY <1>c, <1>g, <1>h, <1>i, <2>1, <2>2
<1>8. CASE \/ TruncateMeta(a) \/ WriteMeta(a) \/ Submit(a) \/ Handle(a) \/ Act(a) \/ MarkReleased(a)
           \/ WriteMetaFails(a) \/ SubmitFails(a)
           \/ a \in Worker /\ TakeJob(a)
  BY <1>0, <1>8 DEF TruncateMeta, WriteMeta, Submit, Handle, Act, MarkReleased, WriteMetaFails,
     SubmitFails, TakeJob
<1>9. CASE \/ a = Main /\ Sweeps
           \/ a = HeldPoller /\ Polls
  BY <1>0, <1>9 DEF Sweeps, Start, StartWatching, SweepVisit, Visit, Polls, PollTick, PollDone,
     PollVisit, PollFails
<1>10. CASE MoveInFails(a)
  <2>1. /\ pc[a] \in Capturing /\ home' = home
        /\ \A e \in Entry \ {ent[a]} : payload'[e] = payload[e]
    BY <1>10, <1>t DEF MoveInFails, Capturing
  <2>2. payload[ent[a]] = Partial \/ payload'[ent[a]] = payload[ent[a]]
    BY <1>10, <1>t DEF MoveInFails, DaemonInv, OwnInv
  <2>3. QED
    BY <1>c, <1>g, <1>h, <1>i, <2>1, <2>2
<1>11. CASE MoveBackFails(a)
  <2>1. /\ payload' = payload
        /\ home' # home => pc[a] = "copyBack"
        /\ \A p \in Path \ {mem[a].path} : home'[p] = home[p]
    BY <1>11, <1>t DEF MoveBackFails
  <2>2. home' # home /\ home[mem[a].path] = c
    BY <1>g, <1>h, <1>i, <2>1
  <2>3. QED
    BY <2>1, <2>2 DEF Overwrites
<1>12. CASE RenameRefused(a) /\ pc[a] = "quarantine"
  <2>1. payload[ent[a]] = NoFile
    BY <1>12 DEF DaemonInv, OwnInv
  <2>2. home' = home /\ \A e \in Entry \ {ent[a]} : payload'[e] = payload[e]
    BY <1>12, <1>t DEF RenameRefused, OpenIn
  <2>3. QED
    BY <1>c, <1>g, <1>h, <1>i, <2>1, <2>2
<1>13. CASE RenameRefused(a) /\ pc[a] = "moveBack"
  <2>1. payload' = payload /\ \A p \in Path \ {mem[a].path} : home'[p] = home[p]
    BY <1>13, <1>t DEF RenameRefused, OpenBack
  <2>2. home[mem[a].path] = c
    BY <1>g, <1>h, <1>i, <2>1
  <2>3. QED
    BY <1>13, <2>2 DEF Overwrites
<1>14. QED
  BY <1>1, <1>2, <1>3, <1>4, <1>5, <1>6, <1>7, <1>8, <1>9, <1>10, <1>11, <1>12, <1>13
     DEF Acts, WorkOn, TakeIn, FailAt, RenameRefused

\* The daemon makes the last copy of a file disappear only by restoring over a
\* newer file or by moveFile's final os.Remove (meta.go:110).
THEOREM BytesAreKept == Spec => BytesLostOnlyByOverwrite
<1>1. ASSUME DaemonInv, [Next]_vars, pc' # pc, NEW c \in (Stored \cap Written) \ Stored'
      PROVE  Overwrites(c)
  <2>1. CASE \E a \in Actor : Acts(a)
    BY <1>1, <2>1, ActsLose
  <2>2. CASE Crash
    <3>1. UNCHANGED << home, payload >>
      BY <2>2 DEF Crash, disk
    <3>2. QED
      BY <1>1, <3>1 DEF Stored
  <2>3. CASE ~(Crash \/ \E a \in Actor : Acts(a))
    <3>1. pc' = pc
      BY <1>1, <2>3, WhoSteps DEF vars, UserWrite, UserRemove, UserMakesFolder, IgnoreExpires,
         Decide, Watcher, HandleEvent, HandleFolder, Fire, Settle, SweepMount, Unseen,
         HandleFolderFails, EventLost
    <3>2. QED
      BY <1>1, <3>1
  <2>4. QED
    BY <2>1, <2>2, <2>3
<1>2. DaemonInv /\ [Next]_vars =>
        [pc' # pc =>
          \A c \in (Stored \cap Written) \ Stored' :
            \E a \in Actor :
              \/ pc[a] \in {"moveBack", "copyBack", "unlinkIn"} /\ home[mem[a].path] = c
              \/ pc[a] = "unlinkBack" /\ payload[ent[a]] = c]_vars
  BY <1>1 DEF Overwrites
<1>3. QED
  BY <1>2, DaemonInvariant, PTL DEF Spec, BytesLostOnlyByOverwrite
===============================================================================
