---------------------------- MODULE DetonationProofs ----------------------------
(***************************************************************************)
(* What Detonation promises, for any runs, samples, traces, rows and        *)
(* admins, and any number of faults.  DetonationInv says of each run how    *)
(* far its handler is (Flow), what its score call holds (Scored), what it   *)
(* holds in Docker (Held) and which rows support its verdict (Grounded);    *)
(* it is inductive because a step of one run leaves the others alone and    *)
(* an approved row stays approved (ApprovalsStay).  Three invariants stand  *)
(* beside it: StagedInv and LeftInv for the temporary files, which runs can *)
(* share, and ReviewInv for the decisions not audited yet.                  *)
(***************************************************************************)
EXTENDS Detonation, FiniteSetTheorems, TLAPS

-------------------------------------------------------------------------------
(* The judgement *)

\* The rules and the order of questions answer every sequence of events.
LEMMA ScoreType ==
  ASSUME NEW known \in BOOLEAN, NEW matches \in BOOLEAN, NEW timedOut \in BOOLEAN, NEW events
  PROVE  Score(known, matches, timedOut, events) \in Entry
<1>1. Judged(events) \in Verdict
  BY DEF Judged, VerdictFromScore, Verdict
<1>2. QED
  BY <1>1 DEF Score, Entry, Verdict

\* The weights add up: no rule, no points; and a rule more never scores less.
LEMMA ScoreByRules ==
  ASSUME NEW events
  PROVE  /\ ScoreEvents(events) \in Nat
         /\ ScoreEvents(events) = 0 => Rules(events) = {}
         /\ \A more : Rules(events) \subseteq Rules(more) =>
              ScoreEvents(events) <= ScoreEvents(more)
<1>1. Rules(events) \subseteq {"child_process", "sensitive_write", "odd_port", "rapid_file_changes"}
  BY DEF Rules, RuleWeights
<1>2. \A e : /\ Points(e, "child_process") = IF "child_process" \in Rules(e) THEN 30 ELSE 0
             /\ Points(e, "sensitive_write") = IF "sensitive_write" \in Rules(e) THEN 25 ELSE 0
             /\ Points(e, "odd_port") = IF "odd_port" \in Rules(e) THEN 20 ELSE 0
             /\ Points(e, "rapid_file_changes") = IF "rapid_file_changes" \in Rules(e) THEN 25 ELSE 0
  BY DEF Points, RuleWeights
<1>3. QED
  BY <1>1, <1>2 DEF ScoreEvents

\* What has been seen of a run trips no rule that all of it does not trip.
LEMMA RulesOfPrefix ==
  ASSUME NEW events \in Seq(Event), NEW k \in 0..Len(events)
  PROVE  Rules(SubSeq(events, 1, k)) \subseteq Rules(events)
<1> DEFINE seen == SubSeq(events, 1, k)
           touched(e) == {i \in DOMAIN e : e[i].type \in {"file_write", "file_delete"}}
<1>1. DOMAIN seen = 1..k /\ DOMAIN events = 1..Len(events) /\ \A i \in 1..k : seen[i] = events[i]
  OBVIOUS
<1> HIDE DEF seen
<1>2. ASSUME NEW type, Notable(seen, type) PROVE Notable(events, type)
  <2>1. PICK i \in 1..k : seen[i] = [type |-> type, notable |-> TRUE]
    BY <1>1, <1>2 DEF Notable
  <2>2. i \in DOMAIN events /\ events[i] = [type |-> type, notable |-> TRUE]
    BY <1>1, <2>1, 1..k \subseteq 1..Len(events)
  <2>3. QED
    BY <2>2 DEF Notable
<1>3. FileChanges(seen) <= FileChanges(events)
  <2>1. touched(seen) \subseteq touched(events) /\ touched(events) \subseteq 1..Len(events)
    BY <1>1
  <2>2. IsFiniteSet(touched(events))
    BY <2>1, FS_Interval, FS_Subset
  <2>3. Cardinality(touched(seen)) <= Cardinality(touched(events))
    <3> HIDE DEF touched
    <3>1. QED
      BY <2>1, <2>2, FS_Subset
  <2>4. QED
    BY <2>3 DEF FileChanges
<1>4. FileChanges(seen) \in Int /\ FileChanges(events) \in Int
  <2>1. touched(seen) \subseteq 1..Len(events) /\ touched(events) \subseteq 1..Len(events)
    BY <1>1
  <2>2. IsFiniteSet(touched(seen)) /\ IsFiniteSet(touched(events))
    <3>1. IsFiniteSet(1..Len(events))
      BY FS_Interval
    <3> HIDE DEF touched
    <3>2. QED
      BY <2>1, <3>1, FS_Subset
  <2>3. Cardinality(touched(seen)) \in Nat /\ Cardinality(touched(events)) \in Nat
    BY <2>2, FS_CardinalityType
  <2>4. QED
    BY <2>3 DEF FileChanges
<1>5. Rules(seen) \subseteq Rules(events)
  BY <1>2, <1>3, <1>4 DEF Rules, RapidFileChangeThreshold
<1>6. QED
  BY <1>5 DEF seen

\* So more events never turn a Compromised into anything else.
LEMMA CompromisedStays ==
  ASSUME NEW events \in Seq(Event), NEW k \in 0..Len(events),
         Judged(SubSeq(events, 1, k)) = "Compromised"
  PROVE  Judged(events) = "Compromised"
<1> DEFINE seen == SubSeq(events, 1, k)
<1>1. seen # << >> /\ ~(ScoreEvents(seen) < 60)
  BY DEF Judged, VerdictFromScore
<1>2. events # << >>
  <2>1. k > 0
    BY <1>1
  <2>2. QED
    BY <2>1
<1>3. Rules(seen) \subseteq Rules(events)
  BY RulesOfPrefix
<1> HIDE DEF seen
<1>4. ScoreEvents(seen) \in Nat /\ ScoreEvents(events) \in Nat /\ ScoreEvents(seen) <= ScoreEvents(events)
  BY <1>3, ScoreByRules
<1>5. QED
  BY <1>1, <1>2, <1>4 DEF Judged, VerdictFromScore

-------------------------------------------------------------------------------
(* The rows an admin reviews *)

\* A proposal adds a row where there was none.
LEMMA ProposeRow ==
  ASSUME NEW table \in [Data -> Row], NEW d \in Data, NEW source \in {"auto", "manual"}
  PROVE  /\ Propose(table, d, source) \in [Data -> Row]
         /\ \A k \in Data : \/ Propose(table, d, source)[k] = table[k]
                            \/ /\ k = d /\ table[k].status = "absent"
                               /\ Propose(table, d, source)[k] = [status |-> "pending", source |-> source]
         /\ \A k \in Data : table[k].status = "approved" =>
              Propose(table, d, source)[k].status = "approved"
         /\ source = "manual" => \A k \in Data :
              Propose(table, d, source)[k].source = "auto" => table[k].source = "auto"
BY DEF Propose, Row, Status, Source

\* A decision ends a pending row.
LEMMA DecideRows ==
  ASSUME NEW table \in [Data -> Row], NEW d \in Data, NEW status \in {"approved", "rejected"},
         Decidable(table, d)
  PROVE  /\ Decide(table, d, status) \in [Data -> Row]
         /\ Decide(table, d, status)[d].status = status /\ table[d].status = "pending"
         /\ \A k \in Data : /\ Decide(table, d, status)[k].source = table[k].source
                            /\ k # d => Decide(table, d, status)[k] = table[k]
BY DEF Decide, Decidable, Row, Status, Source

-------------------------------------------------------------------------------
(* One run.  Nothing in these invariants is about another run.             *)

EngineIdle == {"idle", "triage", "stage", "network", "start", "copy", "stream", "stalled", "score"}

\* Where a handler and its score call are tells what they have found out.
Flow(n) ==
  /\ run[n].pc # "idle" => run[n].data \in Data /\ run[n].name \in Filename
  /\ run[n].pc \in {"idle", "triage", "stage", "network", "start", "copy", "stream", "stalled",
                    "teardown", "unstage"} => ~run[n].matches
  /\ run[n].pc \in {"idle", "triage", "stage", "network", "start", "copy"} =>
       run[n].ran = NoSample
  /\ run[n].pc \in {"stream", "stalled"} => run[n].ran \in Content
  /\ run[n].pc \in EngineIdle => engine[n].pc = "none"
  /\ (run[n].pc \in {"score", "wait"} \/ engine[n].pc # "none") /\ ~run[n].matches =>
       /\ run[n].ran \in Content /\ run[n].ended # "no"
       /\ run[n].seen \in 0..Len(Trace[run[n].ran])
       /\ run[n].ended = "late" => run[n].timedOut
       /\ run[n].ended = "complete" => run[n].seen = Len(Trace[run[n].ran])

\* The engine's entry is what Score says of the run, and is logged before the reply.
Scored(n) ==
  /\ engine[n].pc = "none" => ~engine[n].known
  /\ engine[n].pc \in {"none", "judge"} => engine[n].entry = NoVerdict
  /\ engine[n].entry # NoVerdict =>
       engine[n].entry = Score(engine[n].known, run[n].matches, run[n].timedOut, EventsOf(n))
  /\ engine[n].pc \in {"none", "judge", "append"} => log[n] = NoVerdict
  /\ engine[n].pc \in {"append", "reply"} => engine[n].entry \in Entry
  /\ engine[n].pc = "reply" => log[n] = engine[n].entry
  /\ engine[n].pc = "failed" => log[n] \in {NoVerdict, engine[n].entry}
  /\ run[n].answer \in Verdict => log[n].verdict = run[n].answer

\* Docker holds nothing for the run but between CreateNetwork and Teardown, and
\* Teardown knows the container it is to remove.
Held(n) ==
  n \notin excused =>
    /\ run[n].pc \in {"idle", "triage", "stage", "network", "unstage", "done"} \/ run[n].matches =>
         n \notin nets /\ box[n] = "none"
    /\ run[n].pc = "start" => box[n] = "none"
    /\ run[n].pc \in {"copy", "stream", "stalled", "score", "wait", "teardown"}
         /\ ~run[n].matches => run[n].container
    /\ run[n].pc # "hung"

\* What the lookup and the static triage have found is still in the tables.
Grounded(n) ==
  /\ engine[n].known => hashes[run[n].data].status = "approved"
  /\ run[n].matches =>
       \/ run[n].data \in Yara
       \/ \E k \in Alike[run[n].data] : corpus[k].status = "approved"

RunInv(n) == Flow(n) /\ Scored(n) /\ Held(n) /\ Grounded(n)

DetonationInv == TypeOK /\ \A n \in Run : RunInv(n)

\* Nobody takes an approval back.
ApprovalsStay ==
  \A d \in Data : /\ hashes[d].status = "approved" => hashes'[d].status = "approved"
                  /\ corpus[d].status = "approved" => corpus'[d].status = "approved"

\* A step that is not the run's.
LEMMA Untouched ==
  ASSUME NEW n \in Run, TypeOK, RunInv(n), ApprovalsStay,
         run'[n] = run[n], engine'[n] = engine[n], log'[n] = log[n],
         n \in nets' <=> n \in nets, box'[n] = box[n], n \in excused => n \in excused'
  PROVE  RunInv(n)'
<1>1. Flow(n)'
  BY DEF RunInv, Flow
<1>2. Scored(n)'
  BY DEF RunInv, Scored, EventsOf
<1>3. Held(n)'
  BY DEF RunInv, Held
<1>4. Grounded(n)'
  <2>1. engine[n].known => run[n].data \in Data
    BY DEF RunInv, Flow, Scored, EngineIdle
  <2>2. run[n].matches => Alike[run[n].data] \subseteq Data
    BY DetonationAssumption DEF RunInv, Flow
  <2>3. QED
    BY <2>1, <2>2 DEF RunInv, Grounded, ApprovalsStay
<1>5. QED
  BY <1>1, <1>2, <1>3, <1>4 DEF RunInv

\* What a handler keeps while it goes from one call to the next.
Keeps(n) ==
  /\ run'[n].data = run[n].data /\ run'[n].name = run[n].name /\ run'[n].source = run[n].source
  /\ run'[n].matches = run[n].matches
Carries(n) ==
  /\ run'[n].ran = run[n].ran /\ run'[n].seen = run[n].seen
  /\ run'[n].timedOut = run[n].timedOut /\ run'[n].ended = run[n].ended

Stops == {"idle", "triage", "stage", "network", "start", "copy", "stream", "stalled", "score",
          "wait", "teardown", "unstage", "done", "dead", "hung"}

\* All but one field of a handler's record stay.
LEMMA PcSet ==
  ASSUME NEW h \in Handling, NEW pc \in Stops
  PROVE  LET r == [h EXCEPT !.pc = pc]
         IN  /\ r \in Handling /\ r.pc = pc
             /\ r.data = h.data /\ r.name = h.name /\ r.source = h.source /\ r.matches = h.matches
             /\ r.container = h.container /\ r.ran = h.ran /\ r.seen = h.seen
             /\ r.timedOut = h.timedOut /\ r.ended = h.ended /\ r.answer = h.answer
<1> DEFINE r == [h EXCEPT !.pc = pc]
<1>1. r \in Handling
  BY DEF Handling, Stops
<1>2. /\ r.pc = pc /\ r.data = h.data /\ r.name = h.name /\ r.source = h.source
      /\ r.ran = h.ran /\ r.seen = h.seen /\ r.ended = h.ended /\ r.answer = h.answer
  BY DEF Handling
<1>3. r.matches = h.matches /\ r.container = h.container /\ r.timedOut = h.timedOut
  BY DEF Handling
<1>4. QED
  BY <1>1, <1>2, <1>3

\* Going on to the next call changes nothing else of a handler.
LEMMA GotoStep ==
  ASSUME run \in [Run -> Handling], NEW n \in Run, NEW pc \in Stops, Goto(n, pc)
  PROVE  /\ run' \in [Run -> Handling] /\ run'[n].pc = pc /\ Keeps(n) /\ Carries(n)
         /\ run'[n].container = run[n].container /\ run'[n].answer = run[n].answer
<1> DEFINE r == [run[n] EXCEPT !.pc = pc]
<1>1. /\ r \in Handling /\ r.pc = pc /\ r.answer = run[n].answer
      /\ r.data = run[n].data /\ r.name = run[n].name /\ r.source = run[n].source
      /\ r.matches = run[n].matches /\ r.container = run[n].container /\ r.ran = run[n].ran
      /\ r.seen = run[n].seen /\ r.timedOut = run[n].timedOut /\ r.ended = run[n].ended
  BY PcSet
<1>2. run' = [run EXCEPT ![n] = r]
  BY DEF Goto
<1> HIDE DEF r
<1>3. QED
  BY <1>1, <1>2 DEF Keeps, Carries

\* A failing handler goes on with an error as its answer, and nothing else.
LEMMA FailsStep ==
  ASSUME run \in [Run -> Handling], NEW n \in Run, NEW pc \in Stops, Fails(n, pc)
  PROVE  /\ run' \in [Run -> Handling] /\ run'[n].pc = pc /\ Keeps(n) /\ Carries(n)
         /\ run'[n].container = run[n].container /\ run'[n].answer = "error"
<1> DEFINE h == [run[n] EXCEPT !.pc = pc]
           r == [h EXCEPT !.answer = "error"]
<1>1. /\ h \in Handling /\ h.pc = pc
      /\ h.data = run[n].data /\ h.name = run[n].name /\ h.source = run[n].source
      /\ h.matches = run[n].matches /\ h.container = run[n].container /\ h.ran = run[n].ran
      /\ h.seen = run[n].seen /\ h.timedOut = run[n].timedOut /\ h.ended = run[n].ended
  BY PcSet
<1>2. run' = [run EXCEPT ![n] = r]
  BY DEF Fails
<1> HIDE DEF h
<1>3. r \in Handling /\ r.answer = "error" /\ r.pc = h.pc
  BY <1>1 DEF Handling
<1>4. /\ r.data = h.data /\ r.name = h.name /\ r.source = h.source
      /\ r.ran = h.ran /\ r.seen = h.seen /\ r.ended = h.ended
  BY <1>1 DEF Handling
<1>5. r.matches = h.matches /\ r.container = h.container /\ r.timedOut = h.timedOut
  BY <1>1 DEF Handling
<1> HIDE DEF r
<1>6. QED
  BY <1>1, <1>2, <1>3, <1>4, <1>5 DEF Keeps, Carries

\* Triage notes what YARA found and decides what comes next.
LEMMA TriagedStep ==
  ASSUME run \in [Run -> Handling], NEW n \in Run, NEW found \in BOOLEAN, Triaged(n, found)
  PROVE  /\ run' \in [Run -> Handling] /\ run'[n].pc = (IF found THEN "score" ELSE "stage")
         /\ run'[n].data = run[n].data /\ run'[n].name = run[n].name
         /\ run'[n].source = run[n].source /\ run'[n].matches = found /\ Carries(n) /\ run'[n].answer = run[n].answer
<1> DEFINE r == [[run[n] EXCEPT !.matches = found] EXCEPT !.pc = IF found THEN "score" ELSE "stage"]
<1>1. r \in Handling
  <2>1. [run[n] EXCEPT !.matches = found] \in Handling
    BY DEF Handling
  <2>2. QED
    BY <2>1, PcSet DEF Stops
<1>2. r.pc = (IF found THEN "score" ELSE "stage")
  BY DEF Handling
<1>3. r.matches = found /\ r.timedOut = run[n].timedOut
  BY DEF Handling
<1>4. /\ r.data = run[n].data /\ r.name = run[n].name /\ r.source = run[n].source
      /\ r.ran = run[n].ran /\ r.seen = run[n].seen
      /\ r.ended = run[n].ended /\ r.answer = run[n].answer
  BY DEF Handling
<1>5. run' = [run EXCEPT ![n] = r]
  BY DEF Triaged
<1> HIDE DEF r
<1>6. QED
  BY <1>1, <1>2, <1>3, <1>4, <1>5 DEF Carries

\* The end of the stream notes what was seen, how it ended and whether it was late.
LEMMA StreamStep ==
  ASSUME run \in [Run -> Handling], NEW n \in Run, NEW k \in Nat,
         NEW how \in {"complete", "early", "late"}, StreamOver(n, k, how)
  PROVE  /\ run' \in [Run -> Handling] /\ run'[n].pc = "score" /\ Keeps(n)
         /\ run'[n].ran = run[n].ran /\ run'[n].seen = k
         /\ run'[n].ended = how /\ run'[n].timedOut = (how = "late")
         /\ run'[n].container = run[n].container /\ run'[n].answer = run[n].answer
<1> DEFINE late == how = "late"
<1> DEFINE r == [[[[run[n] EXCEPT !.pc = "score"] EXCEPT !.seen = k] EXCEPT !.ended = how]
                   EXCEPT !.timedOut = late]
<1>1. r \in Handling
  <2>1. [run[n] EXCEPT !.pc = "score"] \in Handling
    BY PcSet DEF Stops
  <2>2. ASSUME NEW h \in Handling PROVE [h EXCEPT !.seen = k] \in Handling
    BY DEF Handling
  <2>3. ASSUME NEW h \in Handling PROVE [h EXCEPT !.ended = how] \in Handling
    <3>1. how \in {"no", "complete", "early", "late"}
      OBVIOUS
    <3>2. QED
      BY <3>1 DEF Handling
  <2>4. ASSUME NEW h \in Handling PROVE [h EXCEPT !.timedOut = late] \in Handling
    BY DEF Handling
  <2>5. QED
    BY <2>1, <2>2, <2>3, <2>4
<1>2. r.pc = "score" /\ r.seen = k /\ r.ended = how
  BY DEF Handling
<1>3. r.timedOut = late
  BY DEF Handling
<1>4. /\ r.data = run[n].data /\ r.name = run[n].name /\ r.source = run[n].source
      /\ r.ran = run[n].ran /\ r.answer = run[n].answer
  BY DEF Handling
<1>5. r.matches = run[n].matches /\ r.container = run[n].container
  BY DEF Handling
<1>6. run' = [run EXCEPT ![n] = r]
  BY DEF StreamOver
<1> HIDE DEF r
<1>7. QED
  BY <1>1, <1>2, <1>3, <1>4, <1>5, <1>6 DEF Keeps

\* A handler moves its own run.
LEMMA HandlerFrame ==
  ASSUME TypeOK, NEW n \in Run, Submit(n) \/ Handler(n)
  PROVE  /\ UNCHANGED << hashes, corpus, log, review, decisions >>
         /\ \A m \in Run \ {n} : /\ run'[m] = run[m] /\ engine'[m] = engine[m]
                                 /\ m \in nets' <=> m \in nets
                                 /\ box'[m] = box[m]
         /\ excused \subseteq excused' /\ excused' \subseteq excused \cup {n}
<1> USE DEF TypeOK, docker, tables, admins, Fault, Goto, Fails
<1>1. CASE Submit(n)
  BY <1>1 DEF Submit
<1>2. CASE Triage(n) \/ TriageFails(n)
  BY <1>2 DEF Triage, TriageFails, Triaged
<1>3. CASE Stage(n) \/ StageFails(n)
  BY <1>3 DEF Stage, StageFails
<1>4. CASE CreateNetwork(n) \/ NetworkFails(n)
  BY <1>4 DEF CreateNetwork, NetworkFails
<1>5. CASE StartShadowContainer(n) \/ StartFails(n)
  BY <1>5 DEF StartShadowContainer, StartFails
<1>6. CASE CopyFile(n) \/ ExecFails(n) \/ CallHangs(n)
  BY <1>6 DEF CopyFile, ExecFails, CallHangs
<1>7. CASE StreamEnds(n) \/ SensorKills(n) \/ StreamStalls(n) \/ StreamStopped(n) \/ StreamCut(n)
  BY <1>7 DEF StreamEnds, SensorKills, StreamStalls, StreamStopped, StreamCut, StreamOver
<1>8. CASE PostScore(n) \/ ScoreReturns(n) \/ ScoreFails(n) \/ ScoreGivenUp(n)
  BY <1>8 DEF PostScore, ScoreReturns, ScoreFails, ScoreGivenUp
<1>9. CASE Teardown(n) \/ TeardownFails(n)
  BY <1>9 DEF Teardown, TeardownFails, RemovedNet
<1>10. CASE Unstage(n)
  BY <1>10 DEF Unstage
<1>11. QED
  BY <1>1, <1>2, <1>3, <1>4, <1>5, <1>6, <1>7, <1>8, <1>9, <1>10 DEF Handler

\* While the engine's call is as it was, so is what is known of it.
LEMMA ScoredStays ==
  ASSUME NEW n \in Run, RunInv(n), UNCHANGED << engine, log, hashes, corpus >>,
         Keeps(n), Carries(n), run'[n].answer \in {run[n].answer, "error"}
  PROVE  Scored(n)' /\ Grounded(n)'
<1>1. Scored(n)'
  BY DEF RunInv, Scored, EventsOf, Keeps, Carries, Verdict
<1>2. Grounded(n)'
  BY DEF RunInv, Grounded, Keeps
<1>3. QED
  BY <1>1, <1>2

\* Before the call there is nothing to know.
LEMMA NotYetScored ==
  ASSUME NEW n \in Run, RunInv(n), engine[n].pc = "none", UNCHANGED << engine, log >>,
         run'[n].answer \in {run[n].answer, "error"}
  PROVE  Scored(n)'
BY DEF RunInv, Scored, Verdict

\* Every step of a handler is one its run may take.
LEMMA HandlerStep ==
  ASSUME DetonationInv, NEW n \in Run, Submit(n) \/ Handler(n)
  PROVE  TypeOK' /\ RunInv(n)'
<1> USE DEF docker, tables, admins
<1>t. /\ run \in [Run -> Handling] /\ engine \in [Run -> ScoreCall]
      /\ staged \in [Filename -> Content \cup {NoFile}]
      /\ nets \subseteq Run
      /\ box \in [Run -> {"none", "created", "running"}]
      /\ hashes \in [Data -> Row] /\ corpus \in [Data -> Row]
      /\ log \in [Run -> Entry \cup {NoVerdict}]
      /\ review \in [Admin -> Decision \cup {NoReview}]
      /\ decisions \subseteq Decision
      /\ shared \in BOOLEAN /\ excused \subseteq Run /\ faults \in 0..MaxFaults
      /\ MaxFaults \in Nat
  BY DetonationAssumption DEF DetonationInv, TypeOK
<1>i. RunInv(n) /\ Flow(n) /\ Scored(n) /\ Held(n) /\ Grounded(n)
  BY DEF DetonationInv, RunInv
<1>u. UNCHANGED << hashes, corpus, log, review, decisions >>
  BY HandlerFrame DEF DetonationInv
<1>f. ASSUME Fault PROVE faults' \in 0..MaxFaults
  BY <1>t, <1>f DEF Fault
<1>1. CASE Submit(n)
  <2>1. run[n].pc = "idle" /\ UNCHANGED << engine, staged, nets, box, shared, excused, faults >>
    BY <1>1 DEF Submit
  <2>2. PICK d \in Data, f \in Filename, s \in Origin :
          run' = [run EXCEPT ![n].pc = "triage", ![n].data = d, ![n].name = f, ![n].source = s]
    <3>1. PICK x \in Submitted, f \in Filename :
            run' = [run EXCEPT ![n].pc = "triage", ![n].data = x[1], ![n].name = f,
                               ![n].source = x[2]]
      BY <1>1 DEF Submit
    <3>2. x[1] \in Data /\ x[2] \in Origin
      BY DetonationAssumption
    <3>3. QED
      BY <3>1, <3>2
  <2> DEFINE r == [[[[run[n] EXCEPT !.pc = "triage"] EXCEPT !.data = d] EXCEPT !.name = f]
                   EXCEPT !.source = s]
  <2>3. r \in Handling
    <3>1. ASSUME NEW h \in Handling
          PROVE  [[[[h EXCEPT !.pc = "triage"] EXCEPT !.data = d] EXCEPT !.name = f]
                   EXCEPT !.source = s] \in Handling
      BY DEF Handling
    <3>2. QED
      BY <1>t, <3>1
  <2>4. /\ r.pc = "triage" /\ r.data = d /\ r.name = f
        /\ r.ran = run[n].ran /\ r.answer = run[n].answer
    BY <1>t DEF Handling
  <2>5. r.matches = run[n].matches
    BY <1>t DEF Handling
  <2>6. run' = [run EXCEPT ![n] = r]
    BY <2>2
  <2> HIDE DEF r
  <2>7. /\ run' \in [Run -> Handling] /\ run'[n].pc = "triage" /\ run'[n].data \in Data
        /\ run'[n].name \in Filename /\ run'[n].ran = run[n].ran
        /\ run'[n].matches = run[n].matches /\ run'[n].answer = run[n].answer
    BY <1>t, <2>3, <2>4, <2>5, <2>6
  <2>8. engine[n].pc = "none"
    BY <1>i, <2>1 DEF Flow, EngineIdle
  <2>9. Flow(n)' /\ Held(n)'
    BY <1>i, <2>1, <2>7, <2>8 DEF Flow, Held, EngineIdle
  <2>10. Grounded(n)'
    BY <1>i, <2>1, <2>7, <2>8 DEF Flow, Scored, Grounded
  <2>11. Scored(n)'
    BY <1>i, <1>u, <2>1, <2>7, <2>8, NotYetScored
  <2>12. QED
    BY <1>t, <1>u, <2>1, <2>7, <2>9, <2>10, <2>11 DEF TypeOK, RunInv
<1>2. CASE Triage(n) \/ TriageFails(n)
  <2>1. /\ run[n].pc = "triage" /\ UNCHANGED << engine, staged, nets, box, shared, excused >>
        /\ faults' \in 0..MaxFaults
    BY <1>2, <1>t, <1>f DEF Triage, TriageFails
  <2>2. PICK found \in BOOLEAN : /\ Triaged(n, found)
                                 /\ found => ByYara(run[n].data) \/ ByCorpus(run[n].data)
    <3> DEFINE yara == ByYara(run[n].data)
               similar == ByCorpus(run[n].data)
    <3>1. yara \in BOOLEAN /\ similar \in BOOLEAN
      BY DEF ByYara, ByCorpus
    <3>2. CASE Triage(n)
      <4> DEFINE both == yara \/ similar
      <4>1. Triaged(n, both)
        BY <3>2 DEF Triage
      <4>2. both \in BOOLEAN
        BY Zenon
      <4>3. both => yara \/ similar
        BY Zenon
      <4> HIDE DEF both
      <4>4. QED
        BY <4>1, <4>2, <4>3
    <3>3. CASE TriageFails(n)
      <4>1. \E found \in {yara, similar, FALSE} : Triaged(n, found)
        BY <3>3 DEF TriageFails
      <4> HIDE DEF yara, similar
      <4>2. PICK found \in {yara, similar, FALSE} : Triaged(n, found)
        BY <4>1
      <4>3. found \in BOOLEAN
        BY <3>1, Zenon
      <4>4. found => yara \/ similar
        BY Zenon
      <4>5. QED
        BY <4>2, <4>3, <4>4 DEF yara, similar
    <3>4. QED
      BY <1>2, <3>2, <3>3
  <2>3. /\ run' \in [Run -> Handling] /\ run'[n].pc = (IF found THEN "score" ELSE "stage")
        /\ run'[n].data = run[n].data /\ run'[n].name = run[n].name
        /\ run'[n].matches = found /\ Carries(n) /\ run'[n].answer = run[n].answer
    BY <1>t, <2>2, TriagedStep
  <2>4. engine[n].pc = "none"
    BY <1>i, <2>1 DEF Flow, EngineIdle
  <2>5. Flow(n)' /\ Held(n)'
    BY <1>i, <2>1, <2>3, <2>4 DEF Flow, Held, EngineIdle, Carries
  <2>6. Grounded(n)'
    BY <1>i, <1>u, <2>1, <2>2, <2>3, <2>4 DEF Scored, Grounded, ByYara, ByCorpus, Matches
  <2>7. Scored(n)'
    BY <1>i, <1>u, <2>1, <2>3, <2>4, NotYetScored
  <2>8. QED
    BY <1>t, <1>u, <2>1, <2>3, <2>5, <2>6, <2>7 DEF TypeOK, RunInv
\* The calls that only go to the next one, or fail.
<1>3. ASSUME NEW pc \in Stops, Goto(n, pc) \/ Fails(n, pc), UNCHANGED engine
      PROVE  /\ run' \in [Run -> Handling] /\ run'[n].pc = pc /\ Keeps(n) /\ Carries(n)
             /\ run'[n].container = run[n].container
             /\ Scored(n)' /\ Grounded(n)'
  <2>1. /\ run' \in [Run -> Handling] /\ run'[n].pc = pc /\ Keeps(n) /\ Carries(n)
        /\ run'[n].container = run[n].container /\ run'[n].answer \in {run[n].answer, "error"}
    BY <1>t, <1>3, GotoStep, FailsStep
  <2>2. QED
    BY <1>i, <1>u, <1>3, <2>1, ScoredStays
<1>4. CASE Stage(n) \/ StageFails(n)
  <2>1. /\ run[n].pc = "stage" /\ UNCHANGED << engine, nets, box >>
        /\ faults' \in 0..MaxFaults /\ shared' \in BOOLEAN
        /\ \/ Goto(n, "network") /\ excused' = excused
           \/ Fails(n, "done") /\ excused' = excused \cup {n}
    BY <1>4, <1>t, <1>f DEF Stage, StageFails
  <2>2. staged' \in [Filename -> Content \cup {NoFile}]
    BY <1>4, <1>t, <1>i, <2>1 DEF Stage, StageFails, Flow, Content
  <2>3. /\ run' \in [Run -> Handling] /\ run'[n].pc \in {"network", "done"}
        /\ run'[n].pc = "done" => n \in excused'
        /\ Keeps(n) /\ Carries(n) /\ Scored(n)' /\ Grounded(n)'
    BY <1>3, <2>1 DEF Stops
  <2>4. Flow(n)' /\ Held(n)'
    BY <1>i, <2>1, <2>3 DEF Flow, Held, EngineIdle, Keeps, Carries
  <2>5. QED
    BY <1>t, <1>u, <2>1, <2>2, <2>3, <2>4 DEF TypeOK, RunInv
<1>5. CASE CreateNetwork(n) \/ NetworkFails(n)
  <2>1. /\ run[n].pc = "network" /\ UNCHANGED << engine, staged, box, shared >>
        /\ faults' \in 0..MaxFaults /\ nets' \subseteq Run
        /\ \/ Goto(n, "start") /\ excused' = excused
           \/ Fails(n, "unstage") /\ excused' = excused \cup {n}
    BY <1>5, <1>t, <1>f DEF CreateNetwork, NetworkFails
  <2>2. /\ run' \in [Run -> Handling] /\ run'[n].pc \in {"start", "unstage"}
        /\ run'[n].pc = "unstage" => n \in excused'
        /\ Keeps(n) /\ Carries(n) /\ Scored(n)' /\ Grounded(n)'
    BY <1>3, <2>1 DEF Stops
  <2>3. Flow(n)'
    BY <1>i, <2>1, <2>2 DEF Flow, EngineIdle, Keeps, Carries
  <2>4. Held(n)'
    BY <1>i, <2>1, <2>2 DEF Flow, Held, Keeps
  <2>5. QED
    BY <1>t, <1>u, <2>1, <2>2, <2>3, <2>4 DEF TypeOK, RunInv
<1>6. CASE StartShadowContainer(n)
  <2>1. /\ run[n].pc = "start" /\ UNCHANGED << engine, staged, nets, shared, excused, faults >>
        /\ box' \in [Run -> {"none", "created", "running"}]
    BY <1>6, <1>t DEF StartShadowContainer
  <2> DEFINE r == [[run[n] EXCEPT !.pc = "copy"] EXCEPT !.container = TRUE]
  <2>2. r \in Handling
    <3>1. ASSUME NEW h \in Handling
          PROVE  [[h EXCEPT !.pc = "copy"] EXCEPT !.container = TRUE] \in Handling
      BY DEF Handling
    <3>2. QED
      BY <1>t, <3>1
  <2>3. /\ r.pc = "copy" /\ r.data = run[n].data /\ r.name = run[n].name /\ r.source = run[n].source
        /\ r.ran = run[n].ran /\ r.seen = run[n].seen /\ r.ended = run[n].ended
        /\ r.answer = run[n].answer
    BY <1>t DEF Handling
  <2>4. r.container = TRUE /\ r.matches = run[n].matches /\ r.timedOut = run[n].timedOut
    BY <1>t DEF Handling
  <2>5. run' = [run EXCEPT ![n] = r]
    BY <1>6 DEF StartShadowContainer
  <2> HIDE DEF r
  <2>6. /\ run' \in [Run -> Handling] /\ run'[n].pc = "copy" /\ Keeps(n) /\ Carries(n)
        /\ run'[n].container = TRUE /\ run'[n].answer = run[n].answer
    BY <1>t, <2>2, <2>3, <2>4, <2>5 DEF Keeps, Carries
  <2>7. Scored(n)' /\ Grounded(n)'
    BY <1>i, <1>u, <2>1, <2>6, ScoredStays
  <2>8. Flow(n)' /\ Held(n)'
    BY <1>i, <2>1, <2>6 DEF Flow, Held, EngineIdle, Keeps, Carries
  <2>9. QED
    BY <1>t, <1>u, <2>1, <2>6, <2>7, <2>8 DEF TypeOK, RunInv
<1>7. CASE StartFails(n)
  <2>1. /\ run[n].pc = "start" /\ UNCHANGED << engine, staged, nets, shared >>
        /\ faults' \in 0..MaxFaults /\ box' \in [Run -> {"none", "created", "running"}]
        /\ Fails(n, "teardown") /\ excused' = excused \cup {n}
    BY <1>7, <1>t, <1>f DEF StartFails
  <2>2. /\ run' \in [Run -> Handling] /\ run'[n].pc = "teardown"
        /\ Keeps(n) /\ Carries(n) /\ Scored(n)' /\ Grounded(n)'
    BY <1>3, <2>1 DEF Stops
  <2>3. Flow(n)' /\ Held(n)'
    BY <1>i, <2>1, <2>2 DEF Flow, Held, EngineIdle, Keeps, Carries
  <2>4. QED
    BY <1>t, <1>u, <2>1, <2>2, <2>3 DEF TypeOK, RunInv
\* The container is there, and the call fails.
<1>8. ASSUME run[n].pc \in {"copy", "stream"}, Fails(n, "teardown"),
             UNCHANGED << engine, staged, nets, box, shared, excused >>, faults' \in 0..MaxFaults
      PROVE  TypeOK' /\ RunInv(n)'
  <2>1. /\ run' \in [Run -> Handling] /\ run'[n].pc = "teardown" /\ Keeps(n) /\ Carries(n)
        /\ run'[n].container = run[n].container /\ Scored(n)' /\ Grounded(n)'
    BY <1>3, <1>8 DEF Stops
  <2>2. Flow(n)' /\ Held(n)'
    BY <1>i, <1>8, <2>1 DEF Flow, Held, EngineIdle, Keeps, Carries
  <2>3. QED
    BY <1>t, <1>u, <1>8, <2>1, <2>2 DEF TypeOK, RunInv
<1>9. CASE CopyFile(n)
  <2>1. run[n].pc = "copy" /\ UNCHANGED << engine, staged, nets, box, shared, excused, faults >>
    BY <1>9 DEF CopyFile
  <2> DEFINE c == staged[run[n].name]
  <2>2. CASE c = NoFile
    BY <1>8, <1>9, <1>t, <2>1, <2>2 DEF CopyFile
  <2>3. CASE c # NoFile
    <3> DEFINE r == [[run[n] EXCEPT !.pc = "stream"] EXCEPT !.ran = c]
    <3>1. c \in Content
      BY <1>t, <1>i, <2>1, <2>3 DEF Flow
    <3>2. r \in Handling
      <4>1. ASSUME NEW h \in Handling
            PROVE  [[h EXCEPT !.pc = "stream"] EXCEPT !.ran = c] \in Handling
        BY <3>1 DEF Handling
      <4>2. QED
        BY <1>t, <4>1
    <3>3. /\ r.pc = "stream" /\ r.data = run[n].data /\ r.name = run[n].name /\ r.ran = c
          /\ r.answer = run[n].answer
      BY <1>t DEF Handling
    <3>4. r.container = run[n].container /\ r.matches = run[n].matches
      BY <1>t DEF Handling
    <3>5. run' = [run EXCEPT ![n] = r]
      BY <1>9, <2>3 DEF CopyFile
    <3> HIDE DEF r, c
    <3>6. /\ run' \in [Run -> Handling] /\ run'[n].pc = "stream" /\ run'[n].data = run[n].data
          /\ run'[n].name = run[n].name /\ run'[n].matches = run[n].matches
          /\ run'[n].ran \in Content
          /\ run'[n].container = run[n].container /\ run'[n].answer = run[n].answer
      BY <1>t, <3>1, <3>2, <3>3, <3>4, <3>5
    <3>7. engine[n].pc = "none"
      BY <1>i, <2>1 DEF Flow, EngineIdle
    <3>8. Flow(n)' /\ Held(n)'
      BY <1>i, <2>1, <3>6, <3>7 DEF Flow, Held, EngineIdle
    <3>9. Scored(n)'
      BY <1>i, <1>u, <2>1, <3>6, <3>7, NotYetScored
    <3>10. Grounded(n)'
      BY <1>i, <1>u, <2>1, <3>6 DEF Grounded
    <3>11. QED
      BY <1>t, <1>u, <2>1, <3>6, <3>8, <3>9, <3>10 DEF TypeOK, RunInv
  <2>4. QED
    BY <2>2, <2>3
<1>10. CASE ExecFails(n)
  BY <1>8, <1>10, <1>f DEF ExecFails
<1>hang. CASE CallHangs(n)
  <2>1. /\ run[n].pc \in {"copy", "teardown"} /\ UNCHANGED << engine, staged, nets, box, shared >>
        /\ faults' \in 0..MaxFaults /\ Goto(n, "hung") /\ excused' = excused \cup {n}
    BY <1>hang, <1>t, <1>f DEF CallHangs
  <2>2. /\ run' \in [Run -> Handling] /\ run'[n].pc = "hung" /\ Keeps(n) /\ Carries(n)
        /\ Scored(n)' /\ Grounded(n)'
    BY <1>3, <2>1 DEF Stops
  <2>3. Flow(n)' /\ Held(n)'
    BY <1>i, <2>1, <2>2 DEF Flow, Held, EngineIdle, Keeps, Carries
  <2>4. QED
    BY <1>t, <1>u, <2>1, <2>2, <2>3 DEF TypeOK, RunInv
<1>stall. CASE StreamStalls(n)
  <2>1. /\ run[n].pc = "stream" /\ UNCHANGED << engine, staged, nets, box, shared, excused >>
        /\ faults' \in 0..MaxFaults /\ Goto(n, "stalled")
    BY <1>stall, <1>t, <1>f DEF StreamStalls
  <2>2. /\ run' \in [Run -> Handling] /\ run'[n].pc = "stalled" /\ Keeps(n) /\ Carries(n)
        /\ run'[n].container = run[n].container /\ Scored(n)' /\ Grounded(n)'
    BY <1>3, <2>1 DEF Stops
  <2>3. Flow(n)' /\ Held(n)'
    BY <1>i, <2>1, <2>2 DEF Flow, Held, EngineIdle, Keeps, Carries
  <2>4. QED
    BY <1>t, <1>u, <2>1, <2>2, <2>3 DEF TypeOK, RunInv
<1>11. CASE StreamEnds(n) \/ SensorKills(n) \/ StreamStopped(n) \/ StreamCut(n)
  <2>1. /\ run[n].pc \in {"stream", "stalled"}
        /\ UNCHANGED << engine, staged, nets, box, shared, excused >>
        /\ faults' \in 0..MaxFaults
    BY <1>11, <1>t, <1>f DEF StreamEnds, SensorKills, StreamStopped, StreamCut
  <2>2. run[n].ran \in Content /\ Len(Trace[run[n].ran]) \in Nat
    BY <1>i, <2>1, DetonationAssumption DEF Flow
  <2>3. PICK k \in 0..Len(Trace[run[n].ran]), how \in {"complete", "early", "late"} :
          /\ StreamOver(n, k, how)
          /\ how = "complete" => k = Len(Trace[run[n].ran])
    <3>1. CASE StreamEnds(n)
      <4>1. StreamOver(n, Len(Trace[run[n].ran]), "complete")
        BY <3>1 DEF StreamEnds
      <4>2. QED
        BY <2>2, <4>1
    <3>2. CASE SensorKills(n) \/ StreamCut(n)
      BY <3>2 DEF SensorKills, StreamCut, Seen
    <3>3. CASE StreamStopped(n)
      BY <3>3 DEF StreamStopped, Seen
    <3>4. QED
      BY <1>11, <3>1, <3>2, <3>3
  <2>4. /\ run' \in [Run -> Handling] /\ run'[n].pc = "score" /\ Keeps(n)
        /\ run'[n].ran = run[n].ran /\ run'[n].seen = k
        /\ run'[n].ended = how /\ run'[n].timedOut = (how = "late")
        /\ run'[n].container = run[n].container /\ run'[n].answer = run[n].answer
    BY <1>t, <2>2, <2>3, StreamStep
  <2>5. engine[n].pc = "none"
    BY <1>i, <2>1 DEF Flow, EngineIdle
  <2>6. Flow(n)'
    BY <1>i, <2>1, <2>2, <2>3, <2>4, <2>5 DEF Flow, EngineIdle, Keeps
  <2>7. Held(n)'
    BY <1>i, <2>1, <2>4 DEF Flow, Held, Keeps
  <2>8. Scored(n)'
    BY <1>i, <1>u, <2>1, <2>4, <2>5, NotYetScored
  <2>9. Grounded(n)'
    BY <1>i, <1>u, <2>1, <2>4 DEF Grounded, Keeps
  <2>10. QED
    BY <1>t, <1>u, <2>1, <2>4, <2>6, <2>7, <2>8, <2>9 DEF TypeOK, RunInv
<1>12. CASE PostScore(n)
  <2>1. run[n].pc = "score" /\ UNCHANGED << staged, nets, box, shared, excused, faults >>
    BY <1>12 DEF PostScore
  <2>2. engine[n].pc = "none" /\ engine[n].entry = NoVerdict /\ log[n] = NoVerdict
    BY <1>i, <2>1 DEF Flow, Scored, EngineIdle
  <2>3. /\ run' \in [Run -> Handling] /\ run'[n].pc = "wait" /\ Keeps(n) /\ Carries(n)
        /\ run'[n].container = run[n].container /\ run'[n].answer = run[n].answer
    BY <1>12, <1>t, GotoStep DEF PostScore, Stops
  <2> DEFINE known == hashes[run[n].data].status = "approved"
             e == [[engine[n] EXCEPT !.pc = "judge"] EXCEPT !.known = known]
  <2>4. e \in ScoreCall
    <3>1. ASSUME NEW h \in ScoreCall, NEW k \in BOOLEAN
          PROVE  [[h EXCEPT !.pc = "judge"] EXCEPT !.known = k] \in ScoreCall
      BY DEF ScoreCall
    <3>2. QED
      BY <1>t, <3>1
  <2>5. e.pc = "judge" /\ e.entry = engine[n].entry
    BY <1>t DEF ScoreCall
  <2>6. e.known = known
    BY <1>t DEF ScoreCall
  <2>7. engine' = [engine EXCEPT ![n] = e]
    BY <1>12 DEF PostScore, Matches
  <2> HIDE DEF e
  <2>8. /\ engine' \in [Run -> ScoreCall] /\ engine'[n].pc = "judge" /\ engine'[n].entry = NoVerdict
        /\ engine'[n].known => hashes[run[n].data].status = "approved"
    BY <1>t, <2>2, <2>4, <2>5, <2>6, <2>7
  <2>9. Flow(n)' /\ Held(n)'
    BY <1>i, <2>1, <2>3, <2>8 DEF Flow, Held, EngineIdle, Keeps, Carries
  <2>10. Scored(n)'
    BY <1>i, <1>u, <2>2, <2>3, <2>8 DEF Scored, NoVerdict
  <2>11. Grounded(n)'
    BY <1>i, <1>u, <2>3, <2>8 DEF Grounded, Keeps
  <2>12. QED
    BY <1>t, <1>u, <2>1, <2>3, <2>8, <2>9, <2>10, <2>11 DEF TypeOK, RunInv
<1>13. CASE ScoreReturns(n)
  <2>1. /\ run[n].pc = "wait" /\ engine[n].pc = "reply"
        /\ UNCHANGED << engine, staged, nets, box, shared, excused, faults >>
    BY <1>13 DEF ScoreReturns
  <2> DEFINE v == engine[n].entry.verdict
             r == [[run[n] EXCEPT !.pc = Leave(n)] EXCEPT !.answer = v]
  <2>2. v \in Verdict /\ log[n].verdict = v
    BY <1>i, <2>1 DEF Scored, Entry
  <2>3. Leave(n) = (IF run[n].matches THEN "done" ELSE "teardown")
    BY DEF Leave
  <2>4. r \in Handling
    <3>1. ASSUME NEW h \in Handling, NEW pc \in {"done", "teardown"}, NEW a \in Verdict
          PROVE  [[h EXCEPT !.pc = pc] EXCEPT !.answer = a] \in Handling
      BY DEF Handling
    <3>2. QED
      BY <1>t, <2>2, <2>3, <3>1
  <2>5. /\ r.pc = Leave(n) /\ r.data = run[n].data /\ r.name = run[n].name /\ r.source = run[n].source
        /\ r.ran = run[n].ran /\ r.seen = run[n].seen /\ r.ended = run[n].ended /\ r.answer = v
    BY <1>t DEF Handling
  <2>6. /\ r.container = run[n].container /\ r.matches = run[n].matches
        /\ r.timedOut = run[n].timedOut
    BY <1>t DEF Handling
  <2>7. run' = [run EXCEPT ![n] = r]
    BY <1>13 DEF ScoreReturns
  <2> HIDE DEF r
  <2>8. /\ run' \in [Run -> Handling] /\ run'[n].pc = Leave(n) /\ Keeps(n) /\ Carries(n)
        /\ run'[n].container = run[n].container /\ run'[n].answer = v
    BY <1>t, <2>4, <2>5, <2>6, <2>7 DEF Keeps, Carries
  <2> HIDE DEF v
  <2>9. Flow(n)' /\ Held(n)'
    BY <1>i, <2>1, <2>3, <2>8 DEF Flow, Held, EngineIdle, Keeps, Carries
  <2>10. Scored(n)'
    BY <1>i, <1>u, <2>1, <2>2, <2>8 DEF Scored, EventsOf, Keeps, Carries
  <2>11. Grounded(n)'
    BY <1>i, <1>u, <2>1, <2>8 DEF Grounded, Keeps
  <2>12. QED
    BY <1>t, <1>u, <2>1, <2>8, <2>9, <2>10, <2>11 DEF TypeOK, RunInv
<1>14. CASE ScoreFails(n) \/ ScoreGivenUp(n)
  <2>1. /\ run[n].pc \in {"score", "wait"} /\ Fails(n, Leave(n))
        /\ UNCHANGED << engine, staged, nets, box, shared, excused >>
        /\ faults' \in 0..MaxFaults
    BY <1>14, <1>t, <1>f DEF ScoreFails, ScoreGivenUp
  <2>2. Leave(n) = (IF run[n].matches THEN "done" ELSE "teardown") /\ Leave(n) \in Stops
    BY DEF Leave, Stops
  <2>3. /\ run' \in [Run -> Handling] /\ run'[n].pc = Leave(n) /\ Keeps(n) /\ Carries(n)
        /\ run'[n].container = run[n].container /\ Scored(n)' /\ Grounded(n)'
    BY <1>3, <2>1, <2>2
  <2>4. Flow(n)' /\ Held(n)'
    BY <1>i, <2>1, <2>2, <2>3 DEF Flow, Held, EngineIdle, Keeps, Carries
  <2>5. QED
    BY <1>t, <1>u, <2>1, <2>3, <2>4 DEF TypeOK, RunInv
<1>15. CASE Teardown(n) \/ TeardownFails(n)
  <2>1. /\ run[n].pc = "teardown" /\ Goto(n, "unstage") /\ UNCHANGED << engine, staged, shared >>
        /\ faults' \in 0..MaxFaults
        /\ box' \in [Run -> {"none", "created", "running"}] /\ nets' \subseteq Run
    BY <1>15, <1>t, <1>f DEF Teardown, TeardownFails, RemovedNet
  <2>2. /\ run' \in [Run -> Handling] /\ run'[n].pc = "unstage"
        /\ Keeps(n) /\ Carries(n) /\ Scored(n)' /\ Grounded(n)'
    BY <1>3, <2>1 DEF Stops
  <2>3. Flow(n)'
    BY <1>i, <2>1, <2>2 DEF Flow, EngineIdle, Keeps, Carries
  <2>4. excused' \subseteq Run /\ Held(n)'
    <3>1. CASE Teardown(n)
      <4>1. excused' = excused
        BY <3>1 DEF Teardown
      <4>2. n \notin excused => box'[n] = "none" /\ n \notin nets'
        BY <1>i, <1>t, <2>1, <3>1 DEF Teardown, RemovedNet, Held, Flow
      <4>3. QED
        BY <1>t, <1>i, <2>1, <2>2, <4>1, <4>2 DEF Held, Flow, Keeps
    <3>2. CASE TeardownFails(n)
      BY <1>t, <3>2 DEF TeardownFails, Held
    <3>3. QED
      BY <1>15, <3>1, <3>2
  <2>5. QED
    BY <1>t, <1>u, <2>1, <2>2, <2>3, <2>4 DEF TypeOK, RunInv
<1>16. CASE Unstage(n)
  <2>1. /\ run[n].pc = "unstage" /\ Goto(n, "done")
        /\ UNCHANGED << engine, nets, box, shared, excused, faults >>
        /\ staged' \in [Filename -> Content \cup {NoFile}]
    BY <1>16, <1>t DEF Unstage
  <2>2. /\ run' \in [Run -> Handling] /\ run'[n].pc = "done"
        /\ Keeps(n) /\ Carries(n) /\ Scored(n)' /\ Grounded(n)'
    BY <1>3, <2>1 DEF Stops
  <2>3. Flow(n)' /\ Held(n)'
    BY <1>i, <2>1, <2>2 DEF Flow, Held, EngineIdle, Keeps, Carries
  <2>4. QED
    BY <1>t, <1>u, <2>1, <2>2, <2>3 DEF TypeOK, RunInv
<1>17. QED
  BY <1>1, <1>2, <1>4, <1>5, <1>6, <1>7, <1>9, <1>10, <1>hang, <1>stall, <1>11, <1>12, <1>13, <1>14, <1>15, <1>16
     DEF Handler

\* The engine moves its own call, proposes a hash at most, and takes no approval back.
LEMMA EngineFrame ==
  ASSUME TypeOK, NEW n \in Run, Engine(n)
  PROVE  /\ UNCHANGED << run, staged, nets, box, corpus, review, decisions, shared, excused >>
         /\ \A m \in Run \ {n} : engine'[m] = engine[m] /\ log'[m] = log[m]
         /\ faults' \in 0..MaxFaults
         /\ \/ hashes' = hashes
            \/ /\ engine[n].pc = "judge" /\ run[n].source = "sample"
               /\ engine'[n].pc = "append" /\ engine'[n].entry = [verdict |-> "Compromised", method |-> "dynamic"]
               /\ hashes' = Propose(hashes, run[n].data, "auto")
<1> USE DetonationAssumption DEF TypeOK, docker, tables, admins, Fault
<1>1. CASE Judge(n)
  <2> DEFINE entry == Score(engine[n].known, run[n].matches, run[n].timedOut, EventsOf(n))
  <2>1. /\ engine[n].pc = "judge" /\ engine' = [engine EXCEPT ![n].pc = "append", ![n].entry = entry]
        /\ hashes' = IF Proposes(n, entry) THEN Propose(hashes, run[n].data, "auto") ELSE hashes
        /\ UNCHANGED << run, staged, docker, corpus, log, admins, shared, excused, faults >>
    BY <1>1 DEF Judge
  <2> HIDE DEF entry
  <2>2. engine'[n].pc = "append" /\ engine'[n].entry = entry
    BY <2>1 DEF ScoreCall
  <2>3. QED
    BY <2>1, <2>2 DEF Proposes
<1>2. CASE ProposalFails(n)
  BY <1>2 DEF ProposalFails
<1>3. CASE AppendVerdict(n)
  BY <1>3 DEF AppendVerdict
<1>4. CASE EngineFails(n)
  BY <1>4 DEF EngineFails
<1>5. QED
  BY <1>1, <1>2, <1>3, <1>4 DEF Engine

\* Every step of an engine call is one its run may take.
LEMMA EngineStep ==
  ASSUME DetonationInv, NEW n \in Run, Engine(n)
  PROVE  TypeOK' /\ RunInv(n)' /\ ApprovalsStay
<1> USE DEF docker, tables, admins
<1>t. /\ run \in [Run -> Handling] /\ engine \in [Run -> ScoreCall]
      /\ hashes \in [Data -> Row] /\ corpus \in [Data -> Row]
      /\ log \in [Run -> Entry \cup {NoVerdict}] /\ TypeOK
  BY DEF DetonationInv, TypeOK
<1>i. RunInv(n) /\ Flow(n) /\ Scored(n) /\ Held(n) /\ Grounded(n)
  BY DEF DetonationInv, RunInv
<1>f. /\ UNCHANGED << run, staged, nets, box, corpus, review, decisions, shared, excused >>
      /\ faults' \in 0..MaxFaults
      /\ hashes' = hashes \/ hashes' = Propose(hashes, run[n].data, "auto")
  BY <1>t, EngineFrame
<1>a. run[n].data \in Data \/ engine[n].pc = "none"
  BY <1>i DEF Flow, EngineIdle
<1>b. engine[n].pc # "none"
  BY DEF Engine, Judge, ProposalFails, AppendVerdict, EngineFails
<1>h. hashes' \in [Data -> Row] /\ ApprovalsStay
  BY <1>t, <1>f, <1>a, <1>b, ProposeRow DEF ApprovalsStay
\* What is left to show of each of its steps.
<1>1. ASSUME engine' \in [Run -> ScoreCall], log' \in [Run -> Entry \cup {NoVerdict}],
             engine'[n].pc # "none", engine'[n].known = engine[n].known, Scored(n)'
      PROVE  TypeOK' /\ RunInv(n)'
  <2>1. TypeOK'
    BY <1>t, <1>f, <1>h, <1>1 DEF TypeOK
  <2>2. Flow(n)'
    BY <1>i, <1>f, <1>b, <1>1 DEF Flow
  <2>3. Held(n)'
    BY <1>i, <1>f DEF Held
  <2>4. Grounded(n)'
    BY <1>i, <1>f, <1>a, <1>b, <1>h, <1>1 DEF Grounded, ApprovalsStay
  <2>5. QED
    BY <1>1, <2>1, <2>2, <2>3, <2>4 DEF RunInv
<1>2. CASE Judge(n) \/ ProposalFails(n)
  <2> DEFINE entry == Score(engine[n].known, run[n].matches, run[n].timedOut, EventsOf(n))
             e == [[engine[n] EXCEPT !.pc = "append"] EXCEPT !.entry = entry]
  <2>1. entry \in Entry
    <3>1. engine[n].known \in BOOLEAN /\ run[n].matches \in BOOLEAN /\ run[n].timedOut \in BOOLEAN
      BY <1>t DEF Handling, ScoreCall
    <3>2. QED
      BY <3>1, ScoreType
  <2>2. engine[n].pc = "judge" /\ log' = log /\ engine' = [engine EXCEPT ![n] = e]
    BY <1>2 DEF Judge, ProposalFails
  <2> HIDE DEF entry
  <2>3. e \in ScoreCall
    <3>1. ASSUME NEW h \in ScoreCall PROVE [[h EXCEPT !.pc = "append"] EXCEPT !.entry = entry] \in ScoreCall
      BY <2>1 DEF ScoreCall
    <3>2. QED
      BY <1>t, <3>1
  <2>4. e.pc = "append" /\ e.entry = entry
    BY <1>t DEF ScoreCall
  <2>5. e.known = engine[n].known
    BY <1>t DEF ScoreCall
  <2> HIDE DEF e
  <2>6. /\ engine' \in [Run -> ScoreCall] /\ engine'[n].pc = "append"
        /\ engine'[n].entry = entry /\ engine'[n].known = engine[n].known
    BY <1>t, <2>2, <2>3, <2>4, <2>5
  <2>7. Scored(n)'
    <3>1. EventsOf(n)' = EventsOf(n)
      BY <1>f DEF EventsOf
    <3>2. entry = Score(engine'[n].known, run'[n].matches, run'[n].timedOut, EventsOf(n)')
      BY <1>f, <2>6, <3>1 DEF entry
    <3>3. log'[n] = NoVerdict /\ run'[n].answer = run[n].answer
      BY <1>i, <1>f, <2>2 DEF Scored
    <3>4. ~(run[n].answer \in Verdict)
      BY <1>i, <2>2 DEF Scored, NoVerdict, Verdict
    <3>5. QED
      BY <2>1, <2>6, <3>2, <3>3, <3>4 DEF Scored
  <2>8. QED
    BY <1>t, <1>h, <1>1, <2>2, <2>6, <2>7
<1>3. CASE AppendVerdict(n)
  <2>1. /\ engine[n].pc = "append" /\ engine[n].entry \in Entry
        /\ log' = [log EXCEPT ![n] = engine[n].entry]
        /\ engine' = [engine EXCEPT ![n] = [engine[n] EXCEPT !.pc = "reply"]]
    BY <1>3, <1>i DEF AppendVerdict, Scored
  <2>2. /\ engine' \in [Run -> ScoreCall] /\ engine'[n].pc = "reply"
        /\ engine'[n].entry = engine[n].entry /\ engine'[n].known = engine[n].known
        /\ log' \in [Run -> Entry \cup {NoVerdict}] /\ log'[n] = engine[n].entry
    <3>1. /\ [engine[n] EXCEPT !.pc = "reply"] \in ScoreCall
          /\ [engine[n] EXCEPT !.pc = "reply"].pc = "reply"
          /\ [engine[n] EXCEPT !.pc = "reply"].entry = engine[n].entry
      BY <1>t DEF ScoreCall
    <3>2. [engine[n] EXCEPT !.pc = "reply"].known = engine[n].known
      BY <1>t DEF ScoreCall
    <3>3. QED
      BY <1>t, <2>1, <3>1, <3>2
  <2>3. Scored(n)'
    <3>1. EventsOf(n)' = EventsOf(n)
      BY <1>f DEF EventsOf
    <3>2. ~(run[n].answer \in Verdict)
      BY <1>i, <2>1 DEF Scored, NoVerdict, Verdict
    <3>3. QED
      BY <1>i, <1>f, <2>1, <2>2, <3>1, <3>2 DEF Scored
  <2>4. QED
    BY <1>h, <1>1, <2>2, <2>3
<1>4. CASE EngineFails(n)
  <2>1. /\ engine[n].pc \in {"judge", "append", "reply"} /\ log' = log
        /\ engine' = [engine EXCEPT ![n] = [engine[n] EXCEPT !.pc = "failed"]]
    BY <1>4 DEF EngineFails
  <2>2. /\ engine' \in [Run -> ScoreCall] /\ engine'[n].pc = "failed"
        /\ engine'[n].entry = engine[n].entry /\ engine'[n].known = engine[n].known
    <3>1. /\ [engine[n] EXCEPT !.pc = "failed"] \in ScoreCall
          /\ [engine[n] EXCEPT !.pc = "failed"].pc = "failed"
          /\ [engine[n] EXCEPT !.pc = "failed"].entry = engine[n].entry
      BY <1>t DEF ScoreCall
    <3>2. [engine[n] EXCEPT !.pc = "failed"].known = engine[n].known
      BY <1>t DEF ScoreCall
    <3>3. QED
      BY <1>t, <2>1, <3>1, <3>2
  <2>3. Scored(n)'
    <3>1. EventsOf(n)' = EventsOf(n)
      BY <1>f DEF EventsOf
    <3>2. QED
      BY <1>i, <1>f, <2>1, <2>2, <3>1 DEF Scored
  <2>4. QED
    BY <1>h, <1>1, <1>t, <2>1, <2>2, <2>3
<1>5. QED
  BY <1>h, <1>2, <1>3, <1>4 DEF Engine

\* A proposal by hand, a decision or its audit entry.
LEMMA ReviewStep ==
  ASSUME TypeOK,
         \/ \E p \in Proposed : ProposeManually(p[1], p[2])
         \/ \E a \in Admin : Review(a)
  PROVE  /\ UNCHANGED << run, engine, staged, nets, box, log, shared, excused >>
         /\ TypeOK' /\ ApprovalsStay
         /\ \A d \in Data : hashes'[d].source = "auto" => hashes[d].source = "auto"
<1> USE DEF docker, tables, admins
<1>t. /\ hashes \in [Data -> Row] /\ corpus \in [Data -> Row]
      /\ review \in [Admin -> Decision \cup {NoReview}] /\ decisions \subseteq Decision
      /\ faults \in 0..MaxFaults /\ MaxFaults \in Nat
  BY DetonationAssumption DEF TypeOK
<1>1. ASSUME NEW t \in Table, NEW d \in Data, ProposeManually(t, d)
      PROVE  /\ hashes' \in [Data -> Row] /\ corpus' \in [Data -> Row] /\ ApprovalsStay
             /\ \A k \in Data : hashes'[k].source = "auto" => hashes[k].source = "auto"
  <2>1. \/ hashes' = Propose(hashes, d, "manual") /\ corpus' = corpus
        \/ corpus' = Propose(corpus, d, "manual") /\ hashes' = hashes
    BY <1>1 DEF ProposeManually, SetTable, TableOf
  <2>2. CASE hashes' = Propose(hashes, d, "manual") /\ corpus' = corpus
    BY <1>t, <2>2, ProposeRow DEF ApprovalsStay
  <2>3. CASE corpus' = Propose(corpus, d, "manual") /\ hashes' = hashes
    BY <1>t, <2>3, ProposeRow DEF ApprovalsStay
  <2>4. QED
    BY <2>1, <2>2, <2>3
<1>2. ASSUME NEW a \in Admin, NEW t \in Table, NEW d \in Data, DecideRow(a, t, d)
      PROVE  /\ hashes' \in [Data -> Row] /\ corpus' \in [Data -> Row] /\ ApprovalsStay
             /\ review' \in [Admin -> Decision \cup {NoReview}]
             /\ \A k \in Data : hashes'[k].source = "auto" => hashes[k].source = "auto"
  <2>1. PICK s \in {"approved", "rejected"} :
          /\ SetTable(t, Decide(TableOf(t), d, s))
          /\ review' = [review EXCEPT ![a] = [table |-> t, key |-> d, status |-> s]]
    BY <1>2 DEF DecideRow
  <2>2. Decidable(TableOf(t), d)
    BY <1>2 DEF DecideRow
  <2>3. review' \in [Admin -> Decision \cup {NoReview}]
    BY <1>t, <2>1 DEF Decision
  <2>4. CASE t = "hashes"
    <3>1. hashes' = Decide(hashes, d, s) /\ corpus' = corpus /\ Decidable(hashes, d)
      BY <2>1, <2>2, <2>4 DEF SetTable, TableOf
    <3>2. QED
      BY <1>t, <2>3, <3>1, DecideRows DEF ApprovalsStay
  <2>5. CASE t # "hashes"
    <3>1. corpus' = Decide(corpus, d, s) /\ hashes' = hashes /\ Decidable(corpus, d)
      BY <2>1, <2>2, <2>5 DEF SetTable, TableOf
    <3>2. QED
      BY <1>t, <2>3, <3>1, DecideRows, SMTT(30) DEF ApprovalsStay
  <2>6. QED
    BY <2>4, <2>5
<1>3. ASSUME NEW a \in Admin, AuditDecision(a) \/ AuditDecisionFails(a)
      PROVE  /\ review' \in [Admin -> Decision \cup {NoReview}] /\ decisions' \subseteq Decision
             /\ faults' \in 0..MaxFaults /\ UNCHANGED tables
  BY <1>t, <1>3 DEF AuditDecision, AuditDecisionFails, Fault
<1>4. CASE \E p \in Proposed : ProposeManually(p[1], p[2])
  <2>1. PICK p \in Proposed : ProposeManually(p[1], p[2])
    BY <1>4
  <2>2. p[1] \in Table /\ p[2] \in Data
    BY DetonationAssumption
  <2>3. UNCHANGED << run, engine, staged, nets, box, log, review, decisions, shared, excused, faults >>
    BY <2>1 DEF ProposeManually
  <2>4. QED
    BY <1>1, <2>1, <2>2, <2>3 DEF TypeOK
<1>5. CASE \E a \in Admin : Review(a)
  <2>1. PICK a \in Admin : Review(a)
    BY <1>5
  <2>2. CASE \E t \in Table, d \in Data : DecideRow(a, t, d)
    <3>1. UNCHANGED << run, engine, staged, nets, box, log, decisions, shared, excused, faults >>
      BY <2>2 DEF DecideRow
    <3>2. QED
      BY <1>2, <2>2, <3>1 DEF TypeOK
  <2>3. CASE AuditDecision(a) \/ AuditDecisionFails(a)
    <3>1. UNCHANGED << run, engine, staged, nets, box, log, shared, excused >>
      BY <2>3 DEF AuditDecision, AuditDecisionFails
    <3>2. QED
      BY <1>3, <2>3, <3>1 DEF TypeOK, ApprovalsStay
  <2>4. QED
    BY <2>1, <2>2, <2>3 DEF Review
<1>6. QED
  BY <1>4, <1>5

\* The handlers die where they are; a run that was not in progress stays.
LEMMA CrashFrame ==
  ASSUME TypeOK, Crash
  PROVE  /\ UNCHANGED << engine, staged, nets, box, hashes, corpus, log, review, decisions, shared >>
         /\ run' \in [Run -> Handling] /\ faults' \in 0..MaxFaults
         /\ excused \subseteq excused' /\ excused' \subseteq Run /\ excused' # {}
         /\ \A n \in Run :
              \/ run'[n] = run[n] /\ run[n].pc \in {"idle", "done", "dead"}
              \/ /\ run'[n].pc = "dead" /\ n \in excused' /\ Keeps(n) /\ Carries(n)
                 /\ run'[n].answer = run[n].answer /\ run[n].pc # "idle"
<1> DEFINE alive == {n \in Run : run[n].pc \notin {"idle", "done", "dead"}}
<1>t. run \in [Run -> Handling] /\ faults \in 0..MaxFaults /\ MaxFaults \in Nat /\ excused \subseteq Run
  BY DetonationAssumption DEF TypeOK
<1>1. /\ alive # {} /\ excused' = excused \cup alive
      /\ run' = [n \in Run |-> IF n \in alive THEN [run[n] EXCEPT !.pc = "dead"] ELSE run[n]]
      /\ UNCHANGED << engine, staged, nets, box, hashes, corpus, log, review, decisions, shared >>
      /\ faults' \in 0..MaxFaults
  BY <1>t DEF Crash, Fault, docker, tables, admins
<1>2. ASSUME NEW h \in Handling PROVE [h EXCEPT !.pc = "dead"] \in Handling
  BY DEF Handling
<1>3. run' \in [Run -> Handling]
  BY <1>t, <1>1, <1>2
<1>4. ASSUME NEW n \in Run
      PROVE  \/ run'[n] = run[n] /\ run[n].pc \in {"idle", "done", "dead"}
             \/ /\ run'[n].pc = "dead" /\ n \in excused' /\ Keeps(n) /\ Carries(n)
                /\ run'[n].answer = run[n].answer /\ run[n].pc # "idle"
  <2>1. CASE n \in alive
    <3>1. run'[n] = [run[n] EXCEPT !.pc = "dead"]
      BY <1>1, <2>1
    <3>2. run'[n].pc = "dead" /\ Keeps(n)
      BY <1>t, <3>1 DEF Handling, Keeps
    <3>3. Carries(n)
      BY <1>t, <3>1 DEF Handling, Carries
    <3>4. run'[n].answer = run[n].answer
      BY <1>t, <3>1 DEF Handling
    <3>5. QED
      BY <1>1, <2>1, <3>2, <3>3, <3>4
  <2>2. CASE n \notin alive
    BY <1>1, <2>2
  <2>3. QED
    BY <2>1, <2>2
<1>5. QED
  BY <1>t, <1>1, <1>3, <1>4

\* DetonationInv is inductive.
LEMMA DetonationStep == DetonationInv /\ [Next]_vars => DetonationInv' /\ ApprovalsStay
<1> SUFFICES ASSUME DetonationInv, [Next]_vars PROVE DetonationInv' /\ ApprovalsStay
  OBVIOUS
<1>t. TypeOK /\ \A m \in Run : RunInv(m)
  BY DEF DetonationInv
<1>1. ASSUME NEW n \in Run, Submit(n) \/ Handler(n) PROVE DetonationInv' /\ ApprovalsStay
  <2>1. TypeOK' /\ RunInv(n)'
    BY <1>1, HandlerStep
  <2>2. /\ UNCHANGED << hashes, corpus, log >>
        /\ \A m \in Run \ {n} : /\ run'[m] = run[m] /\ engine'[m] = engine[m]
                                /\ m \in nets' <=> m \in nets
                                /\ box'[m] = box[m]
        /\ excused \subseteq excused'
    BY <1>1, <1>t, HandlerFrame
  <2>3. ApprovalsStay
    BY <2>2 DEF ApprovalsStay
  <2>4. ASSUME NEW m \in Run \ {n} PROVE RunInv(m)'
    <3>1. /\ run'[m] = run[m] /\ engine'[m] = engine[m] /\ log'[m] = log[m]
          /\ box'[m] = box[m] /\ (m \in excused => m \in excused')
      BY <2>2
    <3>2. m \in nets' <=> m \in nets
      BY <2>2
    <3>3. QED
      BY <1>t, <2>3, <3>1, <3>2, Untouched
  <2>5. QED
    BY <2>1, <2>3, <2>4 DEF DetonationInv
<1>2. ASSUME NEW n \in Run, Engine(n) PROVE DetonationInv' /\ ApprovalsStay
  <2>1. TypeOK' /\ RunInv(n)' /\ ApprovalsStay
    BY <1>2, EngineStep
  <2>2. /\ UNCHANGED << run, nets, box, excused >>
        /\ \A m \in Run \ {n} : engine'[m] = engine[m] /\ log'[m] = log[m]
    BY <1>2, <1>t, EngineFrame
  <2>3. \A m \in Run \ {n} : RunInv(m)'
    BY <1>t, <2>1, <2>2, Untouched
  <2>4. QED
    BY <2>1, <2>3 DEF DetonationInv
<1>3. CASE Crash
  <2>1. /\ UNCHANGED << engine, staged, nets, box, hashes, corpus, log, review, decisions, shared >>
        /\ run' \in [Run -> Handling] /\ faults' \in 0..MaxFaults
        /\ excused \subseteq excused' /\ excused' \subseteq Run
    BY <1>t, <1>3, CrashFrame
  <2>2. TypeOK' /\ ApprovalsStay
    BY <1>t, <2>1 DEF TypeOK, ApprovalsStay
  <2>3. ASSUME NEW n \in Run PROVE RunInv(n)'
    <3>1. CASE run'[n] = run[n]
      BY <1>t, <2>1, <2>2, <3>1, Untouched
    <3>2. CASE /\ run'[n].pc = "dead" /\ n \in excused' /\ Keeps(n) /\ Carries(n)
               /\ run'[n].answer = run[n].answer /\ run[n].pc # "idle"
      <4>1. Scored(n)' /\ Grounded(n)'
        BY <1>t, <2>1, <3>2, ScoredStays
      <4>2. Flow(n)' /\ Held(n)'
        BY <1>t, <2>1, <3>2 DEF RunInv, Flow, Held, Keeps, Carries, EngineIdle
      <4>3. QED
        BY <4>1, <4>2 DEF RunInv
    <3>3. QED
      BY <1>t, <1>3, <3>1, <3>2, CrashFrame
  <2>4. QED
    BY <2>2, <2>3 DEF DetonationInv
<1>4. CASE \/ \E p \in Proposed : ProposeManually(p[1], p[2])
           \/ \E a \in Admin : Review(a)
  <2>1. /\ UNCHANGED << run, engine, staged, nets, box, log, shared, excused >>
        /\ TypeOK' /\ ApprovalsStay
    BY <1>t, <1>4, ReviewStep
  <2>2. \A m \in Run : RunInv(m)'
    BY <1>t, <2>1, Untouched
  <2>3. QED
    BY <2>1, <2>2 DEF DetonationInv
<1>5. CASE UNCHANGED vars
  <2>1. UNCHANGED << run, engine, staged, nets, box, hashes, corpus, log, review, decisions,
                     shared, excused, faults >>
    BY <1>5 DEF vars, docker, tables, admins
  <2>2. TypeOK' /\ ApprovalsStay
    BY <1>t, <2>1 DEF TypeOK, ApprovalsStay
  <2>3. \A m \in Run : RunInv(m)'
    BY <1>t, <2>1, <2>2, Untouched
  <2>4. QED
    BY <2>2, <2>3 DEF DetonationInv
<1>6. QED
  BY <1>1, <1>2, <1>3, <1>4, <1>5 DEF Next

\* Nothing is running and nothing is known.
LEMMA InitHolds == Init => DetonationInv
<1> SUFFICES ASSUME Init PROVE DetonationInv
  OBVIOUS
<1> USE DEF Init
<1>1. TypeOK
  <2>1. [pc |-> "idle", data |-> NoSample, name |-> NoFile, source |-> "sample",
         matches |-> FALSE, container |-> FALSE, ran |-> NoSample, seen |-> 0,
         timedOut |-> FALSE, ended |-> "no", answer |-> "none"] \in Handling
    BY DEF Handling, Origin
  <2>2. [pc |-> "none", known |-> FALSE, entry |-> NoVerdict] \in ScoreCall
    BY DEF ScoreCall
  <2>3. run \in [Run -> Handling] /\ engine \in [Run -> ScoreCall]
    BY <2>1, <2>2
  <2>4. hashes \in [Data -> Row] /\ corpus \in [Data -> Row]
    BY DEF Row, NoRow, Status, Source
  <2>5. /\ staged \in [Filename -> Content \cup {NoFile}] /\ log \in [Run -> Entry \cup {NoVerdict}]
        /\ box \in [Run -> {"none", "created", "running"}]
        /\ review \in [Admin -> Decision \cup {NoReview}]
    OBVIOUS
  <2>6. faults \in 0..MaxFaults
    BY DetonationAssumption
  <2>7. shared \in BOOLEAN
    BY Zenon
  <2>8. QED
    BY <2>3, <2>4, <2>5, <2>6, <2>7 DEF TypeOK
<1>2. ASSUME NEW n \in Run PROVE RunInv(n)
  <2>1. Flow(n) /\ Held(n)
    BY DEF Flow, Held
  <2>2. Scored(n) /\ Grounded(n)
    BY DEF Scored, Grounded, Verdict
  <2>3. QED
    BY <2>1, <2>2 DEF RunInv
<1>3. QED
  BY <1>1, <1>2 DEF DetonationInv

\* Handlers, calls, tables and Docker's state keep their types.
THEOREM TypeCorrect == Spec => []TypeOK
<1>1. DetonationInv => TypeOK
  BY DEF DetonationInv
<1>2. QED
  BY InitHolds, DetonationStep, <1>1, PTL DEF Spec

\* The verdict a caller is given is the one in the audit log.
THEOREM AnswersAreLogged == Spec => []AnswerIsLogged
<1>1. DetonationInv => AnswerIsLogged
  BY DEF DetonationInv, RunInv, Scored, AnswerIsLogged
<1>2. QED
  BY InitHolds, DetonationStep, <1>1, PTL DEF Spec

\* A verdict is earned: what Score says of a run, seen to the end or cut short by the
\* sensor's 15 seconds, is never more than an admin, a YARA rule or the events that
\* came through stand behind.
THEOREM VerdictsAreEarned == Spec => []VerdictIsEarned
<1>1. ASSUME DetonationInv, NEW n \in Run
      PROVE  /\ log[n].verdict = "Compromised" => CompromisedIsExplained(n)
             /\ log[n].verdict = "Normal" => NormalIsEarned(n)
  <2> SUFFICES ASSUME log[n].verdict \in {"Compromised", "Normal"}
               PROVE  /\ log[n].verdict = "Compromised" => CompromisedIsExplained(n)
                      /\ log[n].verdict = "Normal" => NormalIsEarned(n)
    OBVIOUS
  <2>i. /\ Flow(n) /\ Scored(n) /\ Grounded(n)
        /\ run[n] \in Handling /\ engine[n] \in ScoreCall
    BY <1>1 DEF DetonationInv, RunInv, TypeOK
  <2>1. /\ log[n] = engine[n].entry /\ engine[n].pc # "none"
        /\ log[n] = Score(engine[n].known, run[n].matches, run[n].timedOut, EventsOf(n))
    BY <2>i DEF Scored, NoVerdict, ScoreCall
  <2>2. CASE engine[n].known
    BY <2>i, <2>1, <2>2 DEF Score, Grounded, CompromisedIsExplained
  <2>3. CASE ~engine[n].known /\ run[n].matches
    BY <2>i, <2>1, <2>3 DEF Score, Grounded, CompromisedIsExplained
  <2>4. CASE ~engine[n].known /\ ~run[n].matches
    <3>1. /\ run[n].ran \in Content /\ run[n].ended # "no"
          /\ run[n].seen \in 0..Len(Trace[run[n].ran])
          /\ run[n].ended = "late" => run[n].timedOut
          /\ run[n].ended = "complete" => run[n].seen = Len(Trace[run[n].ran])
      BY <2>i, <2>1, <2>4 DEF Flow
    <3> DEFINE events == Trace[run[n].ran]
               seen == SubSeq(events, 1, run[n].seen)
    <3>2. events \in Seq(Event) /\ EventsOf(n) = seen
      BY <3>1, NamesAssumption, DetonationAssumption DEF EventsOf
    <3>3. ~run[n].timedOut /\ log[n] = [verdict |-> Judged(seen), method |-> "dynamic"]
      BY <2>1, <2>4, <3>2 DEF Score
    <3>4. CASE log[n].verdict = "Compromised"
      <4>1. Judged(events) = "Compromised"
        BY <3>1, <3>2, <3>3, <3>4, CompromisedStays
      <4>2. QED
        BY <3>3, <3>4, <4>1 DEF CompromisedIsExplained
    <3>5. CASE log[n].verdict = "Normal"
      <4>1. seen # << >> /\ ScoreEvents(seen) = 0
        BY <3>3, <3>5 DEF Judged, VerdictFromScore
      <4>2. Rules(seen) = {}
        BY <4>1, ScoreByRules
      <4>3. run[n].seen > 0
        BY <3>1, <3>2, <4>1
      <4>4. run[n].ended = "complete" => seen = events
        BY <3>1, <3>2
      <4>5. run[n].ended \in {"complete", "early"}
        BY <2>i, <3>1, <3>3 DEF Handling
      <4>6. QED
        BY <3>2, <3>5, <4>2, <4>3, <4>4, <4>5 DEF NormalIsEarned
    <3>6. QED
      BY <3>4, <3>5
  <2>5. QED
    BY <2>2, <2>3, <2>4
<1>2. DetonationInv => VerdictIsEarned
  BY <1>1 DEF VerdictIsEarned
<1>3. QED
  BY InitHolds, DetonationStep, <1>2, PTL DEF Spec

-------------------------------------------------------------------------------
(* The temporary files.  Until two runs share one, it has one user at most, *)
(* and holds what its user was sent.                                        *)

Uses(n) ==
  /\ run[n].pc \in {"network", "start", "copy", "stream", "stalled", "score", "wait", "teardown",
                    "unstage", "hung"}
  /\ ~run[n].matches

StagedInv ==
  ~shared =>
    /\ \A n \in Run : run[n].ran \in {NoSample, run[n].data}
    /\ \A n \in Run : Uses(n) => staged[run[n].name] = run[n].data
    /\ \A n, m \in Run : Uses(n) /\ Uses(m) /\ run[n].name = run[m].name => n = m

LeftInv ==
  excused = {} => \A f \in Filename : staged[f] # NoFile => Using(f) # {}

\* A handler keeps its sample, and uses its file from Stage to Unstage.
LEMMA HandlerMoves ==
  ASSUME DetonationInv, NEW n \in Run, Submit(n) \/ Handler(n)
  PROVE  /\ \/ run[n].pc = "idle" /\ engine[n].pc = "none" /\ run[n].ran = NoSample
            \/ /\ run'[n].data = run[n].data /\ run'[n].name = run[n].name
               /\ run'[n].source = run[n].source
         /\ \/ Stage(n) /\ ~Uses(n) /\ Uses(n)'
            \/ StageFails(n) /\ ~Uses(n) /\ ~Uses(n)'
            \/ Unstage(n) /\ Uses(n) /\ ~Uses(n)'
            \/ staged' = staged /\ shared' = shared /\ (Uses(n) <=> Uses(n)')
         /\ \/ run'[n].ran = run[n].ran
            \/ Uses(n) /\ run'[n].ran = staged[run[n].name]
<1> USE DEF docker, tables, admins
<1>t. run \in [Run -> Handling]
  BY DEF DetonationInv, TypeOK
<1>i. Flow(n)
  BY DEF DetonationInv, RunInv
<1>1. CASE Submit(n)
  <2>1. /\ run[n].pc = "idle" /\ staged' = staged /\ shared' = shared
    BY <1>1 DEF Submit
  <2>2. PICK x \in Submitted, f \in Filename :
          run' = [run EXCEPT ![n].pc = "triage", ![n].data = x[1], ![n].name = f, ![n].source = x[2]]
    BY <1>1 DEF Submit
  <2>3. run'[n].pc = "triage" /\ run'[n].ran = run[n].ran
    BY <1>t, <2>2 DEF Handling
  <2>4. QED
    BY <1>i, <2>1, <2>3 DEF Uses, Flow, EngineIdle
<1>2. CASE Triage(n) \/ TriageFails(n)
  <2>1. run[n].pc = "triage" /\ staged' = staged /\ shared' = shared
    BY <1>2 DEF Triage, TriageFails
  <2>2. PICK found \in BOOLEAN : Triaged(n, found)
    <3> DEFINE yara == ByYara(run[n].data)
               similar == ByCorpus(run[n].data)
               both == yara \/ similar
    <3>1. yara \in BOOLEAN /\ similar \in BOOLEAN
      BY DEF ByYara, ByCorpus
    <3>2. both \in BOOLEAN
      BY Zenon
    <3>3. \E found \in {both, yara, similar, FALSE} : Triaged(n, found)
      BY <1>2 DEF Triage, TriageFails
    <3> HIDE DEF yara, similar, both
    <3>4. \A found \in {both, yara, similar, FALSE} : found \in BOOLEAN
      BY <3>1, <3>2, Zenon
    <3>5. QED
      BY <3>3, <3>4, Zenon
  <2>3. /\ run'[n].pc = (IF found THEN "score" ELSE "stage") /\ run'[n].matches = found
        /\ run'[n].data = run[n].data /\ run'[n].name = run[n].name
        /\ run'[n].source = run[n].source /\ run'[n].ran = run[n].ran
    BY <1>t, <2>2, TriagedStep DEF Carries
  <2>4. ~Uses(n) /\ ~Uses(n)'
    BY <2>1, <2>3 DEF Uses
  <2>5. QED
    BY <2>1, <2>3, <2>4
\* The calls that only go to the next one, or fail.
<1>3. ASSUME NEW pc \in Stops, Goto(n, pc) \/ Fails(n, pc)
      PROVE  /\ run'[n].pc = pc
             /\ run'[n].data = run[n].data /\ run'[n].name = run[n].name
             /\ run'[n].source = run[n].source /\ run'[n].ran = run[n].ran
             /\ run'[n].matches = run[n].matches
  BY <1>t, <1>3, GotoStep, FailsStep DEF Keeps, Carries
<1>4. CASE Stage(n)
  <2>1. run[n].pc = "stage" /\ ~run[n].matches /\ Goto(n, "network")
    BY <1>i, <1>4 DEF Stage, Flow
  <2>2. QED
    BY <1>3, <1>4, <2>1 DEF Uses, Stops
<1>5. CASE StageFails(n)
  <2>1. run[n].pc = "stage" /\ Fails(n, "done")
    BY <1>5 DEF StageFails
  <2>2. QED
    BY <1>3, <1>5, <2>1 DEF Uses, Stops
<1>6. CASE Unstage(n)
  <2>1. run[n].pc = "unstage" /\ ~run[n].matches /\ Goto(n, "done")
    BY <1>i, <1>6 DEF Unstage, Flow
  <2>2. QED
    BY <1>3, <1>6, <2>1 DEF Uses, Stops
\* Between Stage and Unstage.
<1>7. ASSUME UNCHANGED << staged, shared >>, ~run[n].matches,
             run[n].pc \in {"network", "start", "copy", "stream", "stalled", "score", "wait",
                            "teardown"},
             NEW pc \in {"start", "copy", "stream", "stalled", "score", "wait", "teardown",
                         "unstage", "hung"},
             Goto(n, pc) \/ Fails(n, pc)
      PROVE  /\ run'[n].data = run[n].data /\ run'[n].name = run[n].name
             /\ run'[n].source = run[n].source
             /\ Uses(n) /\ Uses(n)' /\ run'[n].ran = run[n].ran
  <2>1. pc \in Stops
    BY DEF Stops
  <2>2. QED
    BY <1>3, <1>7, <2>1 DEF Uses
<1>8. CASE CreateNetwork(n) \/ NetworkFails(n)
  <2>1. /\ run[n].pc = "network" /\ UNCHANGED << staged, shared >>
        /\ Goto(n, "start") \/ Fails(n, "unstage")
    BY <1>8 DEF CreateNetwork, NetworkFails
  <2>2. QED
    BY <1>i, <1>7, <2>1 DEF Flow
<1>9. CASE StartShadowContainer(n)
  <2>1. /\ run[n].pc = "start" /\ UNCHANGED << staged, shared >>
        /\ run' = [run EXCEPT ![n] = [[run[n] EXCEPT !.pc = "copy"] EXCEPT !.container = TRUE]]
    BY <1>9 DEF StartShadowContainer
  <2>2. /\ run'[n].pc = "copy" /\ run'[n].data = run[n].data /\ run'[n].name = run[n].name
        /\ run'[n].source = run[n].source /\ run'[n].ran = run[n].ran
    BY <1>t, <2>1 DEF Handling
  <2>3. run'[n].matches = run[n].matches
    BY <1>t, <2>1 DEF Handling
  <2>4. QED
    BY <1>i, <2>1, <2>2, <2>3 DEF Flow, Uses
<1>10. CASE StartFails(n) \/ ExecFails(n)
  <2>1. /\ run[n].pc \in {"start", "copy", "stream"} /\ UNCHANGED << staged, shared >>
        /\ Fails(n, "teardown")
    BY <1>10 DEF StartFails, ExecFails
  <2>2. QED
    BY <1>i, <1>7, <2>1 DEF Flow
<1>11. CASE CopyFile(n)
  <2>1. run[n].pc = "copy" /\ UNCHANGED << staged, shared >> /\ ~run[n].matches
    BY <1>i, <1>11 DEF CopyFile, Flow
  <2> DEFINE c == staged[run[n].name]
  <2>2. CASE c = NoFile
    <3>1. Fails(n, "teardown")
      BY <1>11, <2>2 DEF CopyFile
    <3>2. QED
      BY <1>7, <2>1, <3>1
  <2>3. CASE c # NoFile
    <3>1. run' = [run EXCEPT ![n] = [[run[n] EXCEPT !.pc = "stream"] EXCEPT !.ran = c]]
      BY <1>11, <2>3 DEF CopyFile
    <3> HIDE DEF c
    <3>2. /\ run'[n].pc = "stream" /\ run'[n].data = run[n].data /\ run'[n].name = run[n].name
          /\ run'[n].source = run[n].source /\ run'[n].ran = c
      BY <1>t, <3>1 DEF Handling
    <3>3. run'[n].matches = run[n].matches
      BY <1>t, <3>1 DEF Handling
    <3>4. QED
      BY <2>1, <3>2, <3>3 DEF Uses, c
  <2>4. QED
    BY <2>2, <2>3
<1>hang. CASE CallHangs(n) \/ StreamStalls(n)
  <2>1. /\ run[n].pc \in {"copy", "stream", "teardown"} /\ UNCHANGED << staged, shared >>
        /\ Goto(n, "hung") \/ Goto(n, "stalled")
    BY <1>hang DEF CallHangs, StreamStalls
  <2>2. QED
    BY <1>i, <1>7, <2>1 DEF Flow
<1>12. CASE StreamEnds(n) \/ SensorKills(n) \/ StreamStopped(n) \/ StreamCut(n)
  <2>1. /\ run[n].pc \in {"stream", "stalled"} /\ UNCHANGED << staged, shared >>
        /\ ~run[n].matches
    BY <1>i, <1>12 DEF StreamEnds, SensorKills, StreamStopped, StreamCut, Flow
  <2>2. Len(Trace[run[n].ran]) \in Nat
    BY <1>i, <2>1, DetonationAssumption DEF Flow
  <2>3. \E k \in Nat, how \in {"complete", "early", "late"} : StreamOver(n, k, how)
    <3>1. CASE StreamEnds(n)
      BY <2>2, <3>1 DEF StreamEnds
    <3>2. CASE SensorKills(n) \/ StreamStopped(n) \/ StreamCut(n)
      <4>1. PICK k \in Seen(n), how \in {"early", "late"} : StreamOver(n, k, how)
        BY <3>2 DEF SensorKills, StreamStopped, StreamCut
      <4>2. k \in Nat
        BY <2>2 DEF Seen
      <4>3. QED
        BY <4>1, <4>2
    <3>3. QED
      BY <1>12, <3>1, <3>2
  <2>4. /\ run'[n].pc = "score" /\ run'[n].data = run[n].data /\ run'[n].name = run[n].name
        /\ run'[n].source = run[n].source /\ run'[n].ran = run[n].ran
        /\ run'[n].matches = run[n].matches
    BY <1>t, <2>3, StreamStep DEF Keeps
  <2>5. QED
    BY <2>1, <2>4 DEF Uses
\* The score call, with a file or without.
<1>13. CASE PostScore(n) \/ ScoreFails(n) \/ ScoreGivenUp(n)
  <2>1. /\ run[n].pc \in {"score", "wait"} /\ UNCHANGED << staged, shared >>
        /\ Goto(n, "wait") \/ Fails(n, Leave(n))
    BY <1>13 DEF PostScore, ScoreFails, ScoreGivenUp
  <2>2. Leave(n) = IF run[n].matches THEN "done" ELSE "teardown"
    BY DEF Leave
  <2>3. \E pc \in {"wait", Leave(n)} : /\ run'[n].pc = pc
                                       /\ run'[n].data = run[n].data /\ run'[n].name = run[n].name
                                       /\ run'[n].source = run[n].source /\ run'[n].ran = run[n].ran
                                       /\ run'[n].matches = run[n].matches
    BY <1>3, <2>1, <2>2 DEF Stops
  <2>4. Uses(n) <=> Uses(n)'
    BY <2>1, <2>2, <2>3 DEF Uses
  <2>5. QED
    BY <2>1, <2>3, <2>4
<1>14. CASE ScoreReturns(n)
  <2> DEFINE v == engine[n].entry.verdict
  <2>1. /\ run[n].pc = "wait" /\ UNCHANGED << staged, shared >>
        /\ run' = [run EXCEPT ![n] = [[run[n] EXCEPT !.pc = Leave(n)] EXCEPT !.answer = v]]
    BY <1>14 DEF ScoreReturns
  <2> HIDE DEF v
  <2>2. Leave(n) = IF run[n].matches THEN "done" ELSE "teardown"
    BY DEF Leave
  <2>3. /\ run'[n].pc = Leave(n) /\ run'[n].data = run[n].data /\ run'[n].name = run[n].name
        /\ run'[n].source = run[n].source /\ run'[n].ran = run[n].ran
    BY <1>t, <2>1 DEF Handling
  <2>4. run'[n].matches = run[n].matches
    BY <1>t, <2>1 DEF Handling
  <2>5. Uses(n) <=> Uses(n)'
    BY <2>1, <2>2, <2>3, <2>4 DEF Uses
  <2>6. QED
    BY <2>1, <2>3, <2>5
<1>15. CASE Teardown(n) \/ TeardownFails(n)
  <2>1. run[n].pc = "teardown" /\ Goto(n, "unstage") /\ UNCHANGED << staged, shared >>
    BY <1>15 DEF Teardown, TeardownFails
  <2>2. QED
    BY <1>i, <1>7, <2>1 DEF Flow
<1>16. QED
  BY <1>1, <1>2, <1>4, <1>5, <1>6, <1>8, <1>9, <1>10, <1>hang, <1>11, <1>12, <1>13, <1>14, <1>15 DEF Handler

\* While no file is shared, none holds what its user was not sent.
LEMMA StagedStep == DetonationInv /\ StagedInv /\ [Next]_vars => StagedInv'
<1> SUFFICES ASSUME DetonationInv, StagedInv, [Next]_vars, ~shared' PROVE StagedInv'
  BY DEF StagedInv
<1>t. /\ TypeOK /\ \A m \in Run : RunInv(m)
      /\ run \in [Run -> Handling] /\ staged \in [Filename -> Content \cup {NoFile}]
      /\ shared \in BOOLEAN
  BY DEF DetonationInv, TypeOK
\* It is enough that no file changes, and that nobody begins to use one.
<1>1. ASSUME UNCHANGED << staged, shared >>,
             \A m \in Run : /\ run'[m].ran \in {NoSample, run'[m].data}
                            /\ Uses(m)' => /\ Uses(m) /\ run'[m].data = run[m].data
                                           /\ run'[m].name = run[m].name
      PROVE  StagedInv'
  BY <1>1 DEF StagedInv
<1>2. ASSUME UNCHANGED << staged, shared, run >> PROVE StagedInv'
  BY <1>2 DEF StagedInv, Uses
<1>3. ASSUME NEW n \in Run, Submit(n) \/ Handler(n) PROVE StagedInv'
  <2>1. \A m \in Run \ {n} : run'[m] = run[m]
    BY <1>3, <1>t, HandlerFrame
  <2>2. /\ \/ run[n].pc = "idle" /\ engine[n].pc = "none" /\ run[n].ran = NoSample
           \/ /\ run'[n].data = run[n].data /\ run'[n].name = run[n].name
              /\ run'[n].source = run[n].source
        /\ \/ Stage(n) /\ ~Uses(n) /\ Uses(n)'
           \/ StageFails(n) /\ ~Uses(n) /\ ~Uses(n)'
           \/ Unstage(n) /\ Uses(n) /\ ~Uses(n)'
           \/ staged' = staged /\ shared' = shared /\ (Uses(n) <=> Uses(n)')
        /\ \/ run'[n].ran = run[n].ran
           \/ Uses(n) /\ run'[n].ran = staged[run[n].name]
    BY <1>3, HandlerMoves
  <2>3. ~shared
    <3>1. CASE Stage(n) \/ StageFails(n)
      BY <1>t, <3>1 DEF Stage, StageFails
    <3>2. CASE Unstage(n)
      BY <3>2 DEF Unstage
    <3>3. QED
      BY <2>2, <3>1, <3>2
  <2>4. /\ \A m \in Run : run[m].ran \in {NoSample, run[m].data}
        /\ \A m \in Run : Uses(m) => staged[run[m].name] = run[m].data
        /\ \A k, m \in Run : Uses(k) /\ Uses(m) /\ run[k].name = run[m].name => k = m
    BY <2>3 DEF StagedInv
  <2>5. ~Uses(n) \/ run[n].pc # "idle"
    BY DEF Uses
  <2>6. \A m \in Run : run'[m].ran \in {NoSample, run'[m].data}
    BY <2>1, <2>2, <2>4, <2>5
  <2>7. \A m \in Run \ {n} : Uses(m)' <=> Uses(m)
    BY <2>1 DEF Uses
  <2>8. CASE (Stage(n) \/ StageFails(n)) /\ ~Uses(n)
    <3>1. run[n].pc = "stage" /\ Using(run[n].name) = {}
      BY <2>8, <1>t DEF Stage, StageFails
    <3>2. /\ run[n].name \in Filename /\ run'[n].name = run[n].name /\ run'[n].data = run[n].data
      BY <1>t, <2>2, <3>1 DEF RunInv, Flow
    <3>3. \A m \in Run : Uses(m) => run[m].name # run[n].name
      BY <3>1 DEF Using, Uses
    <3>4. \A f \in Filename \ {run[n].name} : staged'[f] = staged[f]
      BY <1>t, <2>8, <3>2 DEF Stage, StageFails
    <3>5. ASSUME NEW m \in Run \ {n}, Uses(m)
          PROVE  run[m].name \in Filename \ {run[n].name}
      BY <1>t, <3>3, <3>5 DEF RunInv, Flow, Uses
    <3>6. \A m \in Run \ {n} : Uses(m)' => staged'[run'[m].name] = run'[m].data
      BY <2>1, <2>4, <2>7, <3>4, <3>5
    <3>7. Uses(n)' => staged'[run'[n].name] = run'[n].data
      <4>1. CASE Stage(n)
        BY <1>t, <3>2, <4>1 DEF Stage
      <4>2. CASE StageFails(n)
        <5>1. ~Uses(n)'
          BY <1>t, <4>2, FailsStep DEF StageFails, Uses, Stops
        <5>2. QED
          BY <5>1
      <4>3. QED
        BY <2>8, <4>1, <4>2
    <3>8. \A k, m \in Run : Uses(k)' /\ Uses(m)' /\ run'[k].name = run'[m].name => k = m
      BY <2>1, <2>4, <2>7, <3>2, <3>3
    <3>9. QED
      BY <2>6, <3>6, <3>7, <3>8 DEF StagedInv
  <2>9. CASE Unstage(n) /\ Uses(n) /\ ~Uses(n)'
    <3>1. \A m \in Run \ {n} : Uses(m) => run[m].name # run[n].name
      BY <2>4, <2>9
    <3>2. ASSUME NEW m \in Run \ {n}, Uses(m) PROVE staged'[run[m].name] = staged[run[m].name]
      <4>1. run[m].name \in Filename
        BY <1>t, <3>2 DEF RunInv, Flow, Uses
      <4>2. QED
        BY <1>t, <2>9, <3>1, <3>2, <4>1 DEF Unstage
    <3>3. \A m \in Run : Uses(m)' => staged'[run'[m].name] = run'[m].data
      BY <2>1, <2>4, <2>7, <2>9, <3>2
    <3>4. \A k, m \in Run : Uses(k)' /\ Uses(m)' /\ run'[k].name = run'[m].name => k = m
      BY <2>1, <2>4, <2>7, <2>9
    <3>5. QED
      BY <2>6, <3>3, <3>4 DEF StagedInv
  <2>10. CASE staged' = staged /\ shared' = shared /\ (Uses(n) <=> Uses(n)')
    <3>1. \A m \in Run : Uses(m)' => /\ Uses(m) /\ run'[m].data = run[m].data
                                     /\ run'[m].name = run[m].name
      BY <2>1, <2>2, <2>5, <2>7, <2>10
    <3>2. QED
      BY <1>1, <2>6, <2>10, <3>1
  <2>11. QED
    BY <2>2, <2>8, <2>9, <2>10
<1>4. ASSUME NEW n \in Run, Engine(n) PROVE StagedInv'
  BY <1>2, <1>4, <1>t, EngineFrame
<1>5. CASE Crash
  <2>1. /\ UNCHANGED << staged, shared >>
        /\ \A n \in Run :
             \/ run'[n] = run[n] /\ run[n].pc \in {"idle", "done", "dead"}
             \/ run'[n].pc = "dead" /\ Keeps(n) /\ Carries(n)
    BY <1>5, <1>t, CrashFrame
  <2>2. ~shared /\ \A m \in Run : run'[m].ran = run[m].ran /\ run'[m].data = run[m].data /\ ~Uses(m)'
    BY <2>1 DEF Keeps, Carries, Uses
  <2>3. QED
    BY <1>1, <2>1, <2>2 DEF StagedInv
<1>6. CASE \/ \E p \in Proposed : ProposeManually(p[1], p[2])
           \/ \E a \in Admin : Review(a)
  BY <1>2, <1>6, <1>t, ReviewStep
<1>7. CASE UNCHANGED vars
  BY <1>2, <1>7 DEF vars
<1>8. QED
  BY <1>3, <1>4, <1>5, <1>6, <1>7 DEF Next

\* While nothing has failed, a file that is there is in use.
LEMMA LeftStep == DetonationInv /\ LeftInv /\ [Next]_vars => LeftInv'
<1> SUFFICES ASSUME DetonationInv, LeftInv, [Next]_vars, excused' = {} PROVE LeftInv'
  BY DEF LeftInv
<1>t. /\ TypeOK /\ \A m \in Run : RunInv(m)
      /\ run \in [Run -> Handling] /\ staged \in [Filename -> Content \cup {NoFile}]
  BY DEF DetonationInv, TypeOK
<1>1. ASSUME UNCHANGED << staged, excused, run >> PROVE LeftInv'
  BY <1>1 DEF LeftInv, Using
<1>2. ASSUME NEW n \in Run, Submit(n) \/ Handler(n) PROVE LeftInv'
  <2>1. (\A m \in Run \ {n} : run'[m] = run[m]) /\ excused = {}
    BY <1>2, <1>t, HandlerFrame
  <2>2. /\ \/ run[n].pc = "idle"
           \/ run'[n].data = run[n].data /\ run'[n].name = run[n].name
        /\ \/ Stage(n) /\ ~Uses(n) /\ Uses(n)'
           \/ StageFails(n) /\ ~Uses(n) /\ ~Uses(n)'
           \/ Unstage(n) /\ Uses(n) /\ ~Uses(n)'
           \/ staged' = staged /\ shared' = shared /\ (Uses(n) <=> Uses(n)')
    BY <1>2, HandlerMoves
  <2>3. \A f \in Filename : staged[f] # NoFile => \E m \in Run : run[m].name = f /\ Uses(m)
    BY <2>1 DEF LeftInv, Using, Uses
  <2>4. \A m \in Run \ {n} : Uses(m) <=> Uses(m)'
    BY <2>1 DEF Uses
  <2>5. SUFFICES ASSUME NEW f \in Filename, staged'[f] # NoFile
                 PROVE  \E m \in Run : run'[m].name = f /\ Uses(m)'
    BY DEF LeftInv, Using, Uses
  <2>6. CASE Stage(n) /\ Uses(n)'
    <3>1. run[n].pc = "stage" /\ run'[n].name = run[n].name
      BY <2>2, <2>6 DEF Stage
    <3>2. CASE f = run[n].name
      BY <2>6, <3>1, <3>2
    <3>3. CASE f # run[n].name
      <4>1. staged'[f] = staged[f]
        BY <1>t, <2>6, <3>3 DEF Stage
      <4>2. QED
        BY <2>1, <2>2, <2>3, <2>4, <2>5, <2>6, <3>3, <4>1
    <3>4. QED
      BY <3>2, <3>3
  <2>7. CASE StageFails(n)
    BY <2>1, <2>7 DEF StageFails
  <2>8. CASE Unstage(n)
    <3>1. f # run[n].name /\ staged'[f] = staged[f]
      BY <1>t, <2>5, <2>8 DEF Unstage
    <3>2. QED
      BY <2>1, <2>3, <2>4, <2>5, <3>1
  <2>9. CASE staged' = staged /\ (Uses(n) <=> Uses(n)')
    <3>1. PICK m \in Run : run[m].name = f /\ Uses(m)
      BY <2>3, <2>5, <2>9
    <3>2. run'[m].name = f
      BY <2>1, <2>2, <3>1 DEF Uses
    <3>3. QED
      BY <2>4, <2>9, <3>1, <3>2
  <2>10. QED
    BY <2>2, <2>6, <2>7, <2>8, <2>9
<1>3. ASSUME NEW n \in Run, Engine(n) PROVE LeftInv'
  BY <1>1, <1>3, <1>t, EngineFrame
<1>4. CASE Crash
  BY <1>4, <1>t, CrashFrame
<1>5. CASE \/ \E p \in Proposed : ProposeManually(p[1], p[2])
           \/ \E a \in Admin : Review(a)
  BY <1>1, <1>5, <1>t, ReviewStep
<1>6. CASE UNCHANGED vars
  BY <1>1, <1>6 DEF vars
<1>7. QED
  BY <1>2, <1>3, <1>4, <1>5, <1>6 DEF Next

\* A verdict from a run is about the bytes it names, while no two runs have shared
\* a temporary file (samples.go, detonateAndScore).
THEOREM VerdictsFit == Spec => []VerdictFitsSample
<1>1. Init => StagedInv
  BY DEF Init, StagedInv, Uses
<1>2. DetonationInv /\ StagedInv => VerdictFitsSample
  <2> SUFFICES ASSUME DetonationInv, StagedInv, ~shared, NEW n \in Run, log[n].method = "dynamic"
               PROVE  run[n].ran = run[n].data
    BY DEF VerdictFitsSample, OwnBytes
  <2>1. /\ Flow(n) /\ Scored(n) /\ engine[n] \in ScoreCall
        /\ run[n].ran \in {NoSample, run[n].data}
    BY DEF DetonationInv, RunInv, TypeOK, StagedInv
  <2>2. /\ log[n] = engine[n].entry /\ engine[n].pc # "none"
        /\ log[n] = Score(engine[n].known, run[n].matches, run[n].timedOut, EventsOf(n))
    BY <2>1 DEF Scored, NoVerdict, ScoreCall
  <2>3. ~run[n].matches
    BY <2>2 DEF Score
  <2>4. run[n].ran \in Content
    BY <2>1, <2>2, <2>3 DEF Flow
  <2>5. QED
    BY <2>1, <2>4, NamesAssumption
<1>3. QED
  BY InitHolds, DetonationStep, StagedStep, <1>1, <1>2, PTL DEF Spec

\* A finished run leaves nothing in Docker, and no file outlives its runs, unless a
\* failure explains it.
THEOREM LeftoversAlwaysExplained == Spec => []LeftoversExplained
<1>1. Init => LeftInv
  BY DEF Init, LeftInv
<1>2. DetonationInv /\ LeftInv => LeftoversExplained
  BY DEF DetonationInv, RunInv, Held, LeftInv, LeftoversExplained
<1>3. QED
  BY InitHolds, DetonationStep, LeftStep, <1>1, <1>2, PTL DEF Spec

-------------------------------------------------------------------------------
(* Review and proposals *)

\* A decided row stays as it was decided.
DecidedStay ==
  \A d \in Data :
    /\ hashes[d].status \in {"approved", "rejected"} => hashes'[d].status = hashes[d].status
    /\ corpus[d].status \in {"approved", "rejected"} => corpus'[d].status = corpus[d].status

\* What a decision says of its row is true of the tables.
Says(hs, cs, x) == (IF x.table = "hashes" THEN hs ELSE cs)[x.key].status = x.status

\* What an admin has decided is what the row says, before it is audited and after.
ReviewInv ==
  /\ \A x \in decisions : Says(hashes, corpus, x)
  /\ \A a \in Admin : review[a] # NoReview => Says(hashes, corpus, review[a])

\* No step changes a decided row.
LEMMA DecisionsStay ==
  ASSUME DetonationInv, [Next]_vars
  PROVE  DecidedStay
<1> USE DEF docker, tables, admins
<1>t. TypeOK /\ hashes \in [Data -> Row] /\ corpus \in [Data -> Row] /\ \A n \in Run : RunInv(n)
  BY DEF DetonationInv, TypeOK
<1>1. CASE UNCHANGED << hashes, corpus >>
  BY <1>1 DEF DecidedStay
<1>2. ASSUME NEW table \in [Data -> Row], NEW d \in Data, NEW source \in {"auto", "manual"}
      PROVE  \A k \in Data : table[k].status \in {"approved", "rejected"} =>
               Propose(table, d, source)[k].status = table[k].status
  <2> SUFFICES ASSUME NEW k \in Data, table[k].status \in {"approved", "rejected"}
               PROVE  Propose(table, d, source)[k].status = table[k].status
    OBVIOUS
  <2>1. \/ Propose(table, d, source)[k] = table[k]
        \/ table[k].status = "absent"
    BY ProposeRow
  <2>2. QED
    BY <2>1
<1>3. ASSUME NEW n \in Run, Engine(n) PROVE DecidedStay
  <2>1. /\ corpus' = corpus
        /\ hashes' = hashes \/ (engine[n].pc = "judge" /\ hashes' = Propose(hashes, run[n].data, "auto"))
    BY <1>3, <1>t, EngineFrame
  <2>2. engine[n].pc = "judge" => run[n].data \in Data
    BY <1>t DEF RunInv, Flow, EngineIdle
  <2>3. QED
    BY <1>t, <1>2, <2>1, <2>2 DEF DecidedStay
<1>4. ASSUME NEW p \in Proposed, ProposeManually(p[1], p[2]) PROVE DecidedStay
  <2>1. p[2] \in Data
    BY DetonationAssumption
  <2>2. \/ hashes' = Propose(hashes, p[2], "manual") /\ corpus' = corpus
        \/ corpus' = Propose(corpus, p[2], "manual") /\ hashes' = hashes
    BY <1>4 DEF ProposeManually, SetTable, TableOf
  <2>3. QED
    BY <1>t, <1>2, <2>1, <2>2 DEF DecidedStay
<1>5. ASSUME NEW a \in Admin, NEW t \in Table, NEW d \in Data, DecideRow(a, t, d) PROVE DecidedStay
  <2>1. \E s \in {"approved", "rejected"} :
          \/ hashes' = Decide(hashes, d, s) /\ corpus' = corpus /\ Decidable(hashes, d)
          \/ corpus' = Decide(corpus, d, s) /\ hashes' = hashes /\ Decidable(corpus, d)
    BY <1>5 DEF DecideRow, SetTable, TableOf
  <2>2. ASSUME NEW table \in [Data -> Row], NEW s \in {"approved", "rejected"}, Decidable(table, d)
        PROVE  \A k \in Data : table[k].status \in {"approved", "rejected"} =>
                 Decide(table, d, s)[k].status = table[k].status
    BY <2>2, DecideRows
  <2>3. QED
    BY <1>t, <2>1, <2>2 DEF DecidedStay
<1>6. ASSUME NEW a \in Admin, AuditDecision(a) \/ AuditDecisionFails(a) PROVE DecidedStay
  BY <1>1, <1>6 DEF AuditDecision, AuditDecisionFails
<1>7. ASSUME NEW n \in Run, Submit(n) \/ Handler(n) PROVE DecidedStay
  BY <1>1, <1>7, <1>t, HandlerFrame
<1>8. QED
  BY <1>1, <1>3, <1>4, <1>5, <1>6, <1>7 DEF Next, Review, Crash, vars

\* Decisions stay true of their rows.
LEMMA ReviewInvStep == DetonationInv /\ ReviewInv /\ [Next]_vars => ReviewInv'
<1> SUFFICES ASSUME DetonationInv, ReviewInv, [Next]_vars PROVE ReviewInv'
  OBVIOUS
<1> USE DEF docker, tables, admins
<1>t. /\ TypeOK /\ hashes \in [Data -> Row] /\ corpus \in [Data -> Row]
      /\ review \in [Admin -> Decision \cup {NoReview}] /\ decisions \subseteq Decision
  BY DEF DetonationInv, TypeOK
<1>s. ASSUME NEW x \in Decision, Says(hashes, corpus, x) PROVE Says(hashes', corpus', x)
  <2>1. x.key \in Data /\ x.status \in {"approved", "rejected"}
    BY DEF Decision
  <2>2. QED
    BY <1>s, <2>1, DecisionsStay DEF DecidedStay, Says
<1>o. /\ \A x \in decisions : Says(hashes', corpus', x)
      /\ \A a \in Admin : review[a] # NoReview => Says(hashes', corpus', review[a])
  BY <1>t, <1>s DEF ReviewInv
<1>1. ASSUME \A x \in decisions' : x \in decisions \/ \E a \in Admin : review[a] = x /\ x # NoReview,
             \A a \in Admin : review'[a] \in {NoReview, review[a]}
      PROVE  ReviewInv'
  BY <1>1, <1>o DEF ReviewInv
<1>2. ASSUME UNCHANGED << review, decisions >> PROVE ReviewInv'
  BY <1>2, <1>o DEF ReviewInv
<1>3. ASSUME NEW a \in Admin, NEW t \in Table, NEW d \in Data, DecideRow(a, t, d) PROVE ReviewInv'
  <2>1. PICK s \in {"approved", "rejected"} :
          /\ SetTable(t, Decide(TableOf(t), d, s))
          /\ review' = [review EXCEPT ![a] = [table |-> t, key |-> d, status |-> s]]
    BY <1>3 DEF DecideRow
  <2>2. Decidable(TableOf(t), d) /\ decisions' = decisions
    BY <1>3 DEF DecideRow
  <2>3. Says(hashes', corpus', [table |-> t, key |-> d, status |-> s])
    <3>1. CASE t = "hashes"
      <4>1. hashes' = Decide(hashes, d, s) /\ Decidable(hashes, d)
        BY <2>1, <2>2, <3>1 DEF SetTable, TableOf
      <4>2. QED
        BY <1>t, <3>1, <4>1, DecideRows DEF Says
    <3>2. CASE t # "hashes"
      <4>1. corpus' = Decide(corpus, d, s) /\ Decidable(corpus, d)
        BY <2>1, <2>2, <3>2 DEF SetTable, TableOf
      <4>2. QED
        BY <1>t, <3>2, <4>1, DecideRows DEF Says
    <3>3. QED
      BY <3>1, <3>2
  <2>4. ASSUME NEW b \in Admin, review'[b] # NoReview PROVE Says(hashes', corpus', review'[b])
    <3>1. CASE b = a
      BY <1>t, <2>1, <2>3, <3>1
    <3>2. CASE b # a
      BY <1>t, <1>o, <2>1, <2>4, <3>2
    <3>3. QED
      BY <3>1, <3>2
  <2>5. QED
    BY <1>o, <2>2, <2>4 DEF ReviewInv
<1>4. ASSUME NEW a \in Admin, AuditDecision(a) \/ AuditDecisionFails(a) PROVE ReviewInv'
  <2>1. review[a] # NoReview
    BY <1>4 DEF AuditDecision, AuditDecisionFails
  <2>2. /\ decisions' \subseteq decisions \cup {review[a]}
        /\ review' = [review EXCEPT ![a] = NoReview]
    BY <1>4 DEF AuditDecision, AuditDecisionFails
  <2>3. QED
    BY <1>1, <1>t, <2>1, <2>2
<1>5. ASSUME NEW p \in Proposed, ProposeManually(p[1], p[2]) PROVE ReviewInv'
  BY <1>2, <1>5 DEF ProposeManually
<1>6. ASSUME NEW n \in Run, Submit(n) \/ Handler(n) PROVE ReviewInv'
  BY <1>2, <1>6, <1>t, HandlerFrame
<1>7. ASSUME NEW n \in Run, Engine(n) PROVE ReviewInv'
  BY <1>2, <1>7, <1>t, EngineFrame
<1>8. CASE Crash \/ UNCHANGED vars
  BY <1>2, <1>8 DEF Crash, vars
<1>9. QED
  BY <1>3, <1>4, <1>5, <1>6, <1>7, <1>8 DEF Next, Review

\* The run behind a row the engine has proposed.
Behind(n, d) ==
  /\ run[n].data = d /\ run[n].source = "sample"
  /\ engine[n].entry = [verdict |-> "Compromised", method |-> "dynamic"]
  /\ log[n] = engine[n].entry \/ engine[n].pc \in {"append", "failed"}

\* A row proposed by the engine keeps the run that is behind it.
LEMMA ProposalStep == DetonationInv /\ AutoProposalExplained /\ [Next]_vars => AutoProposalExplained'
<1> SUFFICES ASSUME DetonationInv, AutoProposalExplained, [Next]_vars,
                    NEW d \in Data, hashes'[d].source = "auto"
             PROVE  \E n \in Run : Behind(n, d)'
  BY DEF AutoProposalExplained, Behind
<1>t. /\ TypeOK /\ hashes \in [Data -> Row] /\ engine \in [Run -> ScoreCall]
      /\ log \in [Run -> Entry \cup {NoVerdict}]
      /\ \A n \in Run : Flow(n) /\ Scored(n)
  BY DEF DetonationInv, TypeOK, RunInv
<1>o. hashes[d].source = "auto" => \E n \in Run : Behind(n, d)
  BY DEF AutoProposalExplained, Behind
\* The run stays behind the row, whoever steps.
<1>1. ASSUME NEW n \in Run, Behind(n, d), run'[n].data = run[n].data, run'[n].source = run[n].source,
             engine'[n] = engine[n], log'[n] = log[n]
      PROVE  Behind(n, d)'
  BY <1>1 DEF Behind
<1>2. ASSUME NEW n \in Run, Submit(n) \/ Handler(n) PROVE \E m \in Run : Behind(m, d)'
  <2>1. /\ UNCHANGED << hashes, log >>
        /\ \A m \in Run \ {n} : run'[m] = run[m] /\ engine'[m] = engine[m]
    BY <1>2, <1>t, HandlerFrame
  <2>2. PICK m \in Run : Behind(m, d)
    BY <1>o, <2>1
  <2>3. CASE m # n
    BY <1>1, <2>1, <2>2, <2>3
  <2>4. CASE m = n
    <3>1. engine[n].pc \notin {"none", "judge"}
      BY <1>t, <2>2, <2>4 DEF Behind, Scored, NoVerdict
    <3>2. run'[n].data = run[n].data /\ run'[n].source = run[n].source
      BY <1>2, <3>1, HandlerMoves
    <3>3. engine'[n] = engine[n]
      <4>1. ~PostScore(n)
        BY <1>t, <3>1 DEF PostScore, Flow, EngineIdle
      <4>2. engine' = engine
        BY <1>2, <4>1 DEF Submit, Handler, Triage, TriageFails, Stage, StageFails, CreateNetwork,
             NetworkFails, StartShadowContainer, StartFails, CopyFile, ExecFails, CallHangs,
             StreamEnds, SensorKills, StreamStalls,
             StreamStopped, StreamCut, ScoreReturns, ScoreFails, ScoreGivenUp, Teardown,
             TeardownFails, Unstage
      <4>3. QED
        BY <4>2
    <3>4. QED
      BY <1>1, <2>1, <2>2, <2>4, <3>2, <3>3
  <2>5. QED
    BY <2>3, <2>4
<1>3. ASSUME NEW n \in Run, Engine(n) PROVE \E m \in Run : Behind(m, d)'
  <2>1. /\ run' = run
        /\ \A m \in Run \ {n} : engine'[m] = engine[m] /\ log'[m] = log[m]
        /\ \/ hashes' = hashes
           \/ /\ engine[n].pc = "judge" /\ run[n].source = "sample"
              /\ engine'[n].pc = "append" /\ engine'[n].entry = [verdict |-> "Compromised", method |-> "dynamic"]
              /\ hashes' = Propose(hashes, run[n].data, "auto")
    BY <1>3, <1>t, EngineFrame
  <2>2. CASE hashes[d].source = "auto"
    <3>1. PICK m \in Run : Behind(m, d)
      BY <1>o, <2>2
    <3>2. CASE m # n
      BY <1>1, <2>1, <3>1, <3>2
    <3>3. CASE m = n
      <4>1. engine[n].entry # NoVerdict
        BY <3>1, <3>3 DEF Behind, NoVerdict
      <4>2. engine[n].pc \in {"append", "reply"} /\ (engine[n].pc = "reply" => log[n] = engine[n].entry)
        BY <1>3, <1>t, <4>1 DEF Scored, Engine, Judge, ProposalFails, AppendVerdict, EngineFails
      <4>3. engine'[n].entry = engine[n].entry /\ (log'[n] = engine[n].entry \/ engine'[n].pc = "failed")
        <5>1. CASE AppendVerdict(n)
          BY <1>t, <5>1 DEF AppendVerdict, ScoreCall
        <5>2. CASE EngineFails(n)
          BY <1>t, <5>2 DEF EngineFails, ScoreCall
        <5>3. QED
          BY <1>3, <4>2, <5>1, <5>2 DEF Engine, Judge, ProposalFails
      <4>4. Behind(n, d)'
        BY <2>1, <3>1, <3>3, <4>3 DEF Behind
      <4>5. QED
        BY <4>4
    <3>4. QED
      BY <3>2, <3>3
  <2>3. CASE hashes[d].source # "auto"
    <3>1. /\ engine[n].pc = "judge" /\ run[n].source = "sample"
          /\ engine'[n].pc = "append" /\ engine'[n].entry = [verdict |-> "Compromised", method |-> "dynamic"]
          /\ hashes' = Propose(hashes, run[n].data, "auto")
      BY <2>1, <2>3
    <3>2. run[n].data \in Data
      BY <1>t, <3>1 DEF Flow, EngineIdle
    <3>3. d = run[n].data
      BY <1>t, <2>3, <3>1, <3>2, ProposeRow
    <3>4. Behind(n, d)'
      BY <2>1, <3>1, <3>3 DEF Behind
    <3>5. QED
      BY <3>4
  <2>4. QED
    BY <2>2, <2>3
<1>4. CASE Crash
  <2>1. /\ UNCHANGED << engine, hashes, log >>
        /\ \A n \in Run : run'[n] = run[n] \/ Keeps(n)
    BY <1>4, <1>t, CrashFrame
  <2>2. QED
    BY <1>o, <1>1, <2>1 DEF Keeps
<1>5. CASE \/ \E p \in Proposed : ProposeManually(p[1], p[2])
           \/ \E a \in Admin : Review(a)
  <2>1. UNCHANGED << run, engine, log >> /\ hashes[d].source = "auto"
    BY <1>5, <1>t, ReviewStep
  <2>2. QED
    BY <1>o, <1>1, <2>1
<1>6. CASE UNCHANGED vars
  <2>1. UNCHANGED << run, engine, log, hashes >>
    BY <1>6 DEF vars, tables
  <2>2. QED
    BY <1>o, <1>1, <2>1
<1>7. QED
  BY <1>2, <1>3, <1>4, <1>5, <1>6 DEF Next

\* Every decision in the audit log is the one its row still has.
THEOREM DecisionsStand == Spec => []AuditedDecisionStands
<1>1. Init => ReviewInv
  BY DEF Init, ReviewInv
<1>2. ReviewInv => AuditedDecisionStands
  BY DEF ReviewInv, AuditedDecisionStands, Says, TableOf
<1>3. QED
  BY InitHolds, DetonationStep, ReviewInvStep, <1>1, <1>2, PTL DEF Spec

\* An automatic proposal is backed by a Compromised verdict on an uploaded sample.
THEOREM ProposalsAreExplained == Spec => []AutoProposalExplained
<1>1. Init => AutoProposalExplained
  BY DEF Init, AutoProposalExplained, NoRow
<1>2. QED
  BY InitHolds, DetonationStep, ProposalStep, <1>1, PTL DEF Spec

===============================================================================
