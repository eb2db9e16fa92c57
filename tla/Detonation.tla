------------------------------- MODULE Detonation ------------------------------
(***************************************************************************)
(* Detonation: the path of a file from an upload or the interceptor to a   *)
(* verdict.  detonateAndScore (backend/samples.go) asks for a static       *)
(* triage, stages the bytes in a temporary file, runs them in a shadow     *)
(* container on a network of its own (backend/dockermanager.go), and has   *)
(* what the sensor saw scored; /score (verdict-engine/app.py) looks the    *)
(* hash up, judges, proposes the hash and appends the verdict to the audit *)
(* log.  Admins decide the proposed hashes and corpus samples meanwhile.   *)
(*                                                                         *)
(* A run is one request: its handler goroutine in the backend and its      *)
(* /score call in the verdict engine.  A sample's hash is the sample.      *)
(***************************************************************************)
EXTENDS ReviewTable, Scoring

CONSTANTS
  Run,        \* requests, numbered in the order they arrive
  Data,       \* samples
  Filename,   \* the base names they are uploaded under
  Partial,    \* what a failed write leaves in the temporary file
  Trace,      \* [Data \cup {Partial} -> Seq(Event)]: what each does when it runs
  Slow,       \* << run, sample >>: it outlasts the sensor's 15 seconds in this run
  Yara,       \* the samples a YARA rule matches
  Alike,      \* [Data -> SUBSET Data]: the corpus samples each is similar to
  Admin,      \* admins deciding proposals
  Submitted,  \* bound: what is submitted, as << sample, source >>
  Proposed,   \* bound: the rows people propose, as << table, sample >>
  MaxFaults   \* bound: failures and crashes

Origin == {"sample", "interceptor"}
Table == {"hashes", "corpus"}
Content == Data \cup {Partial}

ASSUME DetonationAssumption ==
  /\ Run \subseteq Nat
  /\ Partial \notin Data
  /\ Trace \in [Content -> Seq(Event)]
  /\ Slow \subseteq Run \X Data /\ Yara \subseteq Data
  /\ Alike \in [Data -> SUBSET Data]
  /\ Submitted \subseteq Data \X Origin /\ Proposed \subseteq Table \X Data
  /\ MaxFaults \in Nat

VARIABLES
  run,        \* the handler of each request
  engine,     \* its /score call in the verdict engine
  staged,     \* os.TempDir(): the content of each temporary file
  nets,       \* Docker: the runs whose shadow network exists
  box,        \* Docker: the state of each run's shadow container
  hashes,     \* known_bad_hashes
  corpus,     \* known_bad_samples
  log,        \* the audit log's verdict of each run
  review,     \* where each admin's decision is
  decisions,  \* the decisions in the audit log
  shared,     \* history: two runs used one temporary file at once
  excused,    \* history: runs whose leftovers a failure explains
  faults

docker == << nets, box >>
tables == << hashes, corpus >>
admins == << review, decisions >>
vars == << run, engine, staged, docker, tables, log, admins, shared, excused, faults >>

NoFile == "NoFile"
NoSample == "NoSample"
ASSUME NamesAssumption == {NoFile, NoSample} \cap (Content \cup Filename) = {}

NoVerdict == [verdict |-> "none", method |-> "none"]
Entry == [verdict : Verdict, method : {"known_bad_hash", "static_triage", "dynamic"}]
NoReview == [table |-> "none"]
Decision == [table : Table, key : Data, status : {"approved", "rejected"}]

Handling == [pc : {"idle", "triage", "stage", "network", "start", "copy", "stream",
                   "stalled",                   \* the container has stopped answering
                   "score", "wait", "teardown", "unstage", "done", "dead",
                   "hung"},                     \* in a call nothing bounds
             data : Data \cup {NoSample}, name : Filename \cup {NoFile},
             source : Origin, matches : BOOLEAN,
             container : BOOLEAN,            \* containerID is set
             ran : Content \cup {NoSample},  \* what is in the container
             seen : Nat,                     \* events received
             timedOut : BOOLEAN,
             ended : {"no", "complete", "early", "late"},  \* history: the stream
             answer : Verdict \cup {"none", "error"}]
ScoreCall == [pc : {"none", "judge", "append", "reply", "failed"},
              known : BOOLEAN, entry : Entry \cup {NoVerdict}]

TypeOK ==
  /\ run \in [Run -> Handling] /\ engine \in [Run -> ScoreCall]
  /\ staged \in [Filename -> Content \cup {NoFile}]
  /\ nets \subseteq Run
  /\ box \in [Run -> {"none", "created", "running"}]
  /\ hashes \in [Data -> Row] /\ corpus \in [Data -> Row]
  /\ log \in [Run -> Entry \cup {NoVerdict}]
  /\ review \in [Admin -> Decision \cup {NoReview}]  \* decided and not yet audited
  /\ decisions \subseteq Decision
  /\ shared \in BOOLEAN /\ excused \subseteq Run /\ faults \in 0..MaxFaults

Init ==
  /\ run = [n \in Run |->
              [pc |-> "idle", data |-> NoSample, name |-> NoFile, source |-> "sample",
               matches |-> FALSE, container |-> FALSE, ran |-> NoSample, seen |-> 0,
               timedOut |-> FALSE, ended |-> "no", answer |-> "none"]]
  /\ engine = [n \in Run |-> [pc |-> "none", known |-> FALSE, entry |-> NoVerdict]]
  /\ staged = [f \in Filename |-> NoFile]
  /\ nets = {} /\ box = [n \in Run |-> "none"]
  /\ hashes = [d \in Data |-> NoRow] /\ corpus = [d \in Data |-> NoRow]
  /\ log = [n \in Run |-> NoVerdict]
  /\ review = [a \in Admin |-> NoReview]
  /\ decisions = {}
  /\ shared = FALSE /\ excused = {} /\ faults = 0

-------------------------------------------------------------------------------
(* detonateAndScore: before Docker *)

Fault == faults < MaxFaults /\ faults' = faults + 1
Goto(n, pc) == run' = [run EXCEPT ![n].pc = pc]
Fails(n, pc) == run' = [run EXCEPT ![n].pc = pc, ![n].answer = "error"]

\* A request arrives and its body has been read.
Submit(n) ==
  /\ run[n].pc = "idle" /\ \A m \in Run : m < n => run[m].pc # "idle"
  /\ \E x \in Submitted, f \in Filename :
       run' = [run EXCEPT ![n].pc = "triage", ![n].data = x[1], ![n].name = f,
                          ![n].source = x[2]]
  /\ UNCHANGED << engine, staged, docker, tables, log, admins, shared, excused, faults >>

ByYara(d) == d \in Yara
ByCorpus(d) == \E k \in Alike[d] : Matches(corpus, k)

Triaged(n, found) ==
  run' = [run EXCEPT ![n].matches = found, ![n].pc = IF found THEN "score" ELSE "stage"]

Triage(n) ==
  /\ run[n].pc = "triage"
  /\ Triaged(n, ByYara(run[n].data) \/ ByCorpus(run[n].data))
  /\ UNCHANGED << engine, staged, docker, tables, log, admins, shared, excused, faults >>

\* One scan raises, or the call itself fails: no match, and the run goes on.
TriageFails(n) ==
  /\ run[n].pc = "triage"
  /\ Fault
  /\ \E found \in {ByYara(run[n].data), ByCorpus(run[n].data), FALSE} : Triaged(n, found)
  /\ UNCHANGED << engine, staged, docker, tables, log, admins, shared, excused >>

\* The runs between os.WriteFile and os.Remove of a temporary file.
Using(f) == {m \in Run : /\ run[m].name = f
                         /\ run[m].pc \in {"network", "start", "copy", "stream", "stalled",
                                           "score", "wait", "teardown", "unstage", "hung"}
                         /\ ~run[m].matches}

\* os.WriteFile truncates whatever is there.  Mutant: a file that exists is kept.
Stage_Keep(n) ==
  /\ run[n].pc = "stage"
  /\ LET f == run[n].name IN
       /\ staged' = [staged EXCEPT ![f] = IF @ = NoFile THEN run[n].data ELSE @]
       /\ shared' = (shared \/ Using(f) # {})
  /\ Goto(n, "network")
  /\ UNCHANGED << engine, docker, tables, log, admins, excused, faults >>
Stage(n) ==
  /\ run[n].pc = "stage"
  /\ LET f == run[n].name IN
       /\ staged' = [staged EXCEPT ![f] = run[n].data]
       /\ shared' = (shared \/ Using(f) # {})
  /\ Goto(n, "network")
  /\ UNCHANGED << engine, docker, tables, log, admins, excused, faults >>

\* The write fails, and the deferred os.Remove is not registered yet.
StageFails(n) ==
  /\ run[n].pc = "stage"
  /\ Fault
  /\ LET f == run[n].name IN
       /\ \E c \in {staged[f], Partial} : staged' = [staged EXCEPT ![f] = c]
       /\ shared' = (shared \/ Using(f) # {})
  /\ Fails(n, "done")
  /\ excused' = excused \cup {n}
  /\ UNCHANGED << engine, docker, tables, log, admins >>

-------------------------------------------------------------------------------
(* The shadow network and container *)

CreateNetwork(n) ==
  /\ run[n].pc = "network"
  /\ nets' = nets \cup {n}
  /\ Goto(n, "start")
  /\ UNCHANGED << engine, staged, box, tables, log, admins, shared, excused, faults >>

\* Docker refuses, or the context ends after Docker has acted.
NetworkFails(n) ==
  /\ run[n].pc = "network"
  /\ Fault
  /\ nets' \in {nets, nets \cup {n}}
  /\ Fails(n, "unstage")
  /\ excused' = excused \cup {n}
  /\ UNCHANGED << engine, staged, box, tables, log, admins, shared >>

\* ContainerCreate and ContainerStart.
StartShadowContainer(n) ==
  /\ run[n].pc = "start"
  /\ box' = [box EXCEPT ![n] = "running"]
  /\ run' = [run EXCEPT ![n].pc = "copy", ![n].container = TRUE]
  /\ UNCHANGED << engine, staged, nets, tables, log, admins, shared, excused, faults >>

\* Either call fails, with or without effect: StartShadowContainer returns
\* no id, so Teardown has nothing to remove the container by.
StartFails(n) ==
  /\ run[n].pc = "start"
  /\ Fault
  /\ \E now \in {"none", "created", "running"} : box' = [box EXCEPT ![n] = now]
  /\ Fails(n, "teardown")
  /\ excused' = excused \cup {n}
  /\ UNCHANGED << engine, staged, nets, tables, log, admins, shared >>

\* CopyFileIntoContainer reads the temporary file by its name.
CopyFile(n) ==
  /\ run[n].pc = "copy"
  /\ LET c == staged[run[n].name] IN
       IF c = NoFile THEN Fails(n, "teardown")
       ELSE run' = [run EXCEPT ![n].pc = "stream", ![n].ran = c]
  /\ UNCHANGED << engine, staged, docker, tables, log, admins, shared, excused, faults >>

\* The copy, or the exec that would run the sensor, fails.
ExecFails(n) ==
  /\ run[n].pc \in {"copy", "stream"}
  /\ Fault
  /\ Fails(n, "teardown")
  /\ UNCHANGED << engine, staged, docker, tables, log, admins, shared, excused >>

\* Docker or the container stops answering where no deadline applies: the copy
\* reads and writes a hijacked connection, which its context does not close, and
\* Teardown's context is context.Background().
CallHangs(n) ==
  /\ run[n].pc \in {"copy", "teardown"}
  /\ Fault
  /\ Goto(n, "hung")
  /\ excused' = excused \cup {n}
  /\ UNCHANGED << engine, staged, docker, tables, log, admins, shared >>

-------------------------------------------------------------------------------
(* The sensor's stream *)

StreamOver(n, k, how) ==
  run' = [run EXCEPT ![n].pc = "score", ![n].seen = k, ![n].ended = how,
                     ![n].timedOut = (how = "late")]
Seen(n) == 0..Len(Trace[run[n].ran])

\* The sample has ended, and the sensor has reported the whole trace.
StreamEnds(n) ==
  /\ run[n].pc = "stream" /\ << n, run[n].ran >> \notin Slow
  /\ StreamOver(n, Len(Trace[run[n].ran]), "complete")
  /\ UNCHANGED << engine, staged, docker, tables, log, admins, shared, excused, faults >>

\* The sample still runs after 15 seconds: wait_with_deadline kills strace, and
\* the sensor reports what the trace has by then as if it were all of it.
SensorKills(n) ==
  /\ run[n].pc = "stream" /\ << n, run[n].ran >> \in Slow
  /\ \E k \in Seen(n) : StreamOver(n, k, "early")
  /\ UNCHANGED << engine, staged, docker, tables, log, admins, shared, excused, faults >>

\* The stream neither ends nor fails any more.
StreamStalls(n) ==
  /\ run[n].pc = "stream"
  /\ Fault
  /\ Goto(n, "stalled")
  /\ UNCHANGED << engine, staged, docker, tables, log, admins, shared, excused >>

\* The deadline passes or the client leaves: closing the connection ends the
\* stream, if it has not ended just before the context is looked at.  Mutants:
\* the context is looked at before the stream is read; nothing closes the
\* connection of a stream that has stalled.
StreamStopped_Before(n) ==
  /\ run[n].pc \in {"stream", "stalled"}
  /\ \E k \in Seen(n) :
       run' = [run EXCEPT ![n].pc = "score", ![n].seen = k, ![n].ended = "late"]
  /\ UNCHANGED << engine, staged, docker, tables, log, admins, shared, excused, faults >>
StreamStopped_Open(n) ==
  /\ run[n].pc = "stream"
  /\ \E k \in Seen(n) : StreamOver(n, k, "late")
  /\ UNCHANGED << engine, staged, docker, tables, log, admins, shared, excused, faults >>
StreamStopped(n) ==
  /\ run[n].pc \in {"stream", "stalled"}
  /\ \E k \in Seen(n) : StreamOver(n, k, "late")
  /\ UNCHANGED << engine, staged, docker, tables, log, admins, shared, excused, faults >>

\* The sensor fails, the connection breaks or a line is too long: the stream stops
\* early, and nobody looks at the exit code or the scanner's error.
StreamCut(n) ==
  /\ run[n].pc = "stream"
  /\ Fault
  /\ \E k \in Seen(n) : StreamOver(n, k, "early")
  /\ UNCHANGED << engine, staged, docker, tables, log, admins, shared, excused >>

-------------------------------------------------------------------------------
(* The score call, and the way out through the deferred calls *)

\* The request reaches the engine, which looks the hash up first.
PostScore(n) ==
  /\ run[n].pc = "score"
  /\ engine' = [engine EXCEPT ![n].pc = "judge", ![n].known = Matches(hashes, run[n].data)]
  /\ Goto(n, "wait")
  /\ UNCHANGED << staged, docker, tables, log, admins, shared, excused, faults >>

\* Nothing was staged for a static match: there is nothing to clean up.
Leave(n) == IF run[n].matches THEN "done" ELSE "teardown"

\* The verdict is broadcast and becomes the answer.
ScoreReturns(n) ==
  /\ run[n].pc = "wait" /\ engine[n].pc = "reply"
  /\ run' = [run EXCEPT ![n].pc = Leave(n), ![n].answer = engine[n].entry.verdict]
  /\ UNCHANGED << engine, staged, docker, tables, log, admins, shared, excused, faults >>

\* The engine answers an error.
ScoreFails(n) ==
  /\ run[n].pc = "wait" /\ engine[n].pc = "failed"
  /\ Fails(n, Leave(n))
  /\ UNCHANGED << engine, staged, docker, tables, log, admins, shared, excused, faults >>

\* No connection, or 15 seconds are over while the engine goes on.
ScoreGivenUp(n) ==
  /\ run[n].pc \in {"score", "wait"}
  /\ Fault
  /\ Fails(n, Leave(n))
  /\ UNCHANGED << engine, staged, docker, tables, log, admins, shared, excused >>

\* Docker refuses to remove a network while a running container is attached.
RemovedNet(n, state) == IF state[n] = "running" THEN nets ELSE nets \ {n}

\* Teardown: stop and remove the container, then remove the network.
\* Mutant: the network first.
Teardown_NetFirst(n) ==
  /\ run[n].pc = "teardown"
  /\ box' = IF run[n].container THEN [box EXCEPT ![n] = "none"] ELSE box
  /\ nets' = RemovedNet(n, box)
  /\ Goto(n, "unstage")
  /\ UNCHANGED << engine, staged, tables, log, admins, shared, excused, faults >>
Teardown(n) ==
  /\ run[n].pc = "teardown"
  /\ box' = IF run[n].container THEN [box EXCEPT ![n] = "none"] ELSE box
  /\ nets' = RemovedNet(n, box')
  /\ Goto(n, "unstage")
  /\ UNCHANGED << engine, staged, tables, log, admins, shared, excused, faults >>

\* One of its calls fails; the errors are joined and nobody looks.
TeardownFails(n) ==
  /\ run[n].pc = "teardown"
  /\ Fault
  /\ box' \in {box} \cup (IF run[n].container THEN {[box EXCEPT ![n] = "none"]} ELSE {})
  /\ nets' \in {nets, RemovedNet(n, box')}
  /\ Goto(n, "unstage")
  /\ excused' = excused \cup {n}
  /\ UNCHANGED << engine, staged, tables, log, admins, shared >>

\* os.Remove of the temporary file, and the answer is written.
Unstage(n) ==
  /\ run[n].pc = "unstage"
  /\ staged' = [staged EXCEPT ![run[n].name] = NoFile]
  /\ Goto(n, "done")
  /\ UNCHANGED << engine, docker, tables, log, admins, shared, excused, faults >>

\* The backend dies with every handler in it; the next one knows nothing.
Crash ==
  /\ \E n \in Run : run[n].pc \notin {"idle", "done", "dead"}
  /\ Fault
  /\ LET alive == {n \in Run : run[n].pc \notin {"idle", "done", "dead"}} IN
       /\ run' = [n \in Run |-> IF n \in alive THEN [run[n] EXCEPT !.pc = "dead"] ELSE run[n]]
       /\ excused' = excused \cup alive
  /\ UNCHANGED << engine, staged, docker, tables, log, admins, shared >>

-------------------------------------------------------------------------------
(* score in the verdict engine *)

EventsOf(n) ==
  IF run[n].ran = NoSample THEN << >> ELSE SubSeq(Trace[run[n].ran], 1, run[n].seen)

Proposes(n, entry) ==
  /\ entry = [verdict |-> "Compromised", method |-> "dynamic"]
  /\ run[n].source = "sample"

\* The verdict is found; a behavioural Compromised proposes the hash of an
\* uploaded sample.  Mutant: of every sample.
Judge_All(n) ==
  /\ engine[n].pc = "judge"
  /\ LET entry == Score(engine[n].known, run[n].matches, run[n].timedOut, EventsOf(n)) IN
       /\ engine' = [engine EXCEPT ![n].pc = "append", ![n].entry = entry]
       /\ hashes' = IF entry.verdict = "Compromised" THEN Propose(hashes, run[n].data, "auto")
                    ELSE hashes
  /\ UNCHANGED << run, staged, docker, corpus, log, admins, shared, excused, faults >>
Judge(n) ==
  /\ engine[n].pc = "judge"
  /\ LET entry == Score(engine[n].known, run[n].matches, run[n].timedOut, EventsOf(n)) IN
       /\ engine' = [engine EXCEPT ![n].pc = "append", ![n].entry = entry]
       /\ hashes' = IF Proposes(n, entry) THEN Propose(hashes, run[n].data, "auto") ELSE hashes
  /\ UNCHANGED << run, staged, docker, corpus, log, admins, shared, excused, faults >>

\* The proposal fails: logged, and the verdict stands.
ProposalFails(n) ==
  /\ engine[n].pc = "judge"
  /\ Fault
  /\ LET entry == Score(engine[n].known, run[n].matches, run[n].timedOut, EventsOf(n)) IN
       /\ Proposes(n, entry)
       /\ engine' = [engine EXCEPT ![n].pc = "append", ![n].entry = entry]
  /\ UNCHANGED << run, staged, docker, tables, log, admins, shared, excused >>

\* The events are archived and the reply is sent; a failure to archive is
\* swallowed.
AppendVerdict(n) ==
  /\ engine[n].pc = "append"
  /\ log' = [log EXCEPT ![n] = engine[n].entry]
  /\ engine' = [engine EXCEPT ![n].pc = "reply"]
  /\ UNCHANGED << run, staged, docker, tables, admins, shared, excused, faults >>

\* A query or the append fails, or the engine dies.  Mutant: a failed
\* append is swallowed like a failed archive.
EngineFails_Swallowed(n) ==
  /\ engine[n].pc \in {"judge", "append", "reply"}
  /\ Fault
  /\ engine' = [engine EXCEPT ![n].pc = IF @ = "append" THEN "reply" ELSE "failed"]
  /\ UNCHANGED << run, staged, docker, tables, log, admins, shared, excused >>
EngineFails(n) ==
  /\ engine[n].pc \in {"judge", "append", "reply"}
  /\ Fault
  /\ engine' = [engine EXCEPT ![n].pc = "failed"]
  /\ UNCHANGED << run, staged, docker, tables, log, admins, shared, excused >>

-------------------------------------------------------------------------------
(* Review *)

TableOf(t) == IF t = "hashes" THEN hashes ELSE corpus
SetTable(t, table) ==
  IF t = "hashes" THEN hashes' = table /\ corpus' = corpus
  ELSE corpus' = table /\ hashes' = hashes

\* POST /hashes, POST /corpus by anyone who is signed in.
ProposeManually(t, d) ==
  /\ TableOf(t)[d].status = "absent"
  /\ SetTable(t, Propose(TableOf(t), d, "manual"))
  /\ UNCHANGED << run, engine, staged, docker, log, admins, shared, excused, faults >>

\* POST .../approve and .../reject: the transaction, then the audit entry.
DecideRow(a, t, d) ==
  /\ review[a] = NoReview /\ Decidable(TableOf(t), d)
  /\ \E s \in {"approved", "rejected"} :
       /\ SetTable(t, Decide(TableOf(t), d, s))
       /\ review' = [review EXCEPT ![a] = [table |-> t, key |-> d, status |-> s]]
  /\ UNCHANGED << run, engine, staged, docker, log, decisions, shared, excused, faults >>

AuditDecision(a) ==
  /\ review[a] # NoReview
  /\ decisions' = decisions \cup {review[a]}
  /\ review' = [review EXCEPT ![a] = NoReview]
  /\ UNCHANGED << run, engine, staged, docker, tables, log, shared, excused, faults >>

\* The append fails: the admin sees an error, the decision stands.
AuditDecisionFails(a) ==
  /\ review[a] # NoReview
  /\ Fault
  /\ review' = [review EXCEPT ![a] = NoReview]
  /\ UNCHANGED << run, engine, staged, docker, tables, log, decisions, shared, excused >>

-------------------------------------------------------------------------------

Handler(n) ==
  \/ Triage(n) \/ TriageFails(n) \/ Stage(n) \/ StageFails(n)
  \/ CreateNetwork(n) \/ NetworkFails(n)
  \/ StartShadowContainer(n) \/ StartFails(n)
  \/ CopyFile(n) \/ ExecFails(n) \/ CallHangs(n)
  \/ StreamEnds(n) \/ SensorKills(n) \/ StreamStalls(n) \/ StreamStopped(n) \/ StreamCut(n)
  \/ PostScore(n) \/ ScoreReturns(n) \/ ScoreFails(n) \/ ScoreGivenUp(n)
  \/ Teardown(n) \/ TeardownFails(n) \/ Unstage(n)

Engine(n) ==
  \/ Judge(n) \/ ProposalFails(n)
  \/ AppendVerdict(n) \/ EngineFails(n)

Review(a) ==
  \/ \E t \in Table, d \in Data : DecideRow(a, t, d)
  \/ AuditDecision(a) \/ AuditDecisionFails(a)

Next ==
  \/ \E n \in Run : Submit(n) \/ Handler(n) \/ Engine(n)
  \/ Crash
  \/ \E p \in Proposed : ProposeManually(p[1], p[2])
  \/ \E a \in Admin : Review(a)

\* Handlers and engine calls are goroutines and threads that are scheduled, and
\* each of their calls returns or times out, but for those of CallHangs.
Fairness == \A n \in Run : WF_vars(Handler(n)) /\ WF_vars(Engine(n))

Spec == Init /\ [][Next]_vars /\ Fairness

-------------------------------------------------------------------------------
(* Properties *)

\* Every verdict that comes from a run is about the bytes whose hash it
\* names (samples.go, detonateAndScore).
OwnBytes ==
  \A n \in Run : log[n].method = "dynamic" => run[n].ran = run[n].data

\* ... as long as no two runs use one temporary file at the same time: a
\* leftover of a crash or of a failed write never runs in another's place.
VerdictFitsSample == ~shared => OwnBytes

\* A file is called Compromised only for a hash or a similar sample an admin has
\* approved, a YARA match, or behaviour that scores as Compromised when it is seen
\* to the end.  It is called Normal, and an intercepted one goes back to its user,
\* only if its stream ended before the backend's deadline and something came
\* through that no rule takes notice of.  Only of a sample that ended by itself
\* within the sensor's 15 seconds is that all it does: one that sleeps past them
\* "comes back clean" (README.md:269), and one whose connection breaks may, too
\* (check_hash, load_known_bad, static_triage.run; samples.go, timedOut;
\* tracer.rs, wait_with_deadline; rule_scorer.py, had_telemetry).
CompromisedIsExplained(n) ==
  \/ log[n].method = "known_bad_hash" /\ hashes[run[n].data].status = "approved"
  \/ /\ log[n].method = "static_triage"
     /\ \/ run[n].data \in Yara
        \/ \E k \in Alike[run[n].data] : corpus[k].status = "approved"
  \/ log[n].method = "dynamic" /\ Judged(Trace[run[n].ran]) = "Compromised"

NormalIsEarned(n) ==
  /\ run[n].ended \in {"complete", "early"} /\ run[n].seen > 0
  /\ run[n].ended = "complete" => Rules(Trace[run[n].ran]) = {}
  /\ Rules(EventsOf(n)) = {}

VerdictIsEarned ==
  \A n \in Run :
    /\ log[n].verdict = "Compromised" => CompromisedIsExplained(n)
    /\ log[n].verdict = "Normal" => NormalIsEarned(n)

\* An automatic proposal names an uploaded sample that was Compromised by
\* its behaviour, and the verdict behind it is in the audit log or about to
\* be, unless the engine failed in between (app.py, propose_hash).
AutoProposalExplained ==
  \A d \in Data : hashes[d].source = "auto" =>
    \E n \in Run :
      /\ run[n].data = d /\ run[n].source = "sample"
      /\ engine[n].entry = [verdict |-> "Compromised", method |-> "dynamic"]
      /\ log[n] = engine[n].entry \/ engine[n].pc \in {"append", "failed"}

\* A row is decided once: every decision in the audit log is the one the row
\* still has, whoever else tried (_decide).
AuditedDecisionStands ==
  \A x \in decisions : TableOf(x.table)[x.key].status = x.status

\* The verdict a caller is given is the one in the audit log (app.py, append
\* before the reply).
AnswerIsLogged ==
  \A n \in Run : run[n].answer \in Verdict => log[n].verdict = run[n].answer

\* A finished run leaves no container and no network behind, and no
\* temporary file outlives its runs, unless a Docker call or a write failed
\* or the backend died (Teardown and the deferred os.Remove).
LeftoversExplained ==
  /\ \A n \in Run \ excused : run[n].pc = "done" => n \notin nets /\ box[n] = "none"
  /\ \A f \in Filename : staged[f] # NoFile /\ Using(f) = {} => excused # {}

\* A request never waits for what may not come: whatever the sample does and
\* whatever fails, its handler or the engine has a next step until it is
\* answered, unless the backend dies (execAndStream closes the stream at the
\* deadline) or the request hangs in the copy or in Teardown, whose waits for
\* Docker have no deadline (dockermanager.go:123-135, samples.go:110).  No step
\* goes back, so under Fairness every other request ends.
RequestGoesOn ==
  \A n \in Run :
    run[n].pc \notin {"idle", "done", "dead", "hung"} => ENABLED Handler(n) \/ ENABLED Engine(n)
===============================================================================
