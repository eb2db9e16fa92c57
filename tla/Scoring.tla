-------------------------------- MODULE Scoring --------------------------------
(***************************************************************************)
(* The verdict engine's judgement: the weighted rules of                   *)
(* verdict-engine/rule_scorer.py and the order in which /score             *)
(* (verdict-engine/app.py) asks its questions.                             *)
(*                                                                         *)
(* An event is its type and whether its rule takes notice of it: a spawn   *)
(* that names a process, a write to a sensitive path, a connection to a    *)
(* non-standard port.  Confidence is counted in hundredths: no subset of   *)
(* the weights adds up to exactly 0.6, so the code's floating-point sums   *)
(* fall on the same side of every threshold.                               *)
(***************************************************************************)
EXTENDS Integers, FiniteSets, Sequences

Event == [type : {"process_spawn", "file_write", "file_delete", "network_connect"},
          notable : BOOLEAN]
Verdict == {"Normal", "Suspicious", "Compromised", "Inconclusive"}

RuleWeights == [child_process |-> 30, sensitive_write |-> 25,
                odd_port |-> 20, rapid_file_changes |-> 25]
RapidFileChangeThreshold == 5

Notable(events, type) == \E i \in DOMAIN events : events[i] = [type |-> type, notable |-> TRUE]

FileChanges(events) ==
  Cardinality({i \in DOMAIN events : events[i].type \in {"file_write", "file_delete"}})

Rules(events) ==
  {r \in DOMAIN RuleWeights :
     \/ r = "child_process" /\ Notable(events, "process_spawn")
     \/ r = "sensitive_write" /\ Notable(events, "file_write")
     \/ r = "odd_port" /\ Notable(events, "network_connect")
     \/ r = "rapid_file_changes" /\ FileChanges(events) > RapidFileChangeThreshold}

Points(events, r) == IF r \in Rules(events) THEN RuleWeights[r] ELSE 0
ScoreEvents(events) ==
  Points(events, "child_process") + Points(events, "sensitive_write")
    + Points(events, "odd_port") + Points(events, "rapid_file_changes")

VerdictFromScore(confidence, hadTelemetry) ==
  IF ~hadTelemetry THEN "Inconclusive"
  ELSE IF confidence = 0 THEN "Normal"
  ELSE IF confidence < 60 THEN "Suspicious" ELSE "Compromised"

\* What the rules say of a sequence of events.
Judged(events) == VerdictFromScore(ScoreEvents(events), events # << >>)

\* score: a known hash, then a static match, then a timeout, then the rules.
Score(known, matches, timedOut, events) ==
  CASE known    -> [verdict |-> "Compromised", method |-> "known_bad_hash"]
    [] ~known /\ matches -> [verdict |-> "Compromised", method |-> "static_triage"]
    [] ~known /\ ~matches /\ timedOut -> [verdict |-> "Inconclusive", method |-> "dynamic"]
    [] OTHER    -> [verdict |-> Judged(events), method |-> "dynamic"]
===============================================================================
