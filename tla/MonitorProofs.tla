----------------------------- MODULE MonitorProofs -----------------------------
(***************************************************************************)
(* Proofs about Monitor: what a snapshot covers is judged once, the flag   *)
(* is Docker's truth, and so is what broadcasts and the audit log say.     *)
(* None is inductive as it stands.                                         *)
(***************************************************************************)
EXTENDS Monitor, TLAPS

-------------------------------------------------------------------------------
(* Changes, snapshots and verdicts.  What a verdict, a fault or the batch  *)
(* holds is covered by the snapshot if there is one, unless a late save    *)
(* took it back, so that the next poll reports nothing else twice; and     *)
(* nothing is on its way outside a tick.                                   *)

SnapshotInv ==
  /\ changes \in Nat /\ changes <= MaxChanges
  /\ state \in NoState..changes /\ late \in NoState..changes

CoveredInv ==
  /\ batch \cup scored \cup excused \subseteq 1..changes
  /\ state # NoState => batch \cup scored \cup excused \subseteq (1..state) \cup rewound

BatchInv == batch # {} => tick = "score"

JudgedInv == SnapshotInv /\ CoveredInv /\ BatchInv /\ EveryChangeJudgedOnce

\* What the invariant is about.
judging == << changes, state, late, batch, scored, excused, rewound >>

\* Every step keeps the invariant.
LEMMA JudgedStep == JudgedInv /\ [Next]_vars => JudgedInv'
<1> SUFFICES ASSUME JudgedInv, [Next]_vars PROVE JudgedInv'
  OBVIOUS
<1> USE ChangesAssumption
    DEF JudgedInv, SnapshotInv, CoveredInv, BatchInv, EveryChangeJudgedOnce, NoState, Change
<1>1. CASE NewChange
  BY <1>1 DEF NewChange, history
<1>2. CASE Poll
  BY <1>2 DEF Poll, Collect, New
<1>3. CASE PollCut
  <2>1. PICK n \in state..changes :
          /\ batch' = {c \in New : c <= n}
          /\ tick' = IF batch' = {} THEN "idle" ELSE "score"
          /\ excused' = excused \cup {c \in New : c > n}
    BY <1>3 DEF PollCut, Collect
  <2>2. state # NoState /\ tick = "idle" /\ state' = changes /\ UNCHANGED << changes, late, scored, rewound >>
    BY <1>3 DEF PollCut
  <2>3. batch = {}
    BY <2>2
  <2>4. batch' \cup excused' \subseteq excused \cup New /\ New \subseteq excused' \cup batch'
    BY <2>1, <2>2 DEF New
  <2>5. SnapshotInv' /\ CoveredInv' /\ BatchInv'
    BY <2>1, <2>2, <2>4 DEF New
  <2>6. EveryChangeJudgedOnce'
    <3>1. ASSUME NEW c \in Change, c <= state' PROVE c \in scored' \cup batch' \cup excused'
      BY <2>1, <2>2, <2>3, <3>1 DEF New
    <3>2. batch' \cap (scored' \cup excused') \subseteq rewound'
      BY <2>1, <2>2 DEF New
    <3>3. QED
      BY <3>1, <3>2
  <2>7. QED
    BY <2>5, <2>6
<1>4. CASE PollTorn
  BY <1>4 DEF PollTorn, history
<1>5. CASE Score
  BY <1>5 DEF Score, endpoint
<1>6. CASE ScoreFails
  BY <1>6 DEF ScoreFails, endpoint
<1>7. CASE Crash
  BY <1>7 DEF Crash, endpoint
<1>8. ASSUME UNCHANGED judging, UNCHANGED tick \/ tick # "score" PROVE JudgedInv'
  BY <1>8 DEF judging
<1>9. CASE Start \/ StartBlind
  BY <1>8, <1>9 DEF Start, StartBlind, endpoint, history, judging
<1>10. CASE LockTick \/ IsolateContainer \/ IsolateFails
  BY <1>8, <1>10 DEF LockTick, IsolateContainer, IsolateFails, endpoint, judging
<1>11. CASE SetIsolated \/ BroadcastIsolated \/ LogIsolated \/ LogIsolatedFails
  BY <1>8, <1>11 DEF SetIsolated, BroadcastIsolated, LogIsolated, LogIsolatedFails, endpoint, history, judging
<1>12. ASSUME NEW r \in Reconnector, Reconnect(r) \/ ReconnectFails(r) \/ LogReconnectedFails(r)
       PROVE  JudgedInv'
  BY <1>8, <1>12 DEF Reconnect, Check, ReconnectContainer, ClearIsolated, BroadcastReconnected,
     LogReconnected, ReconnectFails, LogReconnectedFails, endpoint, history, judging
<1>13. CASE UNCHANGED vars
  BY <1>8, <1>13 DEF vars, endpoint, history, judging
<1>14. CASE PollLingers
  BY <1>14 DEF PollLingers, history
<1>15. CASE LateSave
  BY <1>15 DEF LateSave
<1>16. QED
  BY <1>1, <1>2, <1>3, <1>4, <1>5, <1>6, <1>7, <1>9, <1>10, <1>11, <1>12, <1>13, <1>14, <1>15
     DEF Next, Tick, Failure

\* For any number of changes, reconnections and faults: every change that the
\* poller's snapshot covers is in exactly one batch, past or present, unless a
\* fault or a baseline took it (poller.py saves before it emits).
THEOREM JudgedOnceAlways == Spec => []EveryChangeJudgedOnce
<1>1. Init => JudgedInv
  BY ChangesAssumption
     DEF Init, JudgedInv, SnapshotInv, CoveredInv, BatchInv, EveryChangeJudgedOnce, NoState, Change
<1>2. JudgedInv => EveryChangeJudgedOnce
  BY DEF JudgedInv
<1>3. QED
  BY <1>1, <1>2, JudgedStep, PTL DEF Spec

-------------------------------------------------------------------------------
(* The flag and Docker.  A request past NetworkConnect has the container   *)
(* attached until it has the lock to say so; Tick keeps the lock from its  *)
(* look at the flag until it has set it, so that no such request can be    *)
(* under way when it isolates, and one that overtakes it waits.            *)

Clearing == {r \in Reconnector : rc[r] = "clear"}

ControlInv ==
  /\ attached \in BOOLEAN /\ isolated \in BOOLEAN /\ up \in BOOLEAN /\ blurred \in BOOLEAN
  /\ rc \in [Reconnector -> {"idle", "connect", "clear", "broadcast", "audit"}]
  /\ mu = Nobody <=> tick \notin {"isolate", "setFlag"}
  /\ ~up => tick = "idle" /\ \A r \in Reconnector : rc[r] = "idle"

FlagInv ==
  up /\ ~blurred =>
    /\ \A r, s \in Clearing : r = s
    /\ tick = "setFlag" => ~isolated /\ (attached <=> Clearing # {})
    /\ tick = "isolate" => ~isolated
    /\ tick # "setFlag" =>
         IF Clearing = {} THEN isolated <=> ~attached ELSE isolated /\ attached

DockerInv == ControlInv /\ FlagInv

\* What the invariant is about, but for Tick's place.
docker == << attached, isolated, up, mu, rc, blurred >>

\* A request's next step makes it one that is clearing the flag, or not.
LEMMA GotoClearing ==
  ASSUME ControlInv, NEW r \in Reconnector, NEW step \in {"idle", "connect", "clear", "broadcast", "audit"},
         Goto(r, step)
  PROVE  /\ rc' \in [Reconnector -> {"idle", "connect", "clear", "broadcast", "audit"}]
         /\ Clearing' = IF step = "clear" THEN Clearing \cup {r} ELSE Clearing \ {r}
BY DEF ControlInv, Goto, Clearing

\* Every step keeps the invariant.
LEMMA DockerStep == DockerInv /\ [Next]_vars => DockerInv'
<1> SUFFICES ASSUME DockerInv, [Next]_vars PROVE DockerInv'
  OBVIOUS
<1> USE HolderAssumption DEF DockerInv
<1>1. ASSUME UNCHANGED docker, UNCHANGED tick \/ {tick, tick'} \cap {"isolate", "setFlag"} = {}, up
      PROVE  DockerInv'
  BY <1>1 DEF docker, ControlInv, FlagInv, Clearing
<1>2. CASE NewChange \/ LateSave \/ PollLingers \/ UNCHANGED vars
  <2>1. UNCHANGED << docker, tick >>
    BY <1>2 DEF NewChange, LateSave, PollLingers, vars, backend, history, docker
  <2>2. QED
    BY <2>1 DEF docker, ControlInv, FlagInv, Clearing
<1>3. CASE Start
  BY <1>3 DEF Start, history, ControlInv, FlagInv, Clearing
<1>4. CASE StartBlind
  BY <1>4 DEF StartBlind, ControlInv, FlagInv, Clearing
<1>5. CASE Crash
  BY <1>5 DEF Crash, ControlInv, FlagInv, Clearing
<1>6. CASE Poll \/ PollCut \/ PollTorn
  <2>1. UNCHANGED docker /\ up /\ tick = "idle" /\ tick' \in {"idle", "score"}
    BY <1>6 DEF Poll, PollCut, PollTorn, Collect, backend, history, docker
  <2>2. QED
    BY <1>1, <2>1
<1>7. CASE Score \/ ScoreFails
  <2>1. UNCHANGED docker /\ tick = "score" /\ tick' \in {"idle", "lock"}
    BY <1>7 DEF Score, ScoreFails, backend, docker
  <2>2. QED
    BY <1>1, <2>1 DEF ControlInv
<1>8. CASE LockTick
  BY <1>8 DEF LockTick, ControlInv, FlagInv, Clearing
<1>9. CASE IsolateContainer
  BY <1>9 DEF IsolateContainer, ControlInv, FlagInv, Clearing
<1>10. CASE IsolateFails
  <2>1. UNCHANGED << isolated, up, rc >> /\ up /\ tick = "isolate" /\ tick' = "idle" /\ mu' = Nobody
    BY <1>10 DEF IsolateFails, backend, ControlInv
  <2>2. UNCHANGED << attached, blurred >> \/ (attached' = FALSE /\ blurred' = TRUE)
    BY <1>10 DEF IsolateFails
  <2>3. Clearing' = Clearing
    BY <2>1 DEF Clearing
  <2>4. ControlInv'
    BY <2>1, <2>2 DEF ControlInv
  <2>5. FlagInv'
    BY <2>1, <2>2, <2>3 DEF FlagInv, ControlInv
  <2>6. QED
    BY <2>4, <2>5
<1>11. CASE SetIsolated
  BY <1>11 DEF SetIsolated, history, ControlInv, FlagInv, Clearing
<1>12. CASE BroadcastIsolated \/ LogIsolated \/ LogIsolatedFails
  <2>1. UNCHANGED docker /\ tick \in {"broadcast", "audit"} /\ tick' \in {"idle", "audit"}
    BY <1>12 DEF BroadcastIsolated, LogIsolated, LogIsolatedFails, backend, history, docker
  <2>2. QED
    BY <1>1, <2>1 DEF ControlInv
<1>13. ASSUME NEW r \in Reconnector,
              Check(r) \/ BroadcastReconnected(r) \/ LogReconnected(r) \/ LogReconnectedFails(r)
       PROVE  DockerInv'
  <2>1. UNCHANGED << attached, isolated, up, mu, blurred, tick >> /\ up /\ rc[r] # "clear"
    BY <1>13 DEF Check, BroadcastReconnected, LogReconnected, LogReconnectedFails, backend, history, ControlInv
  <2>2. /\ rc' \in [Reconnector -> {"idle", "connect", "clear", "broadcast", "audit"}]
        /\ Clearing' = Clearing \ {r}
    BY <1>13, GotoClearing DEF Check, BroadcastReconnected, LogReconnected, LogReconnectedFails
  <2>3. Clearing' = Clearing
    BY <2>1, <2>2 DEF Clearing
  <2>4. QED
    BY <2>1, <2>2, <2>3 DEF ControlInv, FlagInv
<1>14. ASSUME NEW r \in Reconnector, ReconnectContainer(r) PROVE DockerInv'
  <2>1. UNCHANGED << isolated, up, mu, blurred, tick >> /\ up /\ rc[r] = "connect"
    BY <1>14 DEF ReconnectContainer, backend, history, ControlInv
  <2>2. r \notin Clearing
    BY <2>1 DEF Clearing
  <2>3. CASE attached
    <3>1. Goto(r, "idle") /\ attached' = attached
      BY <1>14, <2>3 DEF ReconnectContainer
    <3>2. /\ rc' \in [Reconnector -> {"idle", "connect", "clear", "broadcast", "audit"}]
          /\ Clearing' = Clearing
      BY <2>2, <3>1, GotoClearing
    <3>3. QED
      BY <2>1, <3>1, <3>2 DEF ControlInv, FlagInv
  <2>4. CASE ~attached
    <3>1. Goto(r, "clear") /\ attached' = TRUE
      BY <1>14, <2>4 DEF ReconnectContainer
    <3>2. /\ rc' \in [Reconnector -> {"idle", "connect", "clear", "broadcast", "audit"}]
          /\ Clearing' = Clearing \cup {r}
      BY <3>1, GotoClearing
    <3>3. ~blurred => Clearing = {}
      BY <2>1, <2>4 DEF FlagInv
    <3>4. QED
      BY <2>1, <2>4, <3>1, <3>2, <3>3 DEF ControlInv, FlagInv
  <2>5. QED
    BY <2>3, <2>4 DEF ControlInv
<1>15. ASSUME NEW r \in Reconnector, ReconnectFails(r) PROVE DockerInv'
  <2>1. UNCHANGED << isolated, up, mu, tick >> /\ up /\ rc[r] = "connect"
    BY <1>15 DEF ReconnectFails, backend, ControlInv
  <2>2. /\ rc' \in [Reconnector -> {"idle", "connect", "clear", "broadcast", "audit"}]
        /\ Clearing' = Clearing \ {r}
    BY <1>15, GotoClearing DEF ReconnectFails
  <2>3. Clearing' = Clearing
    BY <2>1, <2>2 DEF Clearing
  <2>4. UNCHANGED << attached, blurred >> \/ (attached' = TRUE /\ blurred' = TRUE)
    BY <1>15 DEF ReconnectFails
  <2>5. ControlInv'
    BY <2>1, <2>2, <2>4 DEF ControlInv
  <2>6. CASE UNCHANGED << attached, blurred >>
    BY <2>1, <2>3, <2>5, <2>6 DEF FlagInv
  <2>7. CASE blurred' = TRUE
    BY <2>5, <2>7 DEF FlagInv
  <2>8. QED
    BY <2>4, <2>6, <2>7
<1>16. ASSUME NEW r \in Reconnector, ClearIsolated(r) PROVE DockerInv'
  <2>1. UNCHANGED << attached, up, mu, blurred, tick >> /\ up /\ rc[r] = "clear" /\ isolated' = FALSE
    BY <1>16 DEF ClearIsolated, history, ControlInv
  <2>2. tick \notin {"isolate", "setFlag"}
    BY <1>16 DEF ClearIsolated, ControlInv
  <2>3. /\ rc' \in [Reconnector -> {"idle", "connect", "clear", "broadcast", "audit"}]
        /\ Clearing' = Clearing \ {r}
    BY <1>16, GotoClearing DEF ClearIsolated
  <2>4. r \in Clearing
    BY <2>1 DEF Clearing
  <2>5. ~blurred => attached /\ Clearing' = {}
    BY <2>1, <2>2, <2>3, <2>4 DEF FlagInv
  <2>6. QED
    BY <2>1, <2>2, <2>3, <2>5 DEF ControlInv, FlagInv
<1>17. QED
  BY <1>2, <1>3, <1>4, <1>5, <1>6, <1>7, <1>8, <1>9, <1>10, <1>11, <1>12, <1>13, <1>14, <1>15, <1>16
     DEF Next, Tick, Reconnect, Failure

\* For any number of Reconnect requests, isolations, crashes and failures: at
\* rest the flag says what Docker says, unless a call took effect and failed or
\* the inspection at startup did (monitor.go:77-150).
THEOREM FlagAlwaysTracksDocker == Spec => []FlagTracksDocker
<1>1. Init => DockerInv
  BY HolderAssumption DEF Init, DockerInv, ControlInv, FlagInv
<1>2. DockerInv => FlagTracksDocker
  BY DEF DockerInv, ControlInv, FlagInv, FlagTracksDocker, AtRest, Clearing
<1>3. QED
  BY <1>1, <1>2, DockerStep, PTL DEF Spec

-------------------------------------------------------------------------------
(* The public record.  While no isolation overlaps a reconnection, Tick    *)
(* speaks of a container that is cut off and a request of one that is      *)
(* attached; where nobody is about to speak and nobody was kept from it,   *)
(* what was said last is the case.                                         *)

Speaking == {r \in Reconnector : rc[r] \in {"clear", "broadcast", "audit"}}

SpeakInv ==
  /\ tick \in {"isolate", "setFlag", "broadcast", "audit"} => \A r \in Reconnector : rc[r] = "idle"
  /\ tick \in {"setFlag", "broadcast", "audit"} => ~attached
  /\ Speaking # {} => attached
  /\ "feed" \notin silenced /\ ~FeedOwed => (feed = "isolated" <=> ~attached)
  /\ "log" \notin silenced /\ ~LogOwed => (log = "isolated" <=> ~attached)

RecordInv == crossed \in BOOLEAN /\ (~crossed => SpeakInv)

\* Every step keeps the record true.
LEMMA RecordStep == DockerInv /\ RecordInv /\ [Next]_vars => RecordInv'
<1> SUFFICES ASSUME DockerInv, RecordInv, [Next]_vars PROVE RecordInv'
  OBVIOUS
<1>c. ControlInv /\ attached \in BOOLEAN
  BY DEF DockerInv, ControlInv
<1>1. ASSUME UNCHANGED << attached, rc, feed, log, crossed, silenced >>,
             UNCHANGED tick \/ {tick, tick'} \subseteq {"idle", "score", "lock"}
      PROVE  RecordInv'
  BY <1>1 DEF RecordInv, SpeakInv, Speaking, FeedOwed, LogOwed
<1>2. CASE NewChange \/ LateSave \/ Poll \/ Score \/ Start \/ StartBlind \/ UNCHANGED vars
  <2>1. UNCHANGED << attached, rc, feed, log, crossed, silenced >>
    BY <1>2 DEF NewChange, LateSave, Poll, Score, Start, StartBlind, vars, backend, endpoint, public,
       history, witness
  <2>2. UNCHANGED tick \/ {tick, tick'} \subseteq {"idle", "score", "lock"}
    BY <1>2 DEF NewChange, LateSave, Poll, Collect, Score, Start, StartBlind, vars
  <2>3. QED
    BY <1>1, <2>1, <2>2
<1>3. CASE PollCut \/ PollTorn \/ PollLingers \/ ScoreFails
  <2>1. UNCHANGED << attached, rc, feed, log, crossed, silenced >>
    BY <1>3 DEF PollCut, PollTorn, PollLingers, ScoreFails, backend, endpoint, public, history, witness
  <2>2. UNCHANGED tick \/ {tick, tick'} \subseteq {"idle", "score", "lock"}
    BY <1>3 DEF PollCut, PollTorn, PollLingers, ScoreFails, Collect
  <2>3. QED
    BY <1>1, <2>1, <2>2
<1>4. CASE Crash
  <2>1. /\ UNCHANGED << attached, feed, log, crossed >> /\ tick' = "idle"
        /\ \A r \in Reconnector : rc'[r] = "idle"
        /\ silenced' = silenced \cup Owed
    BY <1>4 DEF Crash, public, Silence
  <2>2. Speaking' = {}
    BY <2>1 DEF Speaking
  <2>3. /\ "feed" \notin silenced' => "feed" \notin silenced /\ ~FeedOwed
        /\ "log" \notin silenced' => "log" \notin silenced /\ ~LogOwed
    BY <2>1 DEF Owed
  <2>4. QED
    BY <2>1, <2>2, <2>3 DEF RecordInv, SpeakInv
<1>5. CASE LockTick
  <2>1. CASE isolated
    <3>1. UNCHANGED << attached, rc, feed, log, silenced >> /\ tick = "lock" /\ tick' = "idle"
      BY <1>5, <2>1 DEF LockTick, public, witness
    <3>2. crossed' = crossed
      BY <1>5, <3>1 DEF LockTick, Cross, RecordInv
    <3>3. QED
      BY <1>1, <3>1, <3>2
  <2>2. CASE ~isolated
    <3>1. /\ UNCHANGED << attached, rc, feed, log, silenced >>
          /\ tick = "lock" /\ tick' = "isolate"
          /\ crossed' = (crossed \/ \E r \in Reconnector : rc[r] # "idle")
      BY <1>5, <2>2 DEF LockTick, Cross, public, witness
    <3>2. (FeedOwed' <=> FeedOwed) /\ (LogOwed' <=> LogOwed) /\ Speaking' = Speaking
      BY <3>1 DEF FeedOwed, LogOwed, Speaking
    <3>3. QED
      BY <3>1, <3>2 DEF RecordInv, SpeakInv
  <2>3. QED
    BY <2>1, <2>2
\* Tick, past its look at the flag: nobody reconnects.
<1>6. ASSUME tick \in {"isolate", "setFlag", "broadcast", "audit"}, rc' = rc, crossed' = crossed,
             ~crossed =>
               /\ Speaking = {} =>
                    /\ tick' \in {"isolate", "setFlag", "broadcast", "audit"} \/ tick' = "idle"
                    /\ tick' \in {"setFlag", "broadcast", "audit"} => ~attached'
                    /\ "feed" \notin silenced' /\ tick' \notin {"setFlag", "broadcast"} =>
                         (feed' = "isolated" <=> ~attached')
                    /\ "log" \notin silenced' /\ tick' \notin {"setFlag", "broadcast", "audit"} =>
                         (log' = "isolated" <=> ~attached')
      PROVE  RecordInv'
  <2> SUFFICES ASSUME ~crossed PROVE SpeakInv'
    BY <1>6 DEF RecordInv
  <2>1. \A r \in Reconnector : rc[r] = "idle" /\ rc'[r] = "idle"
    BY <1>6 DEF RecordInv, SpeakInv
  <2>2. Speaking = {} /\ Speaking' = {}
    BY <2>1 DEF Speaking
  <2>3. /\ FeedOwed' <=> tick' \in {"setFlag", "broadcast"}
        /\ LogOwed' <=> tick' \in {"setFlag", "broadcast", "audit"}
    BY <2>1 DEF FeedOwed, LogOwed
  <2>4. QED
    BY <1>6, <2>1, <2>2, <2>3 DEF SpeakInv
\* What is owed while Tick is where it is and nobody reconnects.
<1>t. ASSUME ~crossed, tick \in {"isolate", "setFlag", "broadcast", "audit"}
      PROVE  /\ FeedOwed <=> tick \in {"setFlag", "broadcast"}
             /\ LogOwed <=> tick \in {"setFlag", "broadcast", "audit"}
             /\ SpeakInv
  BY <1>t DEF RecordInv, SpeakInv, FeedOwed, LogOwed
<1>7. CASE IsolateContainer
  <2>1. tick = "isolate" /\ UNCHANGED << rc, crossed, silenced, feed, log >>
        /\ \/ attached /\ attached' = FALSE /\ tick' = "setFlag"
           \/ attached' = attached /\ tick' = "idle"
    BY <1>7 DEF IsolateContainer, public, witness
  <2>2. QED
    BY <1>6, <1>t, <2>1 DEF SpeakInv
<1>8. CASE IsolateFails
  <2>1. tick = "isolate" /\ tick' = "idle" /\ UNCHANGED << rc, crossed, feed, log >>
    BY <1>8 DEF IsolateFails, public
  <2>2. UNCHANGED << attached, silenced >> \/ ("feed" \in silenced' /\ "log" \in silenced')
    BY <1>8 DEF IsolateFails, Silence
  <2>3. CASE UNCHANGED << attached, silenced >>
    BY <1>6, <1>t, <2>1, <2>3 DEF SpeakInv
  <2>4. CASE "feed" \in silenced' /\ "log" \in silenced'
    BY <1>6, <2>1, <2>4
  <2>5. QED
    BY <2>2, <2>3, <2>4
<1>9. CASE SetIsolated \/ BroadcastIsolated \/ LogIsolated \/ LogIsolatedFails
  <2>1. /\ tick \in {"setFlag", "broadcast", "audit"} /\ UNCHANGED << attached, rc, crossed >>
        /\ \/ tick = "setFlag" /\ tick' = "broadcast" /\ UNCHANGED << silenced, feed, log >>
           \/ tick = "broadcast" /\ tick' = "audit" /\ feed' = "isolated" /\ UNCHANGED << silenced, log >>
           \/ tick = "audit" /\ tick' = "idle" /\ log' = "isolated" /\ UNCHANGED << silenced, feed >>
           \/ tick = "audit" /\ tick' = "idle" /\ silenced' = silenced \cup {"log"} /\ feed' = feed
    BY <1>9 DEF SetIsolated, BroadcastIsolated, LogIsolated, LogIsolatedFails, Silence, backend, public,
       history, witness
  <2>2. QED
    BY <1>6, <1>t, <2>1 DEF SpeakInv
\* A request's step leaves the others where they are.
<1>r. ASSUME NEW r \in Reconnector, NEW step \in {"idle", "connect", "clear", "broadcast", "audit"}, Goto(r, step)
      PROVE  rc'[r] = step /\ \A s \in Reconnector \ {r} : rc'[s] = rc[s]
  BY <1>r, <1>c DEF ControlInv, Goto
\* One that makes no announcement due and takes none back.
<1>q. ASSUME NEW r \in Reconnector, {rc[r], rc'[r]} \subseteq {"idle", "connect"},
             \A s \in Reconnector \ {r} : rc'[s] = rc[s], tick' = tick
      PROVE  Speaking' = Speaking /\ (FeedOwed' <=> FeedOwed) /\ (LogOwed' <=> LogOwed)
  BY <1>q DEF Speaking, FeedOwed, LogOwed
<1>10. ASSUME NEW r \in Reconnector, Check(r) PROVE RecordInv'
  <2>1. /\ UNCHANGED << attached, tick, feed, log, silenced >> /\ rc[r] = "idle" /\ mu = Nobody
        /\ crossed' = (crossed \/ tick \in {"setFlag", "broadcast", "audit"})
        /\ rc'[r] = "connect" /\ \A s \in Reconnector \ {r} : rc'[s] = rc[s]
    BY <1>10, <1>r DEF Check, Cross, backend, public
  <2>2. tick # "isolate"
    BY <2>1, <1>c DEF ControlInv
  <2>3. QED
    BY <2>1, <2>2, <1>q DEF RecordInv, SpeakInv
<1>11. ASSUME NEW r \in Reconnector, ReconnectContainer(r) \/ ReconnectFails(r) PROVE RecordInv'
  <2>1. UNCHANGED << tick, feed, log, crossed >> /\ rc[r] = "connect"
    BY <1>11 DEF ReconnectContainer, ReconnectFails, backend, public, history
  <2> SUFFICES ASSUME ~crossed PROVE SpeakInv'
    BY <2>1 DEF RecordInv
  <2>2. SpeakInv /\ tick \notin {"isolate", "setFlag", "broadcast", "audit"}
    BY <2>1 DEF RecordInv, SpeakInv
  <2>3. CASE rc'[r] = "idle" /\ UNCHANGED << attached, silenced >>
             /\ \A s \in Reconnector \ {r} : rc'[s] = rc[s]
    BY <2>1, <2>2, <2>3, <1>q DEF SpeakInv
  <2>4. CASE attached' = TRUE /\ {"feed", "log"} \subseteq silenced'
    BY <2>1, <2>2, <2>4 DEF SpeakInv
  <2>5. CASE attached' = TRUE /\ rc'[r] = "clear"
    <3>1. FeedOwed' /\ LogOwed'
      BY <2>5 DEF FeedOwed, LogOwed
    <3>2. QED
      BY <2>1, <2>2, <2>5, <3>1 DEF SpeakInv
  <2>6. CASE ReconnectContainer(r)
    BY <2>3, <2>5, <2>6, <1>r DEF ReconnectContainer, history, witness
  <2>7. CASE ReconnectFails(r)
    BY <2>3, <2>4, <2>7, <1>r DEF ReconnectFails, Silence
  <2>8. QED
    BY <1>11, <2>6, <2>7
<1>12. ASSUME NEW r \in Reconnector,
              \/ ClearIsolated(r) \/ BroadcastReconnected(r)
              \/ LogReconnected(r) \/ LogReconnectedFails(r)
       PROVE  RecordInv'
  <2>1. /\ UNCHANGED << attached, tick, crossed >> /\ rc[r] # "idle" /\ r \in Speaking
        /\ \A s \in Reconnector \ {r} : rc'[s] = rc[s]
    BY <1>12, <1>r DEF ClearIsolated, BroadcastReconnected, LogReconnected, LogReconnectedFails, backend,
       history, Speaking
  <2> SUFFICES ASSUME ~crossed PROVE SpeakInv'
    BY <2>1 DEF RecordInv
  <2>2. SpeakInv /\ tick \notin {"isolate", "setFlag", "broadcast", "audit"} /\ attached
    BY <2>1 DEF RecordInv, SpeakInv
  <2>3. CASE ClearIsolated(r)
    <3>1. rc'[r] = "broadcast" /\ UNCHANGED << feed, log, silenced >>
      BY <2>3, <1>r DEF ClearIsolated, public
    <3>2. FeedOwed' /\ LogOwed'
      BY <3>1 DEF FeedOwed, LogOwed
    <3>3. QED
      BY <2>1, <2>2, <3>1, <3>2 DEF SpeakInv
  <2>4. CASE BroadcastReconnected(r)
    <3>1. rc'[r] = "audit" /\ feed' = "reconnected"
      BY <2>4, <1>r DEF BroadcastReconnected
    <3>2. LogOwed'
      BY <3>1 DEF LogOwed
    <3>3. QED
      BY <2>1, <2>2, <3>1, <3>2 DEF SpeakInv
  <2>5. CASE LogReconnected(r) \/ LogReconnectedFails(r)
    <3>1. /\ rc[r] = "audit" /\ rc'[r] = "idle" /\ feed' = feed
          /\ \/ log' = "reconnected" /\ silenced' = silenced
             \/ silenced' = silenced \cup {"log"}
      BY <2>5, <1>r DEF LogReconnected, LogReconnectedFails, Silence, public, history, witness
    <3>2. FeedOwed' <=> FeedOwed
      BY <2>1, <3>1 DEF FeedOwed
    <3>3. "feed" \notin silenced' <=> "feed" \notin silenced
      BY <3>1
    <3>4. QED
      BY <2>1, <2>2, <3>1, <3>2, <3>3 DEF SpeakInv
  <2>6. QED
    BY <1>12, <2>3, <2>4, <2>5
<1>13. QED
  BY <1>2, <1>3, <1>4, <1>5, <1>7, <1>8, <1>9, <1>10, <1>11, <1>12 DEF Next, Tick, Reconnect, Failure

\* For any number of requests and isolations: at rest the last broadcast and
\* the last audited action tell Docker's truth, through crashes, restarts and
\* failed polls, unless a fault fell between a change and that announcement of
\* it, or an isolation and a reconnection overlapped, since both speak after
\* they have released mon.mu (monitor.go:106-143).
THEOREM RecordStaysTrue == Spec => []PublicRecordIsTrue
<1>0. Init => DockerInv
  BY HolderAssumption DEF Init, DockerInv, ControlInv, FlagInv
<1>1. Init => RecordInv
  <2>1. Init => tick = "idle" /\ feed = "none" /\ log = "none" /\ Speaking = {}
    BY DEF Init, Speaking
  <2>2. Init => attached /\ crossed \in BOOLEAN
    BY Zenon DEF Init
  <2>3. QED
    BY <2>1, <2>2 DEF RecordInv, SpeakInv
<1>2. RecordInv => PublicRecordIsTrue
  <2>1. AtRest => ~FeedOwed /\ ~LogOwed
    BY DEF AtRest, FeedOwed, LogOwed
  <2>2. QED
    BY <2>1 DEF RecordInv, SpeakInv, PublicRecordIsTrue
<1>3. QED
  BY <1>0, <1>1, <1>2, DockerStep, RecordStep, PTL DEF Spec

-------------------------------------------------------------------------------
(* Types *)

FlagTypes == attached \in BOOLEAN /\ up \in BOOLEAN /\ isolated \in BOOLEAN
             /\ blurred \in BOOLEAN /\ crossed \in BOOLEAN
PlaceTypes ==
  /\ mu \in {Nobody, Ticker}
  /\ tick \in {"idle", "score", "lock", "isolate", "setFlag", "broadcast", "audit"}
  /\ rc \in [Reconnector -> {"idle", "connect", "clear", "broadcast", "audit"}]
  /\ feed \in {"none", "isolated", "reconnected"} /\ log \in {"none", "isolated", "reconnected"}
CountTypes == /\ isolations \in 0..MaxIsolations /\ seen \in [Reconnector -> 0..MaxIsolations]
              /\ faults \in 0..MaxFaults
WitnessTypes == raced \subseteq Reconnector /\ silenced \subseteq {"feed", "log"}
ChangeTypes ==
  /\ changes \in 0..MaxChanges /\ state \in NoState..MaxChanges /\ late \in NoState..MaxChanges
  /\ batch \subseteq Change /\ scored \subseteq Change /\ excused \subseteq Change /\ rewound \subseteq Change

\* Every step keeps the types.
LEMMA TypeStep == TypeOK /\ [Next]_vars => TypeOK'
<1> SUFFICES ASSUME TypeOK, [Next]_vars PROVE TypeOK'
  OBVIOUS
<1>t. FlagTypes /\ PlaceTypes /\ CountTypes /\ ChangeTypes /\ WitnessTypes
  BY DEF TypeOK, FlagTypes, PlaceTypes, CountTypes, ChangeTypes, WitnessTypes
<1>1. FlagTypes'
  <2> USE <1>t DEF FlagTypes
  <2>1. CASE NewChange \/ LateSave \/ Start \/ UNCHANGED vars
    BY <2>1 DEF NewChange, LateSave, Start, vars, backend, history
  <2>2. CASE Poll \/ Score \/ LockTick \/ IsolateContainer
    BY <2>2 DEF Poll, Score, LockTick, Cross, IsolateContainer, backend, history
  <2>3. CASE SetIsolated \/ BroadcastIsolated \/ LogIsolated \/ LogIsolatedFails
    BY <2>3 DEF SetIsolated, BroadcastIsolated, LogIsolated, LogIsolatedFails, backend, history
  <2>4. CASE StartBlind \/ Crash
    BY <2>4 DEF StartBlind, Crash
  <2>5. CASE PollCut \/ PollTorn \/ PollLingers
    BY <2>5 DEF PollCut, PollTorn, PollLingers, backend, history
  <2>6. CASE ScoreFails \/ IsolateFails
    BY <2>6 DEF ScoreFails, IsolateFails, backend
  <2>7. ASSUME NEW r \in Reconnector, Reconnect(r) \/ ReconnectFails(r) \/ LogReconnectedFails(r) PROVE FlagTypes'
    BY <2>7 DEF Reconnect, Check, Cross, ReconnectContainer, ClearIsolated, BroadcastReconnected,
       LogReconnected, ReconnectFails, LogReconnectedFails, backend, history
  <2>8. QED
    BY <2>1, <2>2, <2>3, <2>4, <2>5, <2>6, <2>7 DEF Next, Tick, Failure
<1>2. PlaceTypes'
  <2> USE <1>t DEF PlaceTypes
  <2>1. CASE NewChange \/ LateSave \/ Start \/ UNCHANGED vars
    BY <2>1 DEF NewChange, LateSave, Start, vars, backend, public
  <2>2. CASE Poll \/ Score \/ LockTick \/ IsolateContainer
    BY <2>2 DEF Poll, Collect, Score, LockTick, IsolateContainer, backend, public
  <2>3. CASE SetIsolated \/ BroadcastIsolated \/ LogIsolated \/ LogIsolatedFails
    BY <2>3 DEF SetIsolated, BroadcastIsolated, LogIsolated, LogIsolatedFails, backend, public
  <2>4. CASE StartBlind \/ Crash
    BY <2>4 DEF StartBlind, Crash, public
  <2>5. CASE PollCut \/ PollTorn \/ PollLingers
    BY <2>5 DEF PollCut, Collect, PollTorn, PollLingers, backend, public
  <2>6. CASE ScoreFails \/ IsolateFails
    BY <2>6 DEF ScoreFails, IsolateFails, backend, public
  <2>7. ASSUME NEW r \in Reconnector, Reconnect(r) \/ ReconnectFails(r) \/ LogReconnectedFails(r) PROVE PlaceTypes'
    BY <2>7 DEF Reconnect, Check, ReconnectContainer, ClearIsolated, BroadcastReconnected,
       LogReconnected, ReconnectFails, LogReconnectedFails, Goto, backend, public
  <2>8. QED
    BY <2>1, <2>2, <2>3, <2>4, <2>5, <2>6, <2>7 DEF Next, Tick, Failure
<1>3. CountTypes'
  <2> USE <1>t, BoundsAssumption DEF CountTypes
  <2>1. CASE NewChange \/ LateSave \/ Start \/ Tick \/ UNCHANGED vars
    BY <2>1 DEF NewChange, LateSave, Start, Tick, Poll, Score, LockTick, IsolateContainer,
       SetIsolated, BroadcastIsolated, LogIsolated, vars, history, witness
  <2>2. ASSUME NEW r \in Reconnector, Reconnect(r) PROVE CountTypes'
    BY <2>2 DEF Reconnect, Check, ReconnectContainer, ClearIsolated, BroadcastReconnected,
       LogReconnected, history, witness
  <2>3. ASSUME UNCHANGED << isolations, seen >> \/ (isolations < MaxIsolations /\ isolations' = isolations + 1 /\ seen' = seen),
               Fault
        PROVE  CountTypes'
    BY <2>3 DEF Fault
  <2>4. ASSUME NEW r \in Reconnector, ReconnectFails(r) \/ LogReconnectedFails(r) PROVE CountTypes'
    BY <2>3, <2>4 DEF ReconnectFails, LogReconnectedFails
  <2>5. CASE StartBlind \/ Crash \/ PollCut \/ PollTorn \/ PollLingers \/ ScoreFails \/ IsolateFails
             \/ LogIsolatedFails
    BY <2>3, <2>5 DEF StartBlind, Crash, PollCut, PollTorn, PollLingers, ScoreFails, IsolateFails,
       LogIsolatedFails, history, witness
  <2>6. QED
    BY <2>1, <2>2, <2>4, <2>5 DEF Next, Failure
<1>w. WitnessTypes'
  <2> USE <1>t DEF WitnessTypes
  <2>1. CASE NewChange \/ LateSave \/ Start \/ Tick \/ UNCHANGED vars
    BY <2>1 DEF NewChange, LateSave, Start, Tick, Poll, Score, LockTick, IsolateContainer,
       SetIsolated, BroadcastIsolated, LogIsolated, vars, history, witness
  <2>2. ASSUME NEW r \in Reconnector, Reconnect(r) \/ ReconnectFails(r) \/ LogReconnectedFails(r)
        PROVE  WitnessTypes'
    BY <2>2 DEF Reconnect, Check, ReconnectContainer, ClearIsolated, BroadcastReconnected,
       LogReconnected, ReconnectFails, LogReconnectedFails, Silence, history, witness
  <2>3. CASE StartBlind \/ PollCut \/ PollTorn \/ PollLingers \/ ScoreFails \/ IsolateFails \/ LogIsolatedFails
    BY <2>3 DEF StartBlind, PollCut, PollTorn, PollLingers, ScoreFails, IsolateFails, LogIsolatedFails,
       Silence, history, witness
  <2>4. CASE Crash
    <3>1. Owed \subseteq {"feed", "log"} /\ silenced' = silenced \cup Owed /\ raced' = raced
      BY <2>4 DEF Owed, Crash, Silence
    <3>2. QED
      BY <3>1
  <2>5. QED
    BY <2>1, <2>2, <2>3, <2>4 DEF Next, Failure
<1>4. ChangeTypes'
  <2> USE <1>t, ChangesAssumption DEF ChangeTypes, Change, NoState
  <2>1. CASE NewChange
    BY <2>1 DEF NewChange, history
  <2>2. CASE LateSave
    BY <2>2 DEF LateSave
  <2>3. CASE Start \/ UNCHANGED vars
    BY <2>3 DEF Start, endpoint, history, vars
  <2>4. CASE Poll
    BY <2>4 DEF Poll, Collect, New
  <2>5. CASE PollCut
    <3>1. /\ UNCHANGED << changes, late, scored, rewound >> /\ state' = changes
          /\ batch' \subseteq New /\ excused' \subseteq excused \cup New
      BY <2>5 DEF PollCut, Collect
    <3>2. QED
      BY <3>1 DEF New
  <2>6. CASE Score \/ ScoreFails \/ Crash
    BY <2>6 DEF Score, ScoreFails, Crash, endpoint
  <2>7. CASE PollTorn \/ PollLingers
    <3>1. /\ UNCHANGED << changes, batch, scored, excused, rewound >>
          /\ state' \in {state, NoState} /\ late' \in {late, changes}
      BY <2>7 DEF PollTorn, PollLingers, history
    <3>2. QED
      BY <3>1
  <2>8. CASE StartBlind \/ LockTick \/ IsolateContainer \/ IsolateFails \/ SetIsolated
             \/ BroadcastIsolated \/ LogIsolated \/ LogIsolatedFails
    <3>1. UNCHANGED judging
      BY <2>8 DEF StartBlind, LockTick, IsolateContainer, IsolateFails, SetIsolated, BroadcastIsolated,
         LogIsolated, LogIsolatedFails, endpoint, history, judging
    <3>2. QED
      BY <3>1 DEF judging
  <2>9. ASSUME NEW r \in Reconnector, Reconnect(r) \/ ReconnectFails(r) \/ LogReconnectedFails(r) PROVE ChangeTypes'
    <3>1. UNCHANGED judging
      BY <2>9 DEF Reconnect, Check, ReconnectContainer, ClearIsolated, BroadcastReconnected,
         LogReconnected, ReconnectFails, LogReconnectedFails, endpoint, history, judging
    <3>2. QED
      BY <3>1 DEF judging
  <2>10. QED
    BY <2>1, <2>4, <2>5, <2>6, <2>7, <2>8, <2>9, <2>2, <2>3 DEF Next, Tick, Failure
<1>5. QED
  BY <1>1, <1>2, <1>3, <1>4, <1>w DEF TypeOK, FlagTypes, PlaceTypes, CountTypes, ChangeTypes, WitnessTypes

\* Every variable of the monitor keeps its type.
THEOREM TypeCorrect == Spec => []TypeOK
<1>1. Init => FlagTypes /\ PlaceTypes
  BY DEF Init, FlagTypes, PlaceTypes
<1>2. Init => CountTypes /\ ChangeTypes /\ WitnessTypes
  BY ChangesAssumption, BoundsAssumption DEF Init, CountTypes, ChangeTypes, WitnessTypes, NoState, Change
<1>3. Init => TypeOK
  BY <1>1, <1>2 DEF TypeOK, FlagTypes, PlaceTypes, CountTypes, ChangeTypes, WitnessTypes
<1>4. QED
  BY <1>3, TypeStep, PTL DEF Spec

-------------------------------------------------------------------------------
(* A request between its check and NetworkConnect: unless another one has  *)
(* cleared the flag meanwhile, it is still up, so no tick isolates anew.   *)

FreshInv ==
  /\ \A r \in Reconnector \ raced : rc[r] = "connect" => isolated /\ seen[r] = isolations
  /\ tick \in {"isolate", "setFlag"} => \A r \in Reconnector \ raced : rc[r] # "connect"

\* Every step keeps the decision fresh of every request that was not overtaken.
LEMMA FreshStep == TypeOK /\ DockerInv /\ FreshInv /\ [Next]_vars => FreshInv'
<1> SUFFICES ASSUME TypeOK, DockerInv, FreshInv, [Next]_vars PROVE FreshInv'
  OBVIOUS
<1>c. ControlInv /\ seen \in [Reconnector -> 0..MaxIsolations]
  BY DEF DockerInv, TypeOK
<1>1. ASSUME UNCHANGED << rc, isolated, seen, isolations, raced >>, UNCHANGED tick \/ tick' \notin {"isolate", "setFlag"}
      PROVE  FreshInv'
  BY <1>1 DEF FreshInv
<1>2. CASE NewChange \/ LateSave \/ Poll \/ Score \/ LogIsolated \/ BroadcastIsolated \/ UNCHANGED vars
  <2>1. UNCHANGED << rc, isolated, seen, isolations, raced >>
    BY <1>2 DEF NewChange, LateSave, Poll, Score, LogIsolated, BroadcastIsolated, vars, backend, history, witness
  <2>2. UNCHANGED tick \/ tick' \notin {"isolate", "setFlag"}
    BY <1>2 DEF NewChange, LateSave, Poll, Collect, Score, LogIsolated, BroadcastIsolated, vars
  <2>3. QED
    BY <1>1, <2>1, <2>2
<1>3. CASE PollCut \/ PollTorn \/ PollLingers \/ ScoreFails \/ LogIsolatedFails
  <2>1. UNCHANGED << rc, isolated, seen, isolations, raced >>
    BY <1>3 DEF PollCut, PollTorn, PollLingers, ScoreFails, LogIsolatedFails, backend, history, witness
  <2>2. UNCHANGED tick \/ tick' \notin {"isolate", "setFlag"}
    BY <1>3 DEF PollCut, Collect, PollTorn, PollLingers, ScoreFails, LogIsolatedFails
  <2>3. QED
    BY <1>1, <2>1, <2>2
<1>4. CASE Start \/ StartBlind \/ Crash
  <2>1. tick' = "idle" /\ \A r \in Reconnector : rc'[r] = "idle"
    BY <1>4, <1>c DEF Start, StartBlind, Crash, ControlInv
  <2>2. QED
    BY <2>1 DEF FreshInv
<1>5. CASE LockTick
  <2>1. UNCHANGED << rc, isolated, seen, isolations, raced >> /\ (tick' = "isolate" => ~isolated)
        /\ tick' \in {"idle", "isolate"}
    BY <1>5 DEF LockTick, witness
  <2>2. QED
    BY <2>1 DEF FreshInv
<1>6. CASE IsolateContainer \/ IsolateFails
  <2>1. tick = "isolate" /\ UNCHANGED << rc, raced >>
    BY <1>6 DEF IsolateContainer, IsolateFails, witness
  <2>2. \A r \in Reconnector \ raced : rc[r] # "connect"
    BY <2>1 DEF FreshInv
  <2>3. QED
    BY <2>1, <2>2 DEF FreshInv
<1>7. CASE SetIsolated
  <2>1. rc' = rc /\ raced' = raced /\ tick = "setFlag" /\ tick' = "broadcast"
    BY <1>7 DEF SetIsolated, history, witness
  <2>2. QED
    BY <2>1 DEF FreshInv
<1>8. ASSUME NEW r \in Reconnector, Check(r) PROVE FreshInv'
  <2>1. /\ UNCHANGED << tick, isolated, isolations >> /\ isolated /\ mu = Nobody
        /\ seen'[r] = isolations /\ raced' = raced \ {r}
        /\ \A q \in Reconnector \ {r} : rc'[q] = rc[q] /\ seen'[q] = seen[q]
    BY <1>8, <1>c DEF Check, Goto, ControlInv, backend
  <2>2. tick \notin {"isolate", "setFlag"}
    BY <2>1, <1>c DEF ControlInv
  <2>3. QED
    BY <2>1, <2>2 DEF FreshInv
<1>9. ASSUME NEW r \in Reconnector,
             \/ ReconnectContainer(r) \/ ReconnectFails(r)
             \/ BroadcastReconnected(r) \/ LogReconnected(r) \/ LogReconnectedFails(r)
      PROVE  FreshInv'
  <2>1. /\ UNCHANGED << tick, isolated, seen, isolations, raced >> /\ rc'[r] # "connect"
        /\ \A q \in Reconnector \ {r} : rc'[q] = rc[q]
    BY <1>9, <1>c DEF ReconnectContainer, ReconnectFails, BroadcastReconnected, LogReconnected,
       LogReconnectedFails, Goto, ControlInv, backend, history, witness
  <2>2. QED
    BY <2>1 DEF FreshInv
<1>10. ASSUME NEW r \in Reconnector, ClearIsolated(r) PROVE FreshInv'
  <2>1. /\ \A q \in Reconnector : rc'[q] = "connect" => rc[q] = "connect"
        /\ raced' = raced \cup {q \in Reconnector : rc[q] = "connect"}
    BY <1>10, <1>c DEF ClearIsolated, Goto, ControlInv
  <2>2. \A q \in Reconnector \ raced' : rc'[q] # "connect"
    BY <2>1
  <2>3. QED
    BY <2>2 DEF FreshInv
<1>11. QED
  BY <1>2, <1>3, <1>4, <1>5, <1>6, <1>7, <1>8, <1>9, <1>10 DEF Next, Tick, Reconnect, Failure

\* For any number of reconnect requests at once: the container is put back on
\* the network by a request accepted while this same isolation was in force, or
\* by one that another request overtook, clearing the flag between its check and
\* its NetworkConnect (monitor.go:124-137), whatever fails or crashes meanwhile.
THEOREM StaleOnlyAfterARace == Spec => StaleOnlyIfRaced
<1>1. Init => FreshInv
  BY DEF Init, FreshInv
<1>3. ASSUME FreshInv, [Next]_vars, ~attached, attached'
      PROVE  \E r \in Reconnector : rc[r] = "connect" /\ (seen[r] = isolations \/ r \in raced)
  <2>1. \/ \E r \in Reconnector : ReconnectContainer(r) \/ ReconnectFails(r)
        \/ attached' = attached \/ attached' = FALSE
    BY <1>3 DEF Next, NewChange, LateSave, Start, Tick, Poll, Score, LockTick, IsolateContainer, SetIsolated,
       BroadcastIsolated, LogIsolated, LogIsolatedFails, Reconnect, Check, ClearIsolated,
       BroadcastReconnected, LogReconnected, LogReconnectedFails,
       Failure, StartBlind, Crash, PollCut, PollTorn, PollLingers, ScoreFails, IsolateFails, vars
  <2>2. PICK r \in Reconnector : rc[r] = "connect"
    BY <1>3, <2>1 DEF ReconnectContainer, ReconnectFails
  <2>3. seen[r] = isolations \/ r \in raced
    BY <1>3, <2>2 DEF FreshInv
  <2>4. QED
    BY <2>2, <2>3
<1>4. FreshInv /\ [Next]_vars =>
        [~attached /\ attached' =>
           \E r \in Reconnector : rc[r] = "connect" /\ (seen[r] = isolations \/ r \in raced)]_vars
  BY <1>3
<1>5. Spec => []DockerInv
  <2>1. Init => DockerInv
    BY HolderAssumption DEF Init, DockerInv, ControlInv, FlagInv
  <2>2. QED
    BY <2>1, DockerStep, PTL DEF Spec
<1>6. QED
  BY <1>1, FreshStep, <1>4, <1>5, TypeCorrect, PTL DEF Spec, StaleOnlyIfRaced
===============================================================================
