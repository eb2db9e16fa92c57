-------------------------------- MODULE Monitor --------------------------------
(***************************************************************************)
(* Continuous monitoring: the backend's Monitor (backend/monitor.go) with  *)
(* its ticker and its Reconnect requests, Docker's attachment of the       *)
(* monitored container, and the poller inside the container                *)
(* (monitored-endpoint/poller.py), which diffs against a saved snapshot.   *)
(*                                                                         *)
(* A change is one process, connection or file that appears in the         *)
(* container; changes are numbered, and a snapshot is the number of        *)
(* changes it has seen.                                                    *)
(***************************************************************************)
EXTENDS Integers

CONSTANTS
  Reconnector,  \* POST /api/monitor/reconnect requests in flight
  Ticker,       \* the goroutine that runs Tick
  Nobody,       \* the holder of mon.mu when it is free
  MaxChanges,   \* bound: changes in the container
  MaxIsolations,\* bound: times the container is cut off
  MaxFaults     \* bound: failed calls, crashes, corrupted snapshots

ASSUME HolderAssumption == Ticker # Nobody

ASSUME ChangesAssumption == MaxChanges \in Nat
ASSUME BoundsAssumption == {MaxIsolations, MaxFaults} \subseteq Nat

VARIABLES
  attached,     \* Docker: the container is on mirraura-monitor-net
  up,           \* the backend runs
  isolated, mu, \* Monitor's fields
  tick,         \* where Tick is
  batch,        \* the changes it has collected
  rc,           \* where each Reconnect is
  changes,      \* changes in the container so far
  state,        \* poller_state.json: changes covered, or NoState
  late,         \* the snapshot of a poller whose tick has ended, or NoState
  feed,         \* the last "isolated" or "reconnected" broadcast
  log,          \* the last such action in the audit log
  scored,       \* history: changes that were part of a verdict
  excused,      \* history: changes a fault or a fresh baseline swallowed
  rewound,      \* history: changes that a late save made new again
  isolations,   \* history: times Docker cut the container off
  seen,         \* history: isolations when a Reconnect checked the flag
  raced,        \* history: requests past the check when another cleared the flag
  silenced,     \* history: which of feed and log a fault kept from speaking
  blurred,      \* history: a Docker call took effect but reported an error
  crossed,      \* history: a Reconnect and an isolating Tick ran at once
  faults

endpoint == << changes, state, late >>
backend == << up, isolated, mu >>
public == << feed, log >>
witness == << seen, raced, silenced >>
history == << scored, excused, rewound, isolations, witness, blurred, crossed >>
vars == << attached, backend, tick, batch, rc, endpoint, public, history, faults >>

NoState == -1
Change == 1..MaxChanges

TypeOK ==
  /\ attached \in BOOLEAN /\ up \in BOOLEAN /\ isolated \in BOOLEAN
  /\ mu \in {Nobody, Ticker}
  /\ tick \in {"idle", "score", "lock", "isolate", "setFlag", "broadcast", "audit"}
  /\ batch \subseteq Change
  /\ rc \in [Reconnector -> {"idle", "connect", "clear", "broadcast", "audit"}]
  /\ changes \in 0..MaxChanges /\ state \in NoState..MaxChanges
  /\ late \in NoState..MaxChanges
  /\ feed \in {"none", "isolated", "reconnected"}
  /\ log \in {"none", "isolated", "reconnected"}
  /\ scored \subseteq Change /\ excused \subseteq Change /\ rewound \subseteq Change
  /\ isolations \in 0..MaxIsolations
  /\ seen \in [Reconnector -> 0..MaxIsolations]
  /\ raced \subseteq Reconnector /\ silenced \subseteq {"feed", "log"}
  /\ blurred \in BOOLEAN /\ crossed \in BOOLEAN /\ faults \in 0..MaxFaults

Fault == faults < MaxFaults /\ faults' = faults + 1

Init ==
  /\ attached = TRUE /\ up = FALSE /\ isolated = FALSE /\ mu = Nobody
  /\ tick = "idle" /\ batch = {}
  /\ rc = [r \in Reconnector |-> "idle"]
  /\ changes = 0 /\ state = NoState /\ late = NoState
  /\ feed = "none" /\ log = "none"
  /\ scored = {} /\ excused = {} /\ rewound = {} /\ isolations = 0
  /\ seen = [r \in Reconnector |-> 0] /\ raced = {} /\ silenced = {}
  /\ blurred = FALSE /\ crossed = FALSE /\ faults = 0

-------------------------------------------------------------------------------
(* The container, and the backend process *)

NewChange ==
  /\ changes < MaxChanges
  /\ changes' = changes + 1
  /\ UNCHANGED << attached, backend, tick, batch, rc, state, late, public, history, faults >>

\* Mutant: the flag starts out false.
Start_Forgets ==
  /\ ~up /\ up' = TRUE /\ isolated' = FALSE
  /\ UNCHANGED << attached, mu, tick, batch, rc, endpoint, public, history, faults >>

\* InitIsolatedState, before the server and the ticker run.
Start ==
  /\ ~up /\ up' = TRUE
  /\ isolated' = ~attached
  /\ UNCHANGED << attached, mu, tick, batch, rc, endpoint, public, history, faults >>

\* The inspect call fails: isolated keeps its zero value.
StartBlind ==
  /\ ~up /\ up' = TRUE
  /\ Fault
  /\ isolated' = FALSE
  /\ blurred' = (blurred \/ ~attached)
  /\ UNCHANGED << attached, mu, tick, batch, rc, endpoint, public, scored, excused,
                  rewound, isolations, witness, crossed >>

\* History only: what is still to be said of a change that Docker has made,
\* and what a fault keeps from being said.
FeedOwed == tick \in {"setFlag", "broadcast"}
            \/ \E r \in Reconnector : rc[r] \in {"clear", "broadcast"}
LogOwed == FeedOwed \/ tick = "audit" \/ \E r \in Reconnector : rc[r] = "audit"
Owed == (IF FeedOwed THEN {"feed"} ELSE {}) \cup (IF LogOwed THEN {"log"} ELSE {})
Silence(channels) == silenced' = silenced \cup channels

Crash ==
  /\ up /\ up' = FALSE
  /\ Fault
  /\ isolated' = FALSE /\ mu' = Nobody
  /\ tick' = "idle" /\ batch' = {}
  /\ rc' = [r \in Reconnector |-> "idle"]
  /\ excused' = excused \cup (batch \ scored)
  /\ blurred' = FALSE   \* the next start asks Docker again
  /\ Silence(Owed)
  /\ UNCHANGED << attached, endpoint, public, scored, rewound, isolations, seen, raced, crossed >>

-------------------------------------------------------------------------------
(* Tick: poll and score *)

New == {c \in Change : state < c /\ c <= changes}

\* The poll's outcome: nothing new ends the tick.
Collect(cs) == /\ batch' = cs
               /\ tick' = IF cs = {} THEN "idle" ELSE "score"

\* Mutant: a poll of an isolated container is thrown away.
Poll_Isolated ==
  /\ up /\ tick = "idle"
  /\ state' = changes
  /\ Collect(IF state = NoState \/ isolated THEN {} ELSE New)
  /\ excused' = IF state = NoState THEN excused \cup (1..changes \ scored) ELSE excused
  /\ UNCHANGED << attached, backend, rc, changes, late, public, scored, rewound, isolations, witness,
                  blurred, faults, crossed >>

\* poller.py saves the new snapshot, then emits what the old one lacks; with
\* no valid old one it only saves (the baseline).
Poll ==
  /\ up /\ tick = "idle"
  /\ state' = changes
  /\ Collect(IF state = NoState THEN {} ELSE New)
  /\ excused' = IF state = NoState THEN excused \cup (1..changes \ scored) ELSE excused
  /\ UNCHANGED << attached, backend, rc, changes, late, public, scored, rewound, isolations, witness,
                  blurred, faults, crossed >>

\* The exec stream ends early (the tick's deadline, the connection): Tick
\* goes on with the lines it has.
PollCut ==
  /\ up /\ tick = "idle" /\ state # NoState
  /\ Fault
  /\ state' = changes
  /\ \E n \in state..changes :
       /\ Collect({c \in New : c <= n})
       /\ excused' = excused \cup {c \in New : c > n}
  /\ UNCHANGED << attached, backend, rc, changes, late, public, scored, rewound, isolations,
                  witness, blurred, crossed >>

\* The poller dies in write_text: the state file is corrupt.
PollTorn ==
  /\ up /\ tick = "idle"
  /\ Fault
  /\ state' = NoState
  /\ UNCHANGED << attached, backend, tick, batch, rc, changes, late, public, history >>

\* The tick's deadline passes before the poller has printed anything.  The tick
\* ends; its poller goes on, beside those of later ticks.
PollLingers ==
  /\ up /\ tick = "idle" /\ late = NoState
  /\ Fault
  /\ late' = changes
  /\ UNCHANGED << attached, backend, tick, batch, rc, changes, state, public, history >>

\* It saves what it had captured and prints to nobody.
LateSave ==
  /\ late # NoState
  /\ state' = late /\ late' = NoState
  /\ excused' = excused \cup (1..late \ (scored \cup batch))
  /\ rewound' = rewound \cup ((scored \cup batch \cup excused) \ 1..late)
  /\ UNCHANGED << attached, backend, tick, batch, rc, changes, public, scored, isolations,
                  witness, blurred, crossed, faults >>

\* scoreWithVerdictEngine and the verdict's broadcast; only Compromised goes on.
Score ==
  /\ tick = "score"
  /\ scored' = scored \cup batch
  /\ batch' = {}
  /\ tick' \in {"lock", "idle"}
  /\ UNCHANGED << attached, backend, rc, endpoint, public, excused, rewound, isolations,
                  witness, blurred, faults, crossed >>

ScoreFails ==
  /\ tick = "score"
  /\ Fault
  /\ excused' = excused \cup batch
  /\ batch' = {} /\ tick' = "idle"
  /\ UNCHANGED << attached, backend, rc, endpoint, public, scored, rewound, isolations,
                  witness, blurred, crossed >>

-------------------------------------------------------------------------------
(* Tick: isolate, under mon.mu *)

\* History only.
Cross(now) == crossed' = (crossed \/ now)

LockTick ==
  /\ tick = "lock" /\ mu = Nobody
  /\ IF isolated THEN tick' = "idle" /\ UNCHANGED mu
                 ELSE tick' = "isolate" /\ mu' = Ticker
  /\ Cross(tick' = "isolate" /\ \E r \in Reconnector : rc[r] # "idle")
  /\ UNCHANGED << attached, up, isolated, batch, rc, endpoint, public, scored, excused,
                  rewound, isolations, witness, blurred, faults >>

\* NetworkDisconnect: an error if the container is not on the network.
IsolateContainer ==
  /\ tick = "isolate"
  /\ IF attached
     THEN /\ isolations < MaxIsolations
          /\ attached' = FALSE /\ isolations' = isolations + 1
          /\ tick' = "setFlag" /\ UNCHANGED mu
     ELSE tick' = "idle" /\ mu' = Nobody /\ UNCHANGED << attached, isolations >>
  /\ UNCHANGED << up, isolated, batch, rc, endpoint, public, scored, excused, rewound, witness,
                  blurred, faults, crossed >>

\* The call fails (its deadline, the Docker socket), before or after Docker
\* has done the work.
IsolateFails ==
  /\ tick = "isolate"
  /\ Fault
  /\ \/ UNCHANGED << attached, isolations, blurred, silenced >>
     \/ /\ attached /\ isolations < MaxIsolations
        /\ attached' = FALSE /\ isolations' = isolations + 1 /\ blurred' = TRUE
        /\ Silence({"feed", "log"})
  /\ tick' = "idle" /\ mu' = Nobody
  /\ UNCHANGED << up, isolated, batch, rc, endpoint, public, scored, excused, rewound, seen,
                  raced, crossed >>

\* Mutant: the dashboards are not told.
SetIsolated_Silent ==
  /\ tick = "setFlag"
  /\ isolated' = TRUE /\ mu' = Nobody
  /\ tick' = "audit"
  /\ UNCHANGED << attached, up, batch, rc, endpoint, public, history, faults >>
SetIsolated ==
  /\ tick = "setFlag"
  /\ isolated' = TRUE /\ mu' = Nobody
  /\ tick' = "broadcast"
  /\ UNCHANGED << attached, up, batch, rc, endpoint, public, history, faults >>

BroadcastIsolated ==
  /\ tick = "broadcast"
  /\ feed' = "isolated" /\ tick' = "audit"
  /\ UNCHANGED << attached, backend, batch, rc, endpoint, log, history, faults >>

LogIsolated ==
  /\ tick = "audit"
  /\ log' = "isolated" /\ tick' = "idle"
  /\ UNCHANGED << attached, backend, batch, rc, endpoint, feed, history, faults >>

\* logAction fails: the error is logged on the server only.
LogIsolatedFails ==
  /\ tick = "audit"
  /\ Fault
  /\ tick' = "idle" /\ Silence({"log"})
  /\ UNCHANGED << attached, backend, batch, rc, endpoint, public, scored, excused, rewound,
                  isolations, seen, raced, blurred, crossed >>

-------------------------------------------------------------------------------
(* Reconnect *)

Goto(r, step) == rc' = [rc EXCEPT ![r] = step]

\* Mutant: the flag is not looked at.
Check_NoFlag(r) ==
  /\ up /\ rc[r] = "idle" /\ mu = Nobody
  /\ Goto(r, "connect")
  /\ seen' = [seen EXCEPT ![r] = isolations] /\ raced' = raced \ {r}
  /\ Cross(tick \in {"setFlag", "broadcast", "audit"})
  /\ UNCHANGED << attached, backend, tick, batch, endpoint, public, scored, excused,
                  rewound, isolations, silenced, blurred, faults >>

\* Locks, looks at the flag, unlocks; not isolated is a 400.
Check(r) ==
  /\ up /\ rc[r] = "idle" /\ mu = Nobody /\ isolated
  /\ Goto(r, "connect")
  /\ seen' = [seen EXCEPT ![r] = isolations] /\ raced' = raced \ {r}
  /\ Cross(tick \in {"setFlag", "broadcast", "audit"})
  /\ UNCHANGED << attached, backend, tick, batch, endpoint, public, scored, excused,
                  rewound, isolations, silenced, blurred, faults >>

\* NetworkConnect, without the lock: an error if it is on the network.
ReconnectContainer(r) ==
  /\ rc[r] = "connect"
  /\ IF attached THEN Goto(r, "idle") /\ UNCHANGED attached
                 ELSE attached' = TRUE /\ Goto(r, "clear")
  /\ UNCHANGED << backend, tick, batch, endpoint, public, history, faults >>

\* The call fails (the admin's browser hung up), before or after the fact.
ReconnectFails(r) ==
  /\ rc[r] = "connect"
  /\ Fault
  /\ \/ UNCHANGED << attached, blurred, silenced >>
     \/ /\ ~attached /\ attached' = TRUE /\ blurred' = TRUE
        /\ Silence({"feed", "log"})
  /\ Goto(r, "idle")
  /\ UNCHANGED << backend, tick, batch, endpoint, public, scored, excused, rewound,
                  isolations, seen, raced, crossed >>

ClearIsolated(r) ==
  /\ rc[r] = "clear" /\ mu = Nobody
  /\ isolated' = FALSE
  /\ raced' = raced \cup {q \in Reconnector : rc[q] = "connect"}
  /\ Goto(r, "broadcast")
  /\ UNCHANGED << attached, up, mu, tick, batch, endpoint, public, scored, excused, rewound,
                  isolations, seen, silenced, blurred, crossed, faults >>

BroadcastReconnected(r) ==
  /\ rc[r] = "broadcast"
  /\ feed' = "reconnected"
  /\ Goto(r, "audit")
  /\ UNCHANGED << attached, backend, tick, batch, endpoint, log, history, faults >>

LogReconnected(r) ==
  /\ rc[r] = "audit"
  /\ log' = "reconnected"
  /\ Goto(r, "idle")
  /\ UNCHANGED << attached, backend, tick, batch, endpoint, feed, history, faults >>

LogReconnectedFails(r) ==
  /\ rc[r] = "audit"
  /\ Fault
  /\ Goto(r, "idle") /\ Silence({"log"})
  /\ UNCHANGED << attached, backend, tick, batch, endpoint, public, scored, excused, rewound,
                  isolations, seen, raced, blurred, crossed >>

Tick == Poll \/ Score \/ LockTick \/ IsolateContainer \/ SetIsolated \/ BroadcastIsolated
        \/ LogIsolated

Reconnect(r) == Check(r) \/ ReconnectContainer(r) \/ ClearIsolated(r)
                \/ BroadcastReconnected(r) \/ LogReconnected(r)

Failure == StartBlind \/ Crash \/ PollCut \/ PollTorn \/ PollLingers \/ ScoreFails \/ IsolateFails
           \/ LogIsolatedFails
           \/ \E r \in Reconnector : ReconnectFails(r) \/ LogReconnectedFails(r)

Next == NewChange \/ LateSave \/ Start \/ Tick \/ (\E r \in Reconnector : Reconnect(r)) \/ Failure

Spec == Init /\ [][Next]_vars

-------------------------------------------------------------------------------
(* Properties *)

AtRest == up /\ tick = "idle" /\ \A r \in Reconnector : rc[r] = "idle"

\* The flag that decides whether a tick isolates and whether a Reconnect is
\* accepted is Docker's truth whenever nobody is about to change either,
\* through restarts and failures; except after a Docker call that took effect
\* but failed, or an inspection that failed at startup.
FlagTracksDocker == AtRest /\ ~blurred => (isolated <=> ~attached)

\* Every change a saved snapshot covers is part of a verdict, or on its way
\* to one, unless a fault or a (re)baseline swallowed it: poller.py saves before
\* it emits, so nothing would ever report it again.  And what is on its way has
\* not been judged before, nor was it there when a baseline was taken: the
\* cold-start rule of concepts.md:67, also after a torn snapshot.  Only a poller
\* that outlived its tick and overwrote a newer snapshot brings changes back.
EveryChangeJudgedOnce ==
  /\ \A c \in Change : c <= state => c \in scored \cup batch \cup excused
  /\ batch \cap (scored \cup excused) \subseteq rewound

\* README.md:14-15, "A `Compromised` verdict disconnects it from its network
\* for real": when Tick returns without an error after such a verdict, the
\* container is off the network.
CompromisedDisconnects ==
  [][ tick = "lock" /\ tick' = "idle" /\ up' => ~attached ]_vars

\* concepts.md:76, un-containing requires "a human decision every single
\* time": the container is reconnected by a request that was accepted while
\* this same isolation was in force; or else by one that was accepted in an
\* earlier isolation and overtaken, before its NetworkConnect, by another
\* request that cleared the flag.  With two requests at once the code does not
\* keep the promise: the slower one undoes an isolation nobody has decided on.
StaleOnlyIfRaced ==
  [][ ~attached /\ attached' =>
        \E r \in Reconnector :
          rc[r] = "connect" /\ (seen[r] = isolations \/ r \in raced) ]_vars

\* concepts.md:210, "an isolation banner when the container is cut off", and
\* the log's account of it: at rest, the last broadcast and the last audited
\* action each tell Docker's truth, through crashes, restarts and failed polls,
\* unless an isolation and a reconnection were under way at once (both speak
\* only after they have released mon.mu), or a fault came between a change and
\* that announcement of it.
PublicRecordIsTrue ==
  AtRest /\ ~crossed =>
    /\ "feed" \notin silenced => (feed = "isolated" <=> ~attached)
    /\ "log" \notin silenced => (log = "isolated" <=> ~attached)
===============================================================================
