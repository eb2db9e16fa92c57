------------------------------- MODULE LiveFeed -------------------------------
(***************************************************************************)
(* What a browser is told: the dashboard's page (frontend/src/App.tsx,     *)
(* api.ts) on the Hub, with the handlers that detonate samples, as many at *)
(* a time as there are uploads, and the monitor's Tick and Reconnect as    *)
(* the senders.  The hub sends every run's events to every page, and the   *)
(* page keeps them all.  The page learns of the monitor's state by         *)
(* messages, by the answer to its own question and by the answer to its    *)
(* own reconnect request, and these overtake each other.                   *)
(* The monitor's own events go to a second list of the same kind and are   *)
(* left out; the tables have the module Tables.                            *)
(***************************************************************************)
EXTENDS Hub, Sensor

CONSTANTS
  Run,        \* senders: the handlers that detonate a sample
  Tick,       \* sender: Monitor.Tick
  Admin,      \* sender: Monitor.Reconnect
  NoConn,     \* the page has no socket
  NoRun,      \* the page waits for no verdict
  Programs,   \* samples: sequences of system calls
  MaxEvents,  \* MAX_EVENTS: how many events the feed keeps
  MaxWork,    \* bound: samples and isolations, one before the start included
  MaxLogins,  \* bound: times the user signs in
  MaxFaults,  \* bound: broken links, failed requests and runs
  MaxTotal    \* bound: samples, isolations and faults

\* goroutines, none of them Nobody; no socket is NoConn and no run NoRun
ASSUME NamesAssumption ==
  /\ Sender = Run \cup {Tick, Admin} /\ Tick \notin Run /\ Admin \notin Run /\ Tick # Admin
  /\ Nobody \notin Sender /\ NoConn \notin Conn /\ NoRun \notin Run

\* a sample makes finitely many calls, one after the other
ASSUME ProgramsAssumption == \A calls \in Programs : calls \in Seq({calls[i] : i \in DOMAIN calls})

ASSUME MaxEventsAssumption == MaxEvents \in Nat

ASSUME BoundsAssumption == {PipeCap, MaxLogins, MaxFaults} \subseteq Nat /\ MaxWork \in Nat \ {0}

VARIABLES
  isolated,             \* backend: Monitor.isolated
  run, src,             \* each detonation: its stage and what submitted it
  mine,                 \* page: the run whose verdict its UploadPanel waits for
  tick, reconnect,      \* stages of Monitor.Tick and Monitor.Reconnect
  user, ws, socket,     \* page: signed in, state of connectLive
  status,               \* page: fetchMonitorStatus
  banner, feed,         \* page: what it shows
  script,               \* history: what that run reports
  whole,                \* history: the page's socket missed none of it
  gap,                  \* history: the banner may have missed a change
  work, logins, faults

runner == << run, src, mine, script >>
monitor == << isolated, tick, reconnect >>
server == << hub, wire, outbox, runner, monitor, work >>
page == << user, ws, socket, logins >>
view == << status, banner, feed >>
vars == << server, page, view, whole, gap, faults >>

TypeOK ==
  /\ clients \subseteq Conn /\ mu \in Sender \cup {Nobody} /\ todo \subseteq clients
  /\ handler \in [Conn -> {"none", "accepted", "reading", "leaving"}]
  /\ link \in [Conn -> {"free", "up", "cut"}]
  /\ \A c \in Conn : Len(pipe[c]) <= PipeCap
  /\ run \in [Run -> {"idle", "stream", "verdict"}]
  /\ src \in [Run -> {"sample", "interceptor"}]
  /\ mine \in Run \cup {NoRun}
  /\ tick \in {"idle", "announce"}
  /\ reconnect \in {"idle", "asked", "announce", "refused", "answer"}
  /\ ws \in {"closed", "connecting", "live", "offline"}
  /\ socket \in Conn \cup {NoConn}
  /\ status \in {"none", "asked", "isolated", "connected"}
  /\ Len(feed) <= MaxEvents
  /\ {isolated, user, banner, whole, gap} \subseteq BOOLEAN
  /\ work \in 0..MaxWork
  /\ logins \in 0..MaxLogins /\ faults \in 0..MaxFaults

Init ==
  /\ HubInit
  /\ isolated \in BOOLEAN /\ tick = "idle" /\ reconnect = "idle"
  /\ run = [r \in Run |-> "idle"] /\ src = [r \in Run |-> "sample"]
  /\ mine = NoRun /\ script = << >>
  /\ user = FALSE /\ ws = "closed" /\ socket = NoConn
  /\ status = "none" /\ banner = FALSE /\ feed = << >>
  /\ whole = FALSE /\ gap = FALSE
  /\ work = (IF isolated THEN 1 ELSE 0) /\ logins = 0 /\ faults = 0

Fault == faults < MaxFaults /\ work + faults < MaxTotal /\ faults' = faults + 1

Work == work < MaxWork /\ work + faults < MaxTotal /\ work' = work + 1

\* a message broadcast now would reach the page
Listening == socket \in clients /\ link[socket] = "up"

IsState(m) == m.type \in {"isolated", "reconnected"}

-------------------------------------------------------------------------------
(* A detonation, as far as it is broadcast *)

\* run and place (the how-many-th event of its run) are history: the page sees neither
Event(e, from, r, k) == [type |-> "event", source |-> from, data |-> e, run |-> r, place |-> k]

IsEventOf(m, r) == m.type = "event" /\ m.run = r

\* a name no run has, and nothing of an earlier run of that name is under way
Unused(r) ==
  /\ run[r] = "idle"
  /\ \A c \in Conn : \A i \in DOMAIN pipe[c] : ~IsEventOf(pipe[c][i], r)

\* The sensor's output may end early.  Which name the handler gets is no matter.
StartRun(r, source, own) ==
  /\ Unused(r) /\ r = (CHOOSE s \in Run : Unused(s)) /\ Work
  /\ run' = [run EXCEPT ![r] = "stream"] /\ src' = [src EXCEPT ![r] = source]
  /\ \E calls \in Programs : \E split \in SUBSET DOMAIN calls :
       LET events == ParseTraceLog(StripRootExecve(StraceLog(calls, split)))
       IN \E n \in 0..Len(events) :
            /\ outbox' = [outbox EXCEPT ![r] = [i \in 1..n |-> Event(events[i], source, r, i)]]
            /\ script' = IF own THEN SubSeq(Reported(calls), 1, n) ELSE script
  /\ UNCHANGED << hub, wire, monitor, page, status, banner, gap, faults >>

\* somebody else's upload, or the interceptor's
OtherRun ==
  /\ \E r \in Run, source \in {"sample", "interceptor"} : StartRun(r, source, FALSE)
  /\ UNCHANGED << mine, feed, whole >>

\* UploadPanel.handleUpload, one at a time: the feed is emptied when the request goes out
Upload ==
  /\ user /\ mine = NoRun
  /\ \E r \in Run : StartRun(r, "sample", TRUE) /\ mine' = r
  /\ feed' = << >>
  /\ whole' = Listening

\* the page waits for no verdict any more
Forget == mine' = NoRun /\ script' = << >> /\ whole' = FALSE

RunEnds(r) ==
  /\ outbox[r] = << >>
  /\ run' = [run EXCEPT ![r] = "idle"] /\ src' = [src EXCEPT ![r] = "sample"]
  /\ IF r = mine THEN Forget ELSE UNCHANGED << mine, script, whole >>
  /\ UNCHANGED << hub, wire, outbox, monitor, work, page, view, gap >>

Score(r) ==
  /\ run[r] = "stream" /\ outbox[r] = << >>
  /\ run' = [run EXCEPT ![r] = "verdict"]
  /\ outbox' = [outbox EXCEPT ![r] = << [type |-> "verdict", source |-> src[r]] >>]
  /\ UNCHANGED << hub, wire, src, mine, script, work, monitor, page, view, whole, gap, faults >>

RunFails(r) == run[r] = "stream" /\ RunEnds(r) /\ Fault

Answer(r) == run[r] = "verdict" /\ RunEnds(r) /\ UNCHANGED faults

-------------------------------------------------------------------------------
(* The monitor *)

\* Tick after a Compromised verdict
Isolate ==
  /\ tick = "idle" /\ ~isolated /\ Work
  /\ isolated' = TRUE
  /\ tick' = "announce"
  /\ outbox' = [outbox EXCEPT ![Tick] = << [type |-> "isolated"] >>]
  /\ gap' = (gap \/ reconnect = "announce")
  /\ UNCHANGED << hub, wire, runner, reconnect, page, view, whole, faults >>

TickEnds ==
  /\ tick = "announce" /\ outbox[Tick] = << >>
  /\ tick' = "idle"
  /\ UNCHANGED << hub, wire, outbox, runner, isolated, reconnect, work, page, view, whole, gap, faults >>

\* MonitorBanner.handleReconnect
ClickReconnect ==
  /\ user /\ banner /\ reconnect = "idle"
  /\ reconnect' = "asked"
  /\ UNCHANGED << hub, wire, outbox, runner, isolated, tick, work, page, view, whole, gap, faults >>

ServeReconnect ==
  /\ reconnect = "asked"
  /\ \/ /\ ~isolated /\ reconnect' = "refused"
        /\ UNCHANGED << isolated, outbox, gap >>
     \/ /\ isolated /\ reconnect' = "announce"
        /\ isolated' = FALSE
        /\ outbox' = [outbox EXCEPT ![Admin] = << [type |-> "reconnected"] >>]
        /\ gap' = (gap \/ tick = "announce")
  /\ UNCHANGED << hub, wire, runner, tick, work, page, view, whole, faults >>

AnswerReconnect ==
  /\ reconnect = "announce" /\ outbox[Admin] = << >>
  /\ reconnect' = "answer"
  /\ UNCHANGED << hub, wire, outbox, runner, isolated, tick, work, page, view, whole, gap, faults >>

\* onReconnected; a refusal is shown as an error and leaves the banner up
ReconnectAnswered ==
  /\ reconnect \in {"refused", "answer"}
  /\ reconnect' = "idle"
  /\ IF reconnect = "answer"
     THEN banner' = FALSE /\ gap' = (gap \/ isolated)
     ELSE UNCHANGED << banner, gap >>
  /\ UNCHANGED << hub, wire, outbox, runner, isolated, tick, work, page, status, feed, whole, faults >>

-------------------------------------------------------------------------------
(* The page: session and socket *)

\* a message to be sent that is no longer true
Outdated ==
  \E s \in Sender : \E i \in DOMAIN outbox[s] :
    LET m == outbox[s][i] IN IsState(m) /\ isolated # (m.type = "isolated")

\* App's effect on user (bound: one status request at a time)
Login ==
  /\ ~user /\ status = "none" /\ logins < MaxLogins
  /\ user' = TRUE /\ ws' = "connecting" /\ status' = "asked"
  /\ logins' = logins + 1
  /\ gap' = Outdated
  /\ UNCHANGED << server, socket, banner, feed, whole, faults >>

\* handleLogout, or a 401: conn.close()
Logout ==
  /\ user
  /\ user' = FALSE /\ ws' = "closed" /\ socket' = NoConn
  /\ IF socket \in Conn /\ link[socket] = "up" THEN CutLink(socket) ELSE UNCHANGED wire
  /\ Forget
  /\ UNCHANGED << hub, outbox, run, src, monitor, work, logins, view, gap, faults >>

ServeStatus ==
  /\ status = "asked"
  /\ status' = IF isolated THEN "isolated" ELSE "connected"
  /\ UNCHANGED << server, page, banner, feed, whole, gap, faults >>

StatusAnswered ==
  /\ status \in {"isolated", "connected"}
  /\ status' = "none" /\ banner' = (status = "isolated")
  /\ UNCHANGED << server, page, feed, whole, gap, faults >>

\* an error is shown, the banner stays as it was
StatusFails ==
  /\ status # "none" /\ Fault
  /\ status' = "none" /\ gap' = TRUE
  /\ UNCHANGED << server, page, banner, feed, whole >>

\* connect() and onopen
Open ==
  /\ ws = "connecting" /\ socket = NoConn
  /\ \E c \in Conn : Upgrade(c) /\ socket' = c
  /\ ws' = "live"
  /\ UNCHANGED << outbox, runner, monitor, work, user, logins, view, whole, gap, faults >>

\* onclose without onopen
ConnectFails ==
  /\ ws = "connecting" /\ Fault
  /\ ws' = "offline"
  /\ UNCHANGED << server, user, socket, logins, view, whole, gap >>

LinkBreaks ==
  /\ socket \in Conn /\ link[socket] = "up" /\ Fault
  /\ CutLink(socket)
  /\ gap' = (gap \/ \E i \in DOMAIN pipe[socket] : IsState(pipe[socket][i]))
  /\ whole' = FALSE
  /\ UNCHANGED << hub, outbox, runner, monitor, work, page, view >>

\* Mutant: the socket is not opened again
OnClose_GivesUp ==
  /\ ws = "live" /\ link[socket] # "up"
  /\ ws' = "closed" /\ socket' = NoConn
  /\ UNCHANGED << server, user, logins, view, whole, gap, faults >>

\* onclose: try again after the backoff
OnClose ==
  /\ ws = "live" /\ link[socket] # "up"
  /\ ws' = "offline" /\ socket' = NoConn
  /\ UNCHANGED << server, user, logins, view, whole, gap, faults >>

Retry ==
  /\ ws = "offline" /\ ws' = "connecting"
  /\ UNCHANGED << server, user, socket, logins, view, whole, gap, faults >>

-------------------------------------------------------------------------------
(* The page: messages *)

\* applyLiveEvent: sample events only, whosever, the last MaxEvents of them
Applied(m) ==
  LET longer == Append(feed, m)
  IN IF m.type = "event" /\ m.source = "sample"
     THEN SubSeq(longer, IF Len(longer) > MaxEvents THEN 2 ELSE 1, Len(longer))
     ELSE feed

\* the status answer under way was given before this message
Overtaken == status \in {"isolated", "connected"}

\* Mutant: an isolation is announced only to screen readers
ShowState_Quiet(m) ==
  IF m.type = "reconnected"
  THEN banner' = FALSE /\ gap' = (gap \/ Overtaken)
  ELSE UNCHANGED << banner, gap >>

ShowState(m) ==
  IF IsState(m)
  THEN banner' = (m.type = "isolated") /\ gap' = (gap \/ Overtaken)
  ELSE UNCHANGED << banner, gap >>

\* App's onMessage
Receive ==
  /\ socket \in Conn /\ pipe[socket] # << >>
  /\ feed' = Applied(Head(pipe[socket]))
  /\ ShowState(Head(pipe[socket]))
  /\ pipe' = [pipe EXCEPT ![socket] = Tail(@)]
  /\ UNCHANGED << hub, link, outbox, runner, monitor, work, page, status, whole, faults >>

-------------------------------------------------------------------------------
(* The hub's steps, and what the page misses by them *)

Begin(s) ==
  /\ StartBroadcast(s)
  /\ gap' = (gap \/ (IsState(Message(s)) /\ ~Listening))
  /\ whole' = (whole /\ Listening)

Write(s, c) ==
  /\ WriteMessage(s, c)
  /\ gap' = (gap \/ (IsState(Message(s)) /\ link[c] = "cut"))
  /\ UNCHANGED whole

Handles(c) ==
  /\ Register(c) \/ ReadFails(c) \/ Unregister(c)
  /\ UNCHANGED << runner, monitor, work, page, view, whole, gap, faults >>

Sends(s) ==
  /\ \/ Begin(s)
     \/ \E c \in Conn : Write(s, c)
     \/ EndBroadcast(s) /\ UNCHANGED << gap, whole >>
  /\ UNCHANGED << runner, monitor, work, page, view, faults >>

Next ==
  \/ \E c \in Conn : Handles(c)
  \/ \E s \in Sender : Sends(s)
  \/ OtherRun \/ Upload
  \/ \E r \in Run : Score(r) \/ RunFails(r) \/ Answer(r)
  \/ Isolate \/ TickEnds
  \/ ClickReconnect \/ ServeReconnect \/ AnswerReconnect \/ ReconnectAnswered
  \/ Login \/ Logout \/ ServeStatus \/ StatusAnswered \/ StatusFails
  \/ Open \/ ConnectFails \/ LinkBreaks \/ OnClose \/ Retry \/ Receive

Spec == Init /\ [][Next]_vars

\* Go's mutex hands over to whoever has waited long; goroutines, browser events
\* and timers are not kept waiting for ever.  Users and faults owe nothing.
Fairness ==
  /\ \A c \in Conn : SF_vars(Handles(c))
  /\ \A s \in Sender : SF_vars(Sends(s))
  /\ \A r \in Run : WF_vars(Score(r)) /\ WF_vars(Answer(r))
  /\ WF_vars(TickEnds)
  /\ WF_vars(Open) /\ WF_vars(OnClose) /\ WF_vars(Retry) /\ WF_vars(Receive)

FairSpec == Spec /\ Fairness

-------------------------------------------------------------------------------
(* Properties *)

StateComing ==
  \/ \E s \in Sender : \E i \in DOMAIN outbox[s] : IsState(outbox[s][i])
  \/ socket \in Conn /\ \E i \in DOMAIN pipe[socket] : IsState(pipe[socket][i])

\* When nothing is under way, the banner of a signed-in page shows the backend's
\* flag, unless the page missed a message, got an answer that a message had
\* overtaken, or an isolation and a reconnection crossed (App.tsx:59-80).
BannerExplained ==
  user /\ ~gap /\ status = "none" /\ ~StateComing /\ reconnect \notin {"announce", "answer"}
    => banner = isolated

\* When a run of this page has been scored and the page has been connected all
\* along, what its feed shows of the run is what the sample did, in order, whoever
\* else's runs the hub tells it of meanwhile; what is missing is the beginning,
\* pushed out by MaxEvents newer ones (parser.rs, samples.go:129-138, api.ts:203-206).
FeedTellsTheRun ==
  whole /\ run[mine] = "verdict" /\ (\A i \in DOMAIN pipe[socket] : ~IsEventOf(pipe[socket][i], mine))
    => LET own == {i \in DOMAIN feed : IsEventOf(feed[i], mine)}
       IN /\ \A i \in own : feed[i].data = script[feed[i].place]
          /\ \A i, j \in own : i < j => feed[i].place < feed[j].place
          /\ \A k \in DOMAIN script :
               \/ \E i \in own : feed[i].place = k
               \/ Len(feed) = MaxEvents /\ \A i \in own : feed[i].place > k

\* A page that stays signed in is connected and registered in the end, whatever
\* breaks (api.ts:247-253).
StaysConnected == <>[]user => <>[](ws = "live" /\ socket \in clients)

\* Every run that has begun to stream is answered, although each of its events
\* is written to browsers while the hub is held, and the runs compete for it
\* (hub.go:68-77, samples.go:129-149).
BroadcastsEnd == \A r \in Run : run[r] = "stream" ~> run[r] = "idle"
===============================================================================
