------------------------------ MODULE Interceptor -----------------------------
(***************************************************************************)
(* The interceptor daemon (interceptor/), its quarantine directory on disk *)
(* and the backend that decides about the files it submits.                *)
(*                                                                         *)
(* Three kinds of goroutine act on quarantine entries: the workers that    *)
(* quarantine new files, main's startup sweep, and the held-poller.  The   *)
(* disk (home, payload, meta) and the backend's table survive a crash of   *)
(* the daemon; everything else is in its memory.  A file's content is the  *)
(* number of the user's write that produced it.                            *)
(***************************************************************************)
EXTENDS Quarantine, FiniteSets

CONSTANTS
  Entry,        \* ids of quarantine entries
  Worker,       \* the worker pool
  Main,         \* the main goroutine, which runs the startup sweep
  HeldPoller,   \* the goroutine of runHeldPoller
  NoFile,       \* nothing at a path
  Partial,      \* a file truncated or half copied
  Media,        \* paths that may be on removable media
  JobsCap,      \* capacity of the jobs channel
  MaxWrites,    \* bound: files the user writes
  MaxFaults     \* bound: crashes, failed disk writes and failed requests

ASSUME ContentAssumption == Content = (1..MaxWrites) \cup {Partial}
ASSUME BoundsAssumption == {JobsCap, MaxRows, MaxWrites, MaxFaults} \subseteq Nat
ASSUME NamesAssumption ==
  /\ Main # HeldPoller /\ {Main, HeldPoller} \cap Worker = {}
  /\ Partial \notin Nat /\ NoFile \notin Content
  /\ Media \subseteq Path

VARIABLES
  removable,    \* the paths on removable media: another filesystem (EXDEV)
  folder,       \* the directory of each path: "none" yet, "created" (its event is
                \* unread), "watched" by inotify, or "unwatched"
  home,         \* the file at each path
  payload,      \* <entry>/payload
  meta,         \* <entry>/meta.json
  phase,        \* "down", "sweeping" (main runs the startup sweep), "watching"
  pc, ent, mem, \* per goroutine: its step, its entry, its QuarantineMeta
  call,         \* per goroutine: the file it has open, and the answer to its
                \* /api/intercept request
  todo,         \* per scanner: the entries its scan has still to visit
  events,       \* paths with an unread inotify event or an unswept mount
  timers,       \* the stabilizer, per path: the timer in its map, how many timers
                \* are armed, how many have fired and wait for its mutex
  jobs,         \* the jobs channel
  ignore,       \* releaseIgnore: paths released within the last 5 seconds
  due,          \* history: contents written while the daemon watches, and not
                \* restored by it since
  missed,       \* history: contents of due that the daemon has given up on: see
                \* UserWrite, HandleEvent, EventLost and MoveInFails
  failed,       \* history: entries an operation failed on in this daemon run
  writes, faults

disk == << home, payload, meta >>
watch == << folder, events, timers, jobs, ignore >>
history == << due, missed, failed >>
bounds == << removable, writes, faults >>
vars == << disk, phase, pc, ent, mem, call, todo, watch, rows, history, bounds >>

Actor == Worker \cup {Main, HeldPoller}
Written == 1..MaxWrites
Files == Content \cup {NoFile}

NoMeta == [path |-> NoFile, state |-> "none", qid |-> 0]
TornMeta == [path |-> NoFile, state |-> "torn", qid |-> 0]
Metas == [path : Path, state : {"pending_submit", "held", "blocked"}, qid : 0..MaxRows]

NoCall == [verdict |-> "none", content |-> NoFile, qid |-> 0]
Calls == [verdict : {"none", "open"} \cup Verdicts, content : Files, qid : 0..MaxRows]

Steps == {"idle", "scan", "quarantine", "copyIn", "unlinkIn", "writeMeta", "writingMeta",
          "submit", "await", "release", "moveBack", "copyBack", "unlinkBack", "removeAll"}

Folders == {"none", "created", "watched", "unwatched"}

NoTimer == [mapped |-> "none", armed |-> 0, fired |-> 0]

Busy(a) == pc[a] \notin {"idle", "scan"}

TypeOK ==
  /\ QuarantineTypeOK
  /\ removable \subseteq Path
  /\ home \in [Path -> Files]
  /\ payload \in [Entry -> Files]
  /\ meta \in [Entry -> Metas \cup {NoMeta, TornMeta}]
  /\ phase \in {"down", "sweeping", "watching"}
  /\ pc \in [Actor -> Steps]
  /\ ent \in [Actor -> Entry]
  /\ mem \in [Actor -> Metas \cup {NoMeta}]
  /\ call \in [Actor -> Calls]
  /\ todo \in [Actor -> SUBSET Entry]
  /\ folder \in [Path -> Folders]
  /\ events \subseteq Path /\ ignore \subseteq Path
  /\ timers \in [Path -> [mapped : {"none", "armed", "fired"}, armed : Nat, fired : Nat]]
  /\ jobs \in Seq(Path) /\ Len(jobs) <= JobsCap
  /\ due \subseteq Written /\ missed \subseteq Written /\ failed \subseteq Entry
  /\ writes \in 0..MaxWrites /\ faults \in 0..MaxFaults

\* A goroutine that is done with its entry returns to its loop.
Loop(a) == IF a \in Worker THEN "idle" ELSE "scan"
Goto(a, step) == pc' = [pc EXCEPT ![a] = step]
Return(a) == /\ Goto(a, Loop(a))
             /\ call' = [call EXCEPT ![a] = NoCall]
Fault == /\ faults < MaxFaults
         /\ faults' = faults + 1
         /\ UNCHANGED removable

\* inotify reports a change of p if its directory is watched.
Notify(p) == events' = IF folder[p] = "watched" THEN events \cup {p} ELSE events

\* readMeta succeeds: meta.json exists and holds a whole record.
Readable(e) == meta[e] \in Metas
Readables == {e \in Entry : Readable(e)}

Init ==
  /\ rows = << >>
  /\ removable \in SUBSET Media
  /\ folder \in {f \in [Path -> {"none", "unwatched"}] :
                  \A p \in removable : f[p] = "unwatched"}
  /\ home = [p \in Path |-> NoFile]
  /\ payload = [e \in Entry |-> NoFile]
  /\ meta = [e \in Entry |-> NoMeta]
  /\ phase = "down"
  /\ pc = [a \in Actor |-> "idle"]
  /\ ent \in {[a \in Actor |-> e] : e \in Entry}
  /\ mem = [a \in Actor |-> NoMeta]
  /\ call = [a \in Actor |-> NoCall]
  /\ todo = [a \in Actor |-> {}]
  /\ events = {} /\ timers = [p \in Path |-> NoTimer] /\ jobs = << >> /\ ignore = {}
  /\ due = {} /\ missed = {} /\ failed = {}
  /\ writes = 0 /\ faults = 0

-------------------------------------------------------------------------------
(* The user *)

\* Creates or overwrites p.  A new file on removable media is reported by
\* pollRemovableMedia (a mount), a later write to it by nobody.  Nor is a write
\* in a directory without a watch.
UserWrite(p) ==
  /\ writes < MaxWrites /\ folder[p] # "none"
  /\ writes' = writes + 1
  /\ home' = [home EXCEPT ![p] = writes + 1]
  /\ events' = IF \/ folder[p] = "watched"
                  \/ phase = "watching" /\ p \in removable /\ home[p] = NoFile
               THEN events \cup {p} ELSE events
  /\ LET owed == IF phase = "watching" /\ p \notin removable THEN {writes + 1} ELSE {}
     IN  /\ due' = due \cup owed
         /\ missed' = IF folder[p] = "watched" THEN missed ELSE missed \cup owed
  /\ UNCHANGED << payload, meta, phase, pc, ent, mem, call, todo, folder, timers, jobs,
                  ignore, rows, failed, removable, faults >>

\* Makes the directory of p, which inotify reports to the watch of its parent.
UserMakesFolder(p) ==
  /\ folder[p] = "none"
  /\ folder' = [folder EXCEPT ![p] = IF phase = "watching" THEN "created" ELSE "unwatched"]
  /\ UNCHANGED << disk, phase, pc, ent, mem, call, todo, events, timers, jobs, ignore, rows,
                  history, bounds >>

UserRemove(p) ==
  /\ home[p] # NoFile
  /\ home' = [home EXCEPT ![p] = NoFile]
  /\ Notify(p)
  /\ UNCHANGED << payload, meta, phase, pc, ent, mem, call, todo, folder, timers, jobs, ignore,
                  rows, history, bounds >>

-------------------------------------------------------------------------------
(* The watcher: handleEvent, the stabilizer's timers, the mount poller *)

\* stabilizer.touch and cancel: Stop has no effect on a timer that has fired.
Unarmed(t) == IF t.mapped = "armed" THEN t.armed - 1 ELSE t.armed
Touched(t) == [t EXCEPT !.mapped = "armed", !.armed = Unarmed(t) + 1]
Cancelled(t) == [t EXCEPT !.mapped = "none", !.armed = Unarmed(t)]

\* handleEvent: a path that is gone is cancelled, one the daemon has just
\* restored is skipped, any other (re)starts its settle timer.
HandleEvent(p) ==
  /\ phase = "watching" /\ p \in events \ removable
  /\ events' = events \ {p}
  /\ timers' = IF home[p] = NoFile THEN [timers EXCEPT ![p] = Cancelled(@)]
               ELSE IF p \in ignore THEN timers ELSE [timers EXCEPT ![p] = Touched(@)]
  /\ missed' = IF p \in ignore THEN missed \cup ({home[p]} \cap Written) ELSE missed
  /\ UNCHANGED << disk, phase, pc, ent, mem, call, todo, folder, jobs, ignore, rows, due, failed,
                  bounds >>

\* handleEvent of a new directory: from now on it is watched.  What was written
\* into it before has had no event, and nothing looks for it.
HandleFolder(p) ==
  /\ folder[p] = "created"
  /\ folder' = [folder EXCEPT ![p] = "watched"]
  /\ UNCHANGED << disk, phase, pc, ent, mem, call, todo, events, timers, jobs, ignore, rows,
                  history, bounds >>

\* w.Add fails, which is only logged: the directory stays without a watch.
HandleFolderFails(p) ==
  /\ folder[p] = "created"
  /\ Fault
  /\ folder' = [folder EXCEPT ![p] = "unwatched"]
  /\ UNCHANGED << disk, phase, pc, ent, mem, call, todo, events, timers, jobs, ignore, rows,
                  history, writes >>

\* The kernel's event queue overflows: the events of p are lost, and all that
\* runWatchLoop gets is an error to log.
EventLost(p) ==
  /\ Fault
  /\ \/ /\ p \in events \ removable
        /\ events' = events \ {p}
        /\ missed' = missed \cup ({home[p]} \cap Written)
        /\ UNCHANGED folder
     \/ /\ folder[p] = "created"
        /\ folder' = [folder EXCEPT ![p] = "unwatched"]
        /\ UNCHANGED << events, missed >>
  /\ UNCHANGED << disk, phase, pc, ent, mem, call, todo, timers, jobs, ignore, rows, due,
                  failed, writes >>

\* settleDelay passes: the timer of the map fires, or one that is no longer in it.
Fire(p) ==
  /\ \/ /\ timers[p].mapped = "armed"
        /\ timers' = [timers EXCEPT ![p] = [mapped |-> "fired", armed |-> @.armed - 1,
                                           fired |-> @.fired + 1]]
     \/ /\ Unarmed(timers[p]) > 0
        /\ timers' = [timers EXCEPT ![p].armed = @ - 1, ![p].fired = @ + 1]
  /\ UNCHANGED << disk, phase, pc, ent, mem, call, todo, folder, events, jobs, ignore, rows, history,
                  bounds >>

\* A fired timer's function: it deletes whatever timer the map has for the path
\* by now, and the path goes through the stable channel to the jobs channel.
Settle(p) ==
  /\ timers[p].fired > 0
  /\ Len(jobs) < JobsCap
  /\ timers' = [timers EXCEPT ![p].mapped = "none", ![p].fired = @ - 1]
  /\ jobs' = Append(jobs, p)
  /\ UNCHANGED << disk, phase, pc, ent, mem, call, todo, folder, events, ignore, rows, history,
                  bounds >>

\* pollRemovableMedia sees the new mount and sweepDirectory queues its file.
SweepMount(p) ==
  /\ phase = "watching" /\ p \in events \cap removable
  /\ Len(jobs) < JobsCap
  /\ events' = events \ {p}
  /\ jobs' = IF home[p] = NoFile THEN jobs ELSE Append(jobs, p)
  /\ UNCHANGED << disk, phase, pc, ent, mem, call, todo, folder, timers, ignore, rows, history,
                  bounds >>

\* Restoring p is under way, or the event it caused has not been handled.
RestoreInFlight(p) ==
  \/ p \in events
  \/ \E a \in Actor : pc[a] \in {"moveBack", "copyBack", "unlinkBack"} /\ mem[a].path = p

\* Five seconds have passed since markReleased(p).  Modelled for moves and
\* event latencies shorter than the window (the limit ignore.go:17-18 names).
IgnoreExpires(p) ==
  /\ p \in ignore /\ ~RestoreInFlight(p)
  /\ ignore' = ignore \ {p}
  /\ UNCHANGED << disk, phase, pc, ent, mem, call, todo, folder, events, timers, jobs, rows,
                  history, bounds >>
-------------------------------------------------------------------------------
(* processNewFile: a worker quarantines the file of a job *)

Unused(e) == /\ payload[e] = NoFile /\ meta[e] = NoMeta
             /\ \A a \in Actor : ~(Busy(a) /\ ent[a] = e)

\* Mutant: a job for a path another worker is busy with is dropped.
TakeJob_Dedupe(w) ==
  /\ phase # "down" /\ pc[w] = "idle" /\ jobs # << >>
  /\ jobs' = Tail(jobs)
  /\ LET p == Head(jobs)
         drop == home[p] = NoFile \/ \E b \in Actor : Busy(b) /\ mem[b].path = p
     IN  \/ drop /\ UNCHANGED << pc, ent, mem >>
         \/ /\ ~drop
            /\ \E e \in Entry : Unused(e) /\ ent' = [ent EXCEPT ![w] = e]
            /\ mem' = [mem EXCEPT ![w] = [path |-> p, state |-> "pending_submit", qid |-> 0]]
            /\ Goto(w, "quarantine")
  /\ UNCHANGED << disk, phase, call, todo, folder, events, timers, ignore, rows, history, bounds >>

\* A job is received.  os.Stat finds nothing: the job is dropped.  Otherwise
\* the worker picks a fresh random id.
TakeJob(w) ==
  /\ phase # "down" /\ pc[w] = "idle" /\ jobs # << >>
  /\ jobs' = Tail(jobs)
  /\ LET p == Head(jobs)
     IN  \/ /\ home[p] = NoFile
            /\ UNCHANGED << pc, ent, mem >>
         \/ /\ home[p] # NoFile
            /\ \E e \in Entry : Unused(e) /\ ent' = [ent EXCEPT ![w] = e]
            /\ mem' = [mem EXCEPT ![w] = [path |-> p, state |-> "pending_submit", qid |-> 0]]
            /\ Goto(w, "quarantine")
  /\ UNCHANGED << disk, phase, call, todo, folder, events, timers, ignore, rows, history, bounds >>

\* moveFile opens both files and starts to copy.
OpenIn(w) ==
  /\ payload' = [payload EXCEPT ![ent[w]] = Partial]
  /\ call' = [call EXCEPT ![w].content = home[mem[w].path]]
  /\ Goto(w, "copyIn")
  /\ UNCHANGED << home, events >>

\* moveFile into quarantine.  The file is gone by now: give up.  Same
\* filesystem: rename.  Removable media: copy.
Capture(w) ==
  /\ pc[w] = "quarantine"
  /\ LET p == mem[w].path
     IN  \/ /\ home[p] = NoFile
            /\ Return(w)
            /\ UNCHANGED << home, payload, events >>
         \/ /\ home[p] # NoFile /\ p \notin removable
            /\ payload' = [payload EXCEPT ![ent[w]] = home[p]]
            /\ home' = [home EXCEPT ![p] = NoFile]
            /\ Notify(p)
            /\ Goto(w, "writeMeta")
            /\ UNCHANGED call
         \/ home[p] # NoFile /\ p \in removable /\ OpenIn(w)
  /\ UNCHANGED << meta, phase, ent, mem, todo, folder, timers, jobs, ignore, rows, history,
                  bounds >>

\* The copy completes, with the bytes of the file that was opened (deleted or
\* replaced since, perhaps) or those written into it meanwhile; or it fails
\* because the medium was pulled, and the partial copy is deleted.
CopyIn(w) ==
  /\ pc[w] = "copyIn"
  /\ LET p == mem[w].path
         e == ent[w]
     IN  \/ /\ \E c \in {call[w].content, home[p]} \ {NoFile} :
                 payload' = [payload EXCEPT ![e] = c]
            /\ call' = [call EXCEPT ![w] = NoCall]
            /\ Goto(w, "unlinkIn")
         \/ /\ home[p] = NoFile
            /\ payload' = [payload EXCEPT ![e] = NoFile]
            /\ Return(w)
  /\ UNCHANGED << home, meta, phase, ent, mem, todo, watch, rows, history, bounds >>

\* os.Remove(src) at the end of moveFile; without a file there it fails, and
\* processNewFile returns with the payload in place and no meta.json.
UnlinkIn(w) ==
  /\ pc[w] = "unlinkIn"
  /\ LET p == mem[w].path
     IN  IF home[p] = NoFile
         THEN /\ Return(w)
              /\ failed' = failed \cup {ent[w]}
              /\ UNCHANGED << home, events >>
         ELSE /\ home' = [home EXCEPT ![p] = NoFile]
              /\ Notify(p)
              /\ Goto(w, "writeMeta")
              /\ UNCHANGED << call, failed >>
  /\ UNCHANGED << payload, meta, phase, ent, mem, todo, folder, timers, jobs, ignore, rows, due,
                  missed, bounds >>

\* moveFile fails with the file in place: a directory cannot be made, a file not
\* opened, the disk is full, the original cannot be removed.  processNewFile
\* logs it.  The file stays at its path and nothing tries again; the copy is
\* deleted if it was the copying that failed, else what there is of it stays.
MoveInFails(w) ==
  /\ pc[w] \in {"quarantine", "copyIn", "unlinkIn"} /\ home[mem[w].path] # NoFile
  /\ Fault
  /\ \E left \in IF pc[w] = "copyIn" THEN {NoFile, Partial, call[w].content}
                                     ELSE {payload[ent[w]]} :
       payload' = [payload EXCEPT ![ent[w]] = left]
  /\ missed' = missed \cup ({home[mem[w].path]} \cap Written)
  /\ failed' = failed \cup {ent[w]}
  /\ Return(w)
  /\ UNCHANGED << home, meta, phase, ent, mem, todo, watch, rows, due, writes >>

\* writeMeta: os.WriteFile truncates meta.json, then writes the record.
TruncateMeta(a) ==
  /\ pc[a] = "writeMeta"
  /\ meta' = [meta EXCEPT ![ent[a]] = TornMeta]
  /\ Goto(a, "writingMeta")
  /\ UNCHANGED << home, payload, phase, ent, mem, call, todo, watch, rows, history, bounds >>

\* A new entry goes on to be submitted; for a block or hold this was the
\* last step (heldpoller.go and worker.go then only notify).
WriteMeta(a) ==
  /\ pc[a] = "writingMeta"
  /\ meta' = [meta EXCEPT ![ent[a]] = mem[a]]
  /\ IF mem[a].state = "pending_submit"
     THEN Goto(a, "submit") /\ UNCHANGED call
     ELSE Return(a)
  /\ UNCHANGED << home, payload, phase, ent, mem, todo, watch, rows, history, bounds >>

\* The disk refuses to open or to write meta.json.  A new entry is abandoned;
\* for a block or hold the error is not looked at.
WriteMetaFails(a) ==
  /\ pc[a] \in {"writeMeta", "writingMeta"}
  /\ Fault
  /\ failed' = failed \cup {ent[a]}
  /\ Return(a)
  /\ UNCHANGED << disk, phase, ent, mem, todo, watch, rows, due, missed, writes >>

-------------------------------------------------------------------------------
(* submitAndAct, shared by the workers and the startup sweep *)

\* Mutant: submit() waits for a payload that is not there.
Submit_Waits(a) ==
  /\ pc[a] = "submit"
  /\ payload[ent[a]] # NoFile
  /\ call' = [call EXCEPT ![a] =
                 [NoCall EXCEPT !.verdict = "open", !.content = payload[ent[a]]]]
  /\ Goto(a, "await")
  /\ UNCHANGED << disk, phase, ent, mem, todo, watch, rows, history, bounds >>

\* submit() opens the payload and posts it.
Submit(a) ==
  /\ pc[a] = "submit"
  /\ LET c == payload[ent[a]]
     IN  IF c = NoFile
         THEN Return(a) /\ failed' = failed \cup {ent[a]}
         ELSE /\ call' = [call EXCEPT ![a] = [NoCall EXCEPT !.verdict = "open", !.content = c]]
              /\ Goto(a, "await") /\ UNCHANGED failed
  /\ UNCHANGED << disk, phase, ent, mem, todo, watch, rows, due, missed, bounds >>

\* interceptHandler: detonate, map the verdict, record a hold.
Handle(a) ==
  /\ pc[a] = "await" /\ call[a].verdict = "open"
  /\ \E v \in Verdicts :
       LET held == decisionForVerdict(v) = "hold"
       IN  /\ IF held THEN InsertQuarantine(call[a].content, mem[a].path)
                      ELSE UNCHANGED rows
           /\ call' = [call EXCEPT ![a].verdict = v,
                                   ![a].qid = IF held THEN Len(rows) + 1 ELSE 0]
  /\ UNCHANGED << disk, phase, pc, ent, mem, todo, watch, history, bounds >>

\* The request fails: refused, a 500, or the client's 60 seconds are over,
\* possibly after the backend has inserted its row.  The entry keeps the
\* state "pending_submit".
SubmitFails(a) ==
  /\ pc[a] = "await"
  /\ Fault
  /\ failed' = failed \cup {ent[a]}
  /\ Return(a)
  /\ UNCHANGED << disk, phase, ent, mem, todo, watch, rows, due, missed, writes >>

\* Mutant: the daemon does not keep the quarantine_id of a hold.
Act_NoId(a) ==
  /\ pc[a] = "await" /\ call[a].verdict \in Verdicts
  /\ LET decision == decisionForVerdict(call[a].verdict)
     IN  \/ decision = "release" /\ Goto(a, "release") /\ UNCHANGED mem
         \/ /\ decision # "release"
            /\ mem' = [mem EXCEPT ![a].state = IF decision = "block" THEN "blocked" ELSE "held"]
            /\ Goto(a, "writeMeta")
  /\ UNCHANGED << disk, phase, ent, call, todo, watch, rows, history, bounds >>

\* The answer arrives and its decision selects what to do with the entry.
Act(a) ==
  /\ pc[a] = "await" /\ call[a].verdict \in Verdicts
  /\ LET decision == decisionForVerdict(call[a].verdict)
     IN  \/ /\ decision = "release"
            /\ Goto(a, "release") /\ UNCHANGED mem
         \/ /\ decision = "block"
            /\ mem' = [mem EXCEPT ![a].state = "blocked"]
            /\ Goto(a, "writeMeta")
         \/ /\ decision = "hold"
            /\ mem' = [mem EXCEPT ![a].state = "held", ![a].qid = call[a].qid]
            /\ Goto(a, "writeMeta")
  /\ UNCHANGED << disk, phase, ent, call, todo, watch, rows, history, bounds >>

\* markReleased.
MarkReleased(a) ==
  /\ pc[a] = "release"
  /\ ignore' = ignore \cup {mem[a].path}
  /\ Goto(a, "moveBack")
  /\ UNCHANGED << disk, phase, ent, mem, call, todo, folder, events, timers, jobs, rows, history,
                  bounds >>

\* moveFile opens both files, which truncates the one at the path.
OpenBack(a) ==
  /\ home' = [home EXCEPT ![mem[a].path] = Partial]
  /\ Notify(mem[a].path)
  /\ Goto(a, "copyBack")
  /\ UNCHANGED << payload, call >>

\* moveFile to the original path, over whatever is there.
MoveBack(a) ==
  /\ pc[a] = "moveBack"
  /\ LET p == mem[a].path
         c == payload[ent[a]]
     IN  \/ /\ c = NoFile
            /\ Return(a)
            /\ UNCHANGED << home, payload, events, due >>
         \/ /\ c # NoFile /\ p \notin removable
            /\ home' = [home EXCEPT ![p] = c]
            /\ payload' = [payload EXCEPT ![ent[a]] = NoFile]
            /\ due' = due \ {c}
            /\ Notify(p)
            /\ Goto(a, "removeAll")
            /\ UNCHANGED call
         \/ c # NoFile /\ p \in removable /\ OpenBack(a) /\ UNCHANGED due
  /\ UNCHANGED << meta, phase, ent, mem, todo, folder, timers, jobs, ignore, rows, missed,
                  failed, bounds >>

\* Mutant: the payload is removed before its copy is complete.
CopyBack_Late(a) ==
  /\ pc[a] = "copyBack"
  /\ payload' = [payload EXCEPT ![ent[a]] = NoFile]
  /\ Goto(a, "removeAll")
  /\ UNCHANGED << home, meta, phase, ent, mem, call, todo, watch, rows, history, bounds >>

\* The copy back completes.  A file deleted since it was opened takes the
\* bytes with it; one the user has written meanwhile is overwritten if it
\* was changed in place and left alone if it was replaced.
CopyBack(a) ==
  /\ pc[a] = "copyBack"
  /\ LET p == mem[a].path
         c == payload[ent[a]]
     IN  \/ /\ home[p] # NoFile
            /\ home' = [home EXCEPT ![p] = c]
            /\ due' = due \ {c}
            /\ Notify(p)
         \/ /\ home[p] # Partial
            /\ UNCHANGED << home, events, due >>
  /\ Goto(a, "unlinkBack")
  /\ UNCHANGED << payload, meta, phase, ent, mem, call, todo, folder, timers, jobs, ignore, rows,
                  missed, failed, bounds >>

UnlinkBack(a) ==
  /\ pc[a] = "unlinkBack"
  /\ payload' = [payload EXCEPT ![ent[a]] = NoFile]
  /\ Goto(a, "removeAll")
  /\ UNCHANGED << home, meta, phase, ent, mem, call, todo, watch, rows, history, bounds >>

\* moveFile fails: a directory cannot be made, a file not opened, the disk is
\* full, the payload not removed.  The caller logs it and leaves the entry as it
\* is.  If it was the copying that failed, the file at the path is deleted,
\* whatever it is by now.
MoveBackFails(a) ==
  /\ pc[a] \in {"moveBack", "copyBack", "unlinkBack"}
  /\ Fault
  /\ LET p == mem[a].path
     IN  \/ /\ pc[a] = "copyBack"
            /\ home' = [home EXCEPT ![p] = NoFile]
            /\ Notify(p)
         \/ UNCHANGED << home, events >>
  /\ failed' = failed \cup {ent[a]}
  /\ Return(a)
  /\ UNCHANGED << payload, meta, phase, ent, mem, todo, folder, timers, jobs, ignore, rows, due,
                  missed, writes >>

\* os.Rename fails within one filesystem, but the files can be opened: moveFile
\* copies here too.
RenameRefused(a) ==
  /\ mem[a].path \notin removable
  /\ Fault
  /\ \/ pc[a] = "quarantine" /\ home[mem[a].path] # NoFile /\ OpenIn(a)
     \/ pc[a] = "moveBack" /\ payload[ent[a]] # NoFile /\ OpenBack(a)
  /\ UNCHANGED << meta, phase, ent, mem, todo, folder, timers, jobs, ignore, rows, history,
                  writes >>

\* os.RemoveAll(entryDir).
RemoveEntry(a) ==
  /\ pc[a] = "removeAll"
  /\ payload' = [payload EXCEPT ![ent[a]] = NoFile]
  /\ meta' = [meta EXCEPT ![ent[a]] = NoMeta]
  /\ Return(a)
  /\ UNCHANGED << home, phase, ent, mem, todo, watch, rows, history, bounds >>
-------------------------------------------------------------------------------
(* The scans of the quarantine directory, and main *)

\* systemd starts the daemon: main launches workers and held-poller, then
\* lists the entries for resubmitPendingEntries.
Start ==
  /\ phase = "down"
  /\ phase' = "sweeping"
  /\ todo' = [todo EXCEPT ![Main] = Readables]
  /\ Goto(Main, "scan")
  /\ UNCHANGED << disk, ent, mem, call, watch, rows, history, bounds >>

\* watchRecursively adds a watch on every directory, or logs that it cannot.
Watch(unable) ==
  folder' = [p \in Path |-> IF folder[p] = "unwatched" /\ p \notin removable \cup unable
                            THEN "watched" ELSE folder[p]]

\* Mutant: the watcher is started before the sweep has ended.
StartWatching_Early ==
  /\ phase = "sweeping"
  /\ phase' = "watching"
  /\ Watch({})
  /\ UNCHANGED << disk, pc, ent, mem, call, todo, events, timers, jobs, ignore, rows, history,
                  bounds >>

\* The sweep is over: main creates the watcher and runs its event loop.
StartWatching ==
  /\ phase = "sweeping" /\ pc[Main] = "scan" /\ todo[Main] = {}
  /\ phase' = "watching"
  /\ \/ Watch({}) /\ UNCHANGED bounds
     \/ \E p \in Path : Watch({p}) /\ Fault /\ UNCHANGED writes
  /\ Goto(Main, "idle")
  /\ UNCHANGED << disk, ent, mem, call, todo, events, timers, jobs, ignore, rows, history >>

\* A 5-second tick: pollHeldEntries lists the entries.
PollTick ==
  /\ phase # "down" /\ pc[HeldPoller] = "idle"
  /\ Readables # {}
  /\ todo' = [todo EXCEPT ![HeldPoller] = Readables]
  /\ Goto(HeldPoller, "scan")
  /\ UNCHANGED << disk, phase, ent, mem, call, watch, rows, history, bounds >>

PollDone ==
  /\ pc[HeldPoller] = "scan" /\ todo[HeldPoller] = {}
  /\ Goto(HeldPoller, "idle")
  /\ UNCHANGED << disk, phase, ent, mem, call, todo, watch, rows, history, bounds >>

Visit(a, e) ==
  /\ pc[a] = "scan" /\ e \in todo[a]
  /\ todo' = [todo EXCEPT ![a] = @ \ {e}]
  /\ UNCHANGED << disk, phase, call, watch, rows, history >>

\* Mutant: the sweep resubmits held entries too.
SweepVisit_Held(e) ==
  /\ Visit(Main, e)
  /\ IF meta[e].state \in {"pending_submit", "held"}
     THEN /\ ent' = [ent EXCEPT ![Main] = e]
          /\ mem' = [mem EXCEPT ![Main] = meta[e]]
          /\ Goto(Main, "submit")
     ELSE UNCHANGED << ent, mem, pc >>
  /\ UNCHANGED bounds

\* One iteration of resubmitPendingEntries.
SweepVisit(e) ==
  /\ Visit(Main, e)
  /\ IF meta[e].state = "pending_submit"
     THEN /\ ent' = [ent EXCEPT ![Main] = e]
          /\ mem' = [mem EXCEPT ![Main] = meta[e]]
          /\ Goto(Main, "submit")
     ELSE UNCHANGED << ent, mem, pc >>
  /\ UNCHANGED bounds

\* Mutants: the poller does not look at the state; it does not know rejections.
PollVisit_AnyState(e) ==
  /\ Visit(HeldPoller, e)
  /\ LET q == meta[e].qid
     IN  IF q # 0 /\ rows[q].status = "rejected"
         THEN /\ ent' = [ent EXCEPT ![HeldPoller] = e]
              /\ mem' = [mem EXCEPT ![HeldPoller] = [meta[e] EXCEPT !.state = "blocked"]]
              /\ Goto(HeldPoller, "writeMeta")
         ELSE UNCHANGED << ent, mem, pc >>
  /\ UNCHANGED bounds
PollVisit_NoReject(e) ==
  /\ Visit(HeldPoller, e)
  /\ IF meta[e].state = "held" /\ rows[meta[e].qid].status = "approved"
     THEN /\ ent' = [ent EXCEPT ![HeldPoller] = e]
          /\ mem' = [mem EXCEPT ![HeldPoller] = meta[e]]
          /\ Goto(HeldPoller, "release")
     ELSE UNCHANGED << ent, mem, pc >>
  /\ UNCHANGED bounds

\* One iteration of pollHeldEntries: not held, or still pending: next entry;
\* approved: release; rejected: record it as blocked.
PollVisit(e) ==
  /\ Visit(HeldPoller, e)
  /\ LET status == IF meta[e].state = "held" THEN StatusOf(meta[e].qid) ELSE "none"
     IN  IF status \in {"approved", "rejected"}
         THEN /\ ent' = [ent EXCEPT ![HeldPoller] = e]
              /\ mem' = [mem EXCEPT ![HeldPoller] =
                            IF status = "approved" THEN meta[e]
                            ELSE [meta[e] EXCEPT !.state = "blocked"]]
              /\ Goto(HeldPoller, IF status = "approved" THEN "release" ELSE "writeMeta")
         ELSE UNCHANGED << ent, mem, pc >>
  /\ UNCHANGED bounds

\* pollStatus fails: the entry waits for a later tick.
PollFails(e) ==
  /\ Visit(HeldPoller, e)
  /\ meta[e].state = "held"
  /\ Fault
  /\ UNCHANGED << pc, ent, mem, writes >>

\* The daemon dies at any point; the request in flight is cancelled or its
\* answer has nobody to go to.
Crash ==
  /\ phase # "down"
  /\ Fault
  /\ phase' = "down"
  /\ pc' = [a \in Actor |-> "idle"]
  /\ mem' = [a \in Actor |-> NoMeta]
  /\ call' = [a \in Actor |-> NoCall]
  /\ todo' = [a \in Actor |-> {}]
  /\ folder' = [p \in Path |-> IF folder[p] = "none" THEN "none" ELSE "unwatched"]
  /\ events' = {} /\ timers' = [p \in Path |-> NoTimer] /\ jobs' = << >> /\ ignore' = {}
  /\ due' = {} /\ missed' = {} /\ failed' = {}
  /\ UNCHANGED << disk, ent, rows, writes >>

Decide == AdminDecides /\ UNCHANGED << disk, phase, pc, ent, mem, call, todo, watch, history,
                                       bounds >>

WorkOn(a) ==
  \/ TruncateMeta(a) \/ WriteMeta(a) \/ Submit(a) \/ Handle(a) \/ Act(a)
  \/ MarkReleased(a) \/ MoveBack(a) \/ CopyBack(a) \/ UnlinkBack(a) \/ RemoveEntry(a)

FailAt(a) == \/ WriteMetaFails(a) \/ SubmitFails(a)
             \/ MoveInFails(a) \/ MoveBackFails(a) \/ RenameRefused(a)

Unseen == \E p \in Path : HandleFolderFails(p) \/ EventLost(p)

User == \E p \in Path : UserWrite(p) \/ UserRemove(p) \/ UserMakesFolder(p)

Watcher == \E p \in Path : \/ HandleEvent(p) \/ HandleFolder(p) \/ Fire(p) \/ Settle(p)
                           \/ SweepMount(p)

Work(w) == TakeJob(w) \/ Capture(w) \/ CopyIn(w) \/ UnlinkIn(w) \/ WorkOn(w)

Sweep == Start \/ StartWatching \/ (\E e \in Entry : SweepVisit(e)) \/ WorkOn(Main)

Poll == PollTick \/ PollDone \/ (\E e \in Entry : PollVisit(e)) \/ WorkOn(HeldPoller)

Next ==
  \/ User \/ Decide \/ Watcher \/ Unseen \/ Sweep \/ Poll \/ Crash
  \/ \E p \in Path : IgnoreExpires(p)
  \/ \E w \in Worker : Work(w)
  \/ \E e \in Entry : PollFails(e)
  \/ \E a \in Actor : FailAt(a)

Spec == Init /\ [][Next]_vars

\* Goroutines that can run do run, and systemd restarts the daemon
\* (Restart= in the unit file).  Users, admins and faults owe nothing.
Fairness ==
  /\ WF_vars(Watcher) /\ WF_vars(Sweep) /\ WF_vars(Poll)
  /\ \A w \in Worker : WF_vars(Work(w))

FairSpec == Spec /\ Fairness
-------------------------------------------------------------------------------
(* Properties *)

\* No two goroutines handle the same quarantine entry at once, although the
\* sweep, the poller and the workers share the directory without a lock:
\* main.go:30-58 orders them and heldpoller.go:34 looks at the state.
OneOwner ==
  \A a, b \in Actor : a # b /\ Busy(a) /\ Busy(b) => ent[a] # ent[b]

\* What is being restored to its original path is exactly what the backend
\* judged Normal in this very request, or what an admin approved under the id
\* the entry carries ("Never silently released", worker.go:60-65).
ReleaseAuthorised ==
  \A a \in Actor :
    /\ pc[a] \in {"release", "moveBack", "copyBack", "unlinkBack"}
    /\ payload[ent[a]] # NoFile
    => \/ call[a].verdict = "Normal" /\ call[a].content = payload[ent[a]]
       \/ LET q == mem[a].qid
          IN  /\ q \in DOMAIN rows
              /\ rows[q] = [content |-> payload[ent[a]], path |-> mem[a].path,
                            status |-> "approved"]

\* The sidecar of a held entry names the row of its own file, and no other
\* entry's; the payload is only gone once that row is approved.
HeldRowMatches ==
  \A e \in Entry :
    meta[e].state = "held" =>
      LET q == meta[e].qid
      IN  /\ q \in DOMAIN rows
          /\ rows[q].path = meta[e].path
          /\ IF payload[e] = NoFile THEN rows[q].status = "approved"
                                     ELSE rows[q].content = payload[e]
          /\ \A f \in Entry \ {e} : meta[f].state = "held" => meta[f].qid # q

\* Once the daemon watches, the only entries left in "pending_submit" are in
\* a goroutine's hands or had an error in this run: the sweep skips none.
StuckOnlyAfterFailure ==
  phase = "watching" =>
    \A e \in Entry :
      meta[e].state = "pending_submit" =>
        e \in failed \/ \E a \in Actor : Busy(a) /\ ent[a] = e

\* When nothing is left to do, every file written while the daemon watches has
\* been quarantined, but for four reasons to miss one: its event fell into the
\* ignore window of a release to the same path (watcher.go:73), it was written in
\* a directory that had no watch yet or at all (watcher.go:25, 63), the event
\* queue overflowed (watcher.go:48), or moveFile failed on it (worker.go:43).
AtRest == /\ phase = "watching" /\ events = {} /\ jobs = << >>
          /\ \A p \in Path : folder[p] # "created"
          /\ timers = [p \in Path |-> NoTimer]
          /\ \A a \in Actor : ~Busy(a)
QuarantinedUnlessMissed ==
  AtRest => \A p \in Path \ removable : home[p] \in due => home[p] \in missed

\* "blocked" is terminal (meta.go:22): nothing touches the entry again, not
\* a scan, not a restart, not a second decision.
BlockedIsTerminal ==
  [][ \A e \in Entry : meta[e].state = "blocked" =>
        meta'[e] = meta[e] /\ payload'[e] = payload[e] ]_vars

\* The daemon makes the last copy of a file disappear in two ways only: a
\* restore replaces or copies over a newer file at the same path, or
\* moveFile's final os.Remove(src) hits a file rewritten since its copy.  (A
\* payload may go once its copy is back home, whatever others then did to
\* that copy.)
Stored == {home[p] : p \in Path} \cup {payload[e] : e \in Entry}
BytesLostOnlyByOverwrite ==
  [][ pc' # pc =>
        \A c \in (Stored \cap Written) \ Stored' :
          \E a \in Actor :
            \/ pc[a] \in {"moveBack", "copyBack", "unlinkIn"} /\ home[mem[a].path] = c
            \/ pc[a] = "unlinkBack" /\ payload[ent[a]] = c ]_vars

\* concepts.md:93, "A daemon crash loses nothing": a payload that is the only
\* copy of a file is in a goroutine's hands or has the sidecar that every scan
\* needs to see it.
CrashLosesNothing ==
  phase = "watching" =>
    \A e \in Entry \ failed :
      payload[e] \in Written \ {home[p] : p \in Path} =>
        Readable(e) \/ \E a \in Actor : Busy(a) /\ ent[a] = e

\* The admin's decision reaches the file: approved entries are restored,
\* rejected ones leave the held state, across crashes and failed polls.
DecisionTakesEffect ==
  \A e \in Entry : \A q \in 1..MaxRows :
    /\ (/\ meta[e].state = "held" /\ meta[e].qid = q
        /\ q \in DOMAIN rows /\ rows[q].status = "approved") ~> payload[e] = NoFile
    /\ (/\ meta[e].state = "held" /\ meta[e].qid = q
        /\ q \in DOMAIN rows /\ rows[q].status = "rejected") ~> meta[e].state # "held"

\* The startup sweep ends and the daemon gets to watch (or dies trying).
SweepEnds == phase = "sweeping" ~> phase # "sweeping"
===============================================================================
