# Mirraura: models and proofs

TLA+ models of Mirraura's own logic: the tamper-evident audit log, the interceptor daemon and
its quarantine, user accounts and sessions, continuous monitoring, detonation with the verdict
engine's judgement and review tables, and the browser: the sensor's events, the
WebSocket hub, and the dashboard with its session, feed, banner, tables and forms. TLC checks the
models on small instances; TLAPS proves for every instance all but one of the safety properties that
the passing runs check. `PROJECT.json` maps every definition to
the source lines it stands for, and lists the runs, the findings, the hazards, and for every
checked property a mutation of the code that breaks it.

Paths below are relative to the repository; line numbers refer to the modelled commit.

## The system

| Component | Code | State it keeps | Operations | Talks to |
|---|---|---|---|---|
| Audit log | `verdict-engine/audit_log.py` | table `audit_log`: columns `data` (the record and the hash it links to, as JSON), `entry_hash`, `prev_log_hash` (that hash once more), ordered by `id` | `append`, `all`, `get`, `verify_chain_detail` | called by `/score`, `/audit/action`, the approve and reject routes |
| Scoring | `verdict-engine/app.py`, `rule_scorer.py`, `static_triage.py` | none of its own | `/triage`, `/score` | known-bad tables, audit log, event archive |
| Known-bad hashes, corpus | `hash_lookup.py`, `corpus_lookup.py`; proxies `backend/hashes.go`, `corpus.go` | two tables of rows with a status | propose, approve, reject, lookup | `/score` proposes and looks up, admins decide |
| Detonation | `backend/samples.go`, `dockermanager.go` | a temporary file, a shadow network and container per run | `detonateAndScore` and its Docker calls | scoring, live feed |
| Quarantine | `backend/quarantine.go`, `intercept_handlers.go` | table `quarantined_files` | insert, decide, status | the interceptor submits and polls, admins decide |
| Interceptor | `interceptor/` | the quarantine directory (payload and `meta.json` per entry), the stabilizer's timers, the jobs channel, the ignore window | watch, quarantine, submit, release, hold, block; startup sweep; held-poller | `/api/intercept` |
| Accounts | `backend/users.go`, `session.go`, `auth_handlers.go`, `user_handlers.go` | tables `users`, `sessions` | seed, login, logout, create, remove, change role, expire | audit log |
| Monitoring | `backend/monitor.go`; `monitored-endpoint/poller.py`, `differ.py` | `isolated`, a mutex; Docker's attachment; the poller's snapshot | tick, reconnect, recovery at startup | scoring, live feed, audit log |
| Live feed, dashboard | `backend/hub.go`, `frontend/src/api.ts`, `App.tsx` | connected clients; what the page shows | broadcast, connect, reconnect with backoff | everything that broadcasts |
| Dashboard's tables | `AuditLogTable.tsx`; `QuarantineReview.tsx`, `PendingHashApprovals.tsx`, `CorpusReview.tsx`, `UserManagement.tsx`; `ConfirmDialog.tsx`, `Tabs.tsx` | the rows shown, search, order and page, the dialog, requests under way, counts on the tabs | load, poll, refresh on a verdict, read, submit, decide | audit log, quarantine, review tables, users |
| Sign-in and upload | `App.tsx`, `LoginPage.tsx`, `Header.tsx`, `UploadPanel.tsx`, `api.ts` | whose login the page shows, calls under way, the file and its hash | sign in, sign out, be thrown out, reload, pick a file, upload | accounts, detonation |
| Event feed | `EventFeed.tsx` | rows, filters, `autoScroll`, `newCount` | follow, count, filter, jump | live feed |
| Sensor | `sensor/src/` | none: it reads a finished trace | run a sample under strace, emit events | detonation |
| Login limiter | `backend/ratelimit.go` | failure times per address | allow, record | login |
| Migrations | `backend/db.go`, `verdict-engine/db.py` | applied files | run in order | at start |
| Archive, revalidation, training | `event_archive.py`, `revalidat*.py`, `train*.py` | a JSON-lines file | append, compare, fit | offline |

What is hard here is what happens between two steps:

* **Threads against one row.** Appends, decisions, role changes and logins run concurrently and
  are mostly several SQL statements without a transaction.
* **A directory as a database.** Workers, sweep and poller share the quarantine directory without
  a lock; a crash can fall between any two file operations, and `meta.json` is written in place.
* **Docker calls that half succeed.** They run under a deadline, so a call may take effect and
  report an error; the code's flags and ids are then behind Docker's truth.
* **State read, then used.** The role in a new session, the row id in a sidecar, the flag a
  Reconnect has checked, the temporary file that is read by name.
* **Timeouts against late answers.** The 60-second submit, the 15-second score, the 30-second
  sensor and the 10-second tick all end on one side only.
* **Three sources for one flag.** The page hears of the monitor by messages, by the answer to its
  status request and by the answer to its own reconnect request, and these overtake each other;
  messages sent while its socket is down are gone.
* **Answers in any order.** A table may have several requests out; the last answer to arrive is
  what it shows. A call may be answered after its table is gone, or after its user has signed out
  and another one in, and a 401 then ends a session it never belonged to.
* **State, drawing, effects and the browser.** A message changes React's state, the rows are drawn
  later, an effect scrolls or counts later still, and the browser reports a scroll in its own time.

## The modules

| Module | Models | State and actions |
|---|---|---|
| `ChainOps` | the operators of `audit_log.py` | `MakeEntry`, `LastHash`, `BrokenAt` (`verify_chain_detail`) |
| `HashChain` | abstract specification: a chain that grows atomically by linked entries | one action, `AppendEntry` |
| `AuditLog` | `append` as its statements: `Call`, `AcquireLock`, `ReadLastHash`, `Insert`, `Commit`, or `Abort` at any point; ids come from the sequence at `Insert` and become visible at `Commit` | per appender a transaction, the advisory lock, the committed rows |
| `AuditLogProofs`, `AccountsProofs`, `DetonationProofs`, `InterceptorProofs`, `MonitorProofs`, `LiveFeedProofs`, `TablesProofs`, `DashboardProofs` (on `EventFeed` and `Session`) | theorems | |
| `Quarantine` | the table and the verdict-to-decision map | operators and the admin's action |
| `Interceptor` | the daemon: EXTENDS `Quarantine`, so the backend's side of `/api/intercept` is part of its steps | disk (`home`, `payload`, `meta`), directories and their watches (`folder`), goroutines (`pc`, `ent`, `mem`, `call`), the watcher's path (`events`, `timers`, `jobs`, `ignore`) |
| `Accounts` | every SQL statement of the handlers | `users`, `sessions`, a step per request, the audit entries |
| `Monitor` | `Tick`, `Reconnect` and the poller | `isolated`, `mu`, Docker's `attached`, the snapshot, the last broadcast and audit entry |
| `Scoring` | `rule_scorer.py` and the order of questions in `/score` | operators |
| `ReviewTable` | `known_bad_hashes` and `known_bad_samples`, which work alike | operators |
| `Detonation` | a request's handler goroutine, its `/score` call in the engine, Docker, the temporary directory, the admins: EXTENDS `ReviewTable` and `Scoring` | `run`, `engine`, `staged`, `nets`, `box`, `hashes`, `corpus`, `log` |
| `Sensor` | from a sample's system calls to the emitted events, through strace's log with calls in one line or two | operators |
| `Hub` | `HandleWS` per connection, `Broadcast` as its writes under the mutex | `clients`, `mu`, `todo`, `outbox`, the connections' `link` and `pipe` |
| `LiveFeed` | the page on the hub: EXTENDS `Hub` and `Sensor`, with any number of detonations at once, `Monitor.Tick` and `Monitor.Reconnect` as the goroutines that broadcast | `ws`, `socket`, `status`, `banner`, `feed`; stages of the senders |
| `AuditView` | `AuditLogTable.tsx` and the log it shows | `log` on the server, `loads` under way, `rows`, `query`, `sortOrder`, `page`; actions `Audit...` for the effect's life, `Read` for the reader's controls |
| `ReviewView` | the four tables of rows to act on, which are one component written four times (`kind`), with the dialog; the server's table as the list of its versions | `past`, `gets` and `calls` under way, `entries`, `badge`, `dialog`, `busy` |
| `Tables` | both on one page: EXTENDS `AuditView` and `ReviewView`, with tabs, notices and the runs that change what is behind the tables | `tab`, `inbox`, `scored` |
| `UploadPanel` | the panel that takes a sample | `file`, `hash`, `digests` under way, `busy` |
| `Session` | signing in and out: EXTENDS `UploadPanel`; cookie, session store, calls sent under one session and answered under another | `sessions`, `cookie`, `calls`, `user`, `tab` |
| `EventFeed` | the list of live events, with React's commit and effect and the browser's frame as steps of their own | `events`, `drawn`, `effect`, `closure`, `top`, `autoScroll`, `newCount` |
| `MC*` | instances for TLC | |

Definitions keep the source's names. A handler step is one action from one access of shared state
to the next; its guard is the code's condition, and an error path is an action of its own
(`...Fails`, `...GivenUp`). Definitions with a suffix (`Stage_Keep`) are mutations of the code:
they are not part of any specification, and each breaks one property.

### What is abstracted

* A SHA-256 is an uninterpreted function (`Hash`) in the audit log, and the sample itself in
  `Detonation`. In the audit log a record's payload is a value, not JSON.
* A file's content in `Interceptor` is the number of the write that produced it; `Partial` is a
  file cut short. A path is on removable media or not, chosen in `Init`: `moveFile` renames on
  one filesystem and copies and unlinks across two, and on removable media the mount poller and
  not inotify finds new files.
* Each path of `Interceptor` has a directory of its own, one level deep, that the user makes and does
  not remove; `folder` says whether it is there and has a watch. Its watch is there after a start, comes
  with the event of its creation, or never, if `w.Add` fails or the event is lost.
* `IgnoreExpires` may end the ignore window of a path when no event for it is pending: the five
  seconds are taken to be longer than the watcher needs for its own rename.
* The stabilizer keeps, per path, the timer of its map, those armed and those that have fired; its
  `stable` channel and the forwarder are part of the jobs channel.
* An event is its type and whether a rule takes notice of it; confidence is in hundredths. No
  subset of the weights sums to exactly 0.6, so the code's floating-point comparison agrees.
* `os.WriteFile` of the staged file is one step, and so are the Docker calls of one function,
  with every combination of their partial effects when they fail.
* YARA and `difflib` matches are constants of the instance (`Yara`, `Alike`), as is what a sample
  does when it runs (`Trace`) and in which runs it outlasts the sensor's 15 seconds (`Slow`). `Submitted`
  and `Proposed` bound what is uploaded and what people propose.
* A monitor poll is one step, unless its process outlives the tick (`PollLingers`, `LateSave`), which
  one may do at a time; its `write_text` is whole or, as a fault, torn. Processes and connections
  that vanish between polls are not seen by the poller either.
* Passwords: a login in `Accounts` is one whose password matches.
* In `LiveFeed` a run is its stage and the events it broadcasts (`Detonation` has its inside); a page
  waits for the verdict of one upload at a time, as its busy panel does, while others, or the
  interceptor, run theirs; and
  Tick and Reconnect are what they do to the flag and when they broadcast (`Monitor` has the
  rest). A closed or broken connection is known to both ends at once: a half-open one, whose
  writes block until TCP gives up, is not modelled. `PipeCap` is what fits into the buffers
  between `WriteMessage` and a browser that is not reading; a write blocks beyond it. A page has
  at most one status request under way.
* In `AuditView` the log is its length: entries are numbered, and a query finds a constant set of
  them. The chain indicator, which is a second request of the same effect, is left out.
* In `ReviewView` a row is its key and its state. `Served` and `CallFails` are the two ends of every
  form and decision. The corpus table behaves as that of the hashes without runs that propose, so
  the instance leaves it out. An open dialog is modal: the tabs and other rows cannot be reached.
* In `Tables` a change of a review table may be audited or not: the routes append the entry after
  the change, and that may fail.
* In `Session` a call of kind "load" is the audit log's, whose effect drops late answers; "ask" is
  any of those that drop nothing. Roles are left out, and so is what the answers carry.
* In `EventFeed` the window is one row high and 40 pixels are `NearRows` rows. React and the
  browser are external: an effect runs before the next commit, a scroll is reported once a frame,
  and where rows come or go above the window the browser may move the list or not.

### History variables

Some variables only remember, so that a property can say when it is owed: `overlapped` (two account
requests ran at once), `blurred` (a Docker call took effect but failed), `crossed` (a reconnect and an
isolating tick ran at once), `raced` (requests past their check when another one cleared the flag),
`silenced` (which of feed and log a fault kept from speaking), `rewound` (a late save took the snapshot
back), `shared` (two runs used one temporary file), `failed`, `excused`, `missed`, `due`, `done`,
`bornStale`; in `LiveFeed` `script` (what the page's run reports), the fields `run` and `place` of an
event, `whole` (the page's socket missed none of it) and `gap` (the banner may have missed a change); in
`AuditView` and `ReviewView` `owed`, `fresh`, `unseen` (entries of this reading not yet shown), `shrunk`
and `missed`; in `UploadPanel` `mixed`; in `EventFeed` `away`, `moved`, `raced` and `unread`. No guard
of a program step reads them.

## The runs

| Run | Instance | Question |
|---|---|---|
| `audit_log` | 3 appenders, 2 payloads, 3 appends, aborts anywhere | Does the chain ever fork or reorder, does it refine `HashChain`, is every removal pinpointed and every rewriting of what the verifier reads, does every append return? |
| `interceptor` | 2 workers, 2 entries, 1 path in a directory of its own (either filesystem), 2 writes, 1 fault | Who owns an entry, what may be released, what a sidecar may say, which file is never quarantined, what is left behind, where bytes are lost |
| `interceptor_live` | 1 worker, 2 entries, 1 write, 2 faults, fair | Do decisions reach files, does the sweep end? |
| `accounts` | 2 users, 2 requests, 2 sessions, 2 changes, 1 fault | Last admin, truthful audit, stale sessions |
| `monitor` | 3 changes, 3 isolations, 3 faults, 2 reconnect requests at once | Flag against Docker, no change lost or judged twice, the public record, which request may put the container back |
| `detonation` | 2 requests, 2 samples, of which one outlasts the sensor's 15 seconds in the first request, 1 file name, 1 admin, 1 fault | What a verdict is about, what earns it, what stays behind |
| `live_feed` | 1 page and connection, 1 login; 2 runs of 3 calls at once, or a run and an isolation with its reconnection, or one of these and a fault; a feed of 2 events, fair | When do banner and feed tell the truth, whoever else is uploading; do socket and hub recover, does every run end? |
| `tables` | log that grows from 2 entries to 4 on pages of 1; hashes, quarantine or users with 3, 3 and 2 versions; 2 loads, 2 gets, up to 2 calls under way; the audit log alone or review, audit, review; 1 fault, fair | Which answers may show, when is a table out of date, does paging skip anything? |
| `session` | 2 logins, 3 calls under way, 2 files, 1 reload, 1 fault, fair | Why does a page fall back to the login form, and does it when its session has ended; whose hash is shown? |
| `event_feed` | 8 events of 2 types, 7 kept, 3 scrolls, chips, changes of tab or uploads | Does the list follow its end, and does it count what an absent reader misses? |
| `interceptor_crash`, `monitor_disconnect` | as small as the counterexample needs | the findings below |

**Why the bounds are enough.** The interesting cases need two of a thing: two transactions for a
fork and a third to build on it, two goroutines on one directory, two requests on one table, two
runs on one file name. One fault at any point covers every single failure between two steps; two
faults where recovery itself can fail (`interceptor_live`), three where the recovery is a restart
(`monitor`). Two writes to one path are the least with which a restore meets a newer file. In
`detonation` one file name is the harder choice: with two names runs share nothing. In `live_feed`
two runs are the least whose events mix in one feed; each of a run's two events that the feed keeps
can be pushed out by the other run's, as by the 501st. In `monitor` two requests are the least
of which one is overtaken. In `detonation` one sample both does harm late and outlasts the sensor, so
that what it is seen to do may or may not be all it does.
In `tables` two requests are the least of which one overtakes the other, and two decisions the
least that meet on one row; with one row to a page and two entries at the
start, the reader can be on a later page, with an entry still unseen, when a row arrives, and may lose that
entry to an old answer there (`shrunk`); the query finds three of the four entries, so it has later
pages too; the corpus aside, each kind of table is a choice of `Init`, and the reader
reads on the last visit only, because each visit begins in the same state. In `session` two
sessions and three calls are the least with which a call of the first is answered in the second
while that one makes its own. In `event_feed` eight events overrun a list of seven by one, and
seven are enough for a reader who is far from the end to filter every row away, jump, and take the
filter off again (see below). Deadlock is not checked because every instance stops at its bounds.

Every module states its `TypeOK`. It is proved for `AuditLog`, `Accounts`, `Detonation`,
`Interceptor`, `Monitor`, `EventFeed`, `LiveFeed` and `Tables` (and as `SessionTypeCorrect` for `Session`);
the runs do not list it, because a value of a wrong type
says little that the other properties do not.

**Fairness.** `AuditLog`: strong fairness on taking the advisory lock, because Postgres queues its
waiters, and weak on the statements of a transaction that holds it; `Call` and `Abort` owe nothing.
`Interceptor`: weak fairness on each goroutine and on restarting, which `Restart=always` in the systemd
unit provides; users, admins and faults owe nothing. `Detonation`: weak fairness on each handler and
each engine call, whose blocking calls have deadlines (`context.WithTimeout`, `http.Client.Timeout`, the
closed exec stream); admins owe nothing. Two calls have no deadline: the copy of
`CopyFileIntoContainer`, which reads and writes a hijacked connection, and `Teardown`, which runs under
`context.Background()`. In these a handler may stop for good (`CallHangs`, a fault that the properties
name). Its run checks instead of a liveness property the invariant `RequestGoesOn`: a live request that
does not hang there always has a next step it can take by itself. No step goes back to an earlier one,
so with that fairness every other request ends. `LiveFeed`: strong fairness for whoever waits for the hub's
mutex, which Go's `sync.Mutex` hands to a waiter after a millisecond, and weak for the other steps of
goroutines, browser events and timers; users, faults and the monitor owe nothing. It includes that a
browser whose connection is up reads its messages. `Tables`: weak fairness for the audit log's oldest
request, its poll timer and the notice under way. `Session`: weak fairness for the oldest call and the
poll timer: `fetch` ends with an answer or an error, `setInterval` goes on until it is cleared. Users,
other admins and faults owe nothing.

**Conditions in properties.** `LastAdminKept` and `AuditedActionsHappened` hold until two requests
overlap, `VerdictFitsSample` until two runs share a temporary file, `PublicRecordIsTrue` until a
reconnect crosses an isolating tick and but for what a fault kept from being announced (`silenced`),
`StaleOnlyIfRaced` lets a request undo an isolation it was not accepted in only when another request
overtook it (`raced`), `BannerExplained` until a message was missed, crossed another or overtook the
status answer, `ReviewExplained` until a change went unannounced or an answer was overtaken,
`PagingMissesNothing` until an old answer took entries away again, `HashFitsFile` with one digest under
way, `FeedTellsTheRun` of the page's own run only, since the hub tells every page of every run and the
page keeps them all, `QuarantinedUnlessMissed` but for the four reasons listed under Findings,
`LeavesForAReason` except for late 401s of an earlier session, `EndedIsNoticed` on the tab that polls,
`FollowsTheTail` and `TellsOfNew` unless rows change by other ways than arrivals or are drawn before a
scroll was reported. These conditions are where the code's promises really end: without them TLC finds
the counterexamples.

## Findings

Each is a run that TLC shows to violate what the repository says of itself.

1. **A crash can lose a file** (`interceptor_crash`): `docs/concepts.md:93` says a daemon crash
   loses nothing. Between `moveFile` and a complete `writeMeta` an entry has a payload and no
   readable sidecar, and no scan ever looks at it again. TLC's trace is the plain case: one filesystem,
   the rename has taken place, the file is nowhere else, the daemon dies.
2. **A verdict that isolates nothing** (`monitor_disconnect`): a Compromised tick between
   `NetworkConnect` and `isolated = false` of a reconnect finds the flag set and does nothing.

Other disagreements met while modelling, which have no run of their own (each is where the
condition of a checked property comes from):

* `user_handlers.go:76` refuses "an action that would leave zero admins", but `countAdmins` and the
  change are two statements: two admins who remove each other both count two (`LastAdminKept`).
* `session.go:74` wants a role change to "take effect immediately". `loginHandler` reads the role,
  compares the password and then creates the session: a demotion in between is not seen, and the
  session is renewed by use (`StaleSessionExplained`).
* `QuarantineReview.tsx:77` says that anything the interceptor could not clear or condemn "shows up
  here". The row is inserted after the verdict's broadcast, so the table may reload too early, and
  it does not poll (`ReviewExplained`).
* `stabilizer.go:41` deletes whatever timer the map has: one that was started while an earlier one
  waited for the mutex can no longer be stopped, and the path is announced twice. The second worker
  finds the file gone (`OneOwner`, `QuarantinedUnlessMissed`).
* A page that was offline while the monitor was isolated shows no banner until the next login: the
  status is asked for once per login (`BannerExplained`).
* `docs/concepts.md:76` makes "*un*-containing something require a human decision every single time".
  Of two reconnect requests accepted in one isolation, the slower can undo a later isolation, about which
  nobody has decided. `StaleOnlyIfRaced` says that this is the only way.
* `README.md:21-22` says of the audit log that "an edited entry breaks the chain and is detectable". An
  edit of the column `prev_log_hash` is not: nothing reads that column (`audit_log.py:52-58`). The copy
  of the hash inside `data` is what counts.
* `README.md:269` admits that a sample which "sleeps past the 15s trace window" comes back clean:
  the sensor kills it and ends its stream as if that had been all (`tracer.rs:74`). `VerdictIsEarned`
  therefore says of a Normal verdict only that nothing in what was seen is notable. A broken connection
  has the same effect without being documented.
* The copy into the container and `Teardown` wait for Docker without a deadline, so a request can hang
  in either (`dockermanager.go:123`, `samples.go:110`), against the 60 seconds of `samples.go:101`.
* Events of runs that are uploaded at the same time stand mixed in every page's feed, without a
  mark whose they are (`samples.go:136`, `api.ts:203`).
* A poller that outlives its tick saves a snapshot older than the one the next tick's poller saved;
  what lies between the two is reported and judged again (`EveryChangeJudgedOnce`).
* A `NetworkDisconnect` that takes effect but reports an error leaves the container cut off and
  Reconnect refusing with "not isolated" until the backend restarts (`concepts.md:77`).
* Broadcasts follow the release of the mutex: "isolated" and "reconnected" can swap.
* Not every new file is quarantined (`docs/superpowers/specs/2026-10-20-auto-interceptor-design.md:7`):
  not one written within five seconds of a release to its path, nor one written into a new directory
  before the watcher has added it or when it cannot (`watcher.go:61-68`), nor one whose event is lost
  in an overflow (`:44-48`), nor one that `moveFile` fails on (`worker.go:43-46`). None is tried again
  (`QuarantinedUnlessMissed`). A failed submission is
  not retried before the next start (line 111 says "retry with backoff").
* An UPDATE or DELETE that hits no row is audited as a change that took place.
* `StartShadowContainer` returns no id when `ContainerStart` fails, so the created container is
  never removed, nor is anything after a backend crash (`concepts.md:197`).
* A decision on a hash or corpus row is committed before its audit entry; if that fails the admin
  sees an error, the decision stands, and repeating it answers 409.
* `backend/samples.go:70-71` says that a sample's own bytes are run. They are staged under the
  uploaded name in one directory (`:95`): of two uploads at once under one name, one is judged by the
  other's bytes (`VerdictFitsSample`).

And in the dashboard:

* A late 401 of an earlier login, or of a table that is gone, ends the present one, and a poll that
  overtakes a sign-out shows "Your session expired" (`App.tsx:96`, `LeavesForAReason`). A second click
  on "Sign out" that is answered late signs the next login out; a sign-out that fails is swallowed
  (`:92`), and a reload signs in again.
* On a tab that does not poll, nobody notices that the session has ended (`EndedIsNoticed`).
* The digest of a file picked earlier may arrive last and is shown under the later one's name, although
  it is there so that the hash can be seen before the file is sent (`api.ts:53`, `HashFitsFile`).
* `docs/superpowers/specs/2026-09-18-mirraura-auth-redesign-design.md:200-201` wants the feed to scroll
  "unless the user has scrolled up". It stops also when rows are drawn before the browser has reported
  its own scroll, once `MAX_EVENTS` are kept (nothing is "added" then, so nothing is counted either),
  and after a return to its tab. The counter keeps what a cleared list had counted, and what arrived
  after a jump that found every row filtered away (`FollowsTheTail`, `TellsOfNew`).
* A confirmation that is clicked twice decides once and shows the 409 of the second. The `finally` of
  one decision closes the dialog of another row and frees its button.
* A row submitted just before the tab was left is not in the table that is mounted next
  (`ReviewExplained`); what is typed while a form is being sent is wiped by its success.
* An old answer of a poll may take entries off the log again until the next one (`PagingMissesNothing`).
* "Admins only" and the other toasts never show: no component mounts `ToastHost`.
* `MonitorBanner` keeps `confirming` while it renders nothing, so that its dialog may open by itself
  at the next isolation.

## Proofs

Every safety property of a passing run is a theorem but one (below), for every value of the
constants: any number of appenders, workers, entries, users, requests, runs, rows, visits, faults.
Hardly one is inductive as it stands; what the inductive invariant adds is what the code relies on
without saying so.

| Module | Theorem | Property | Inductive invariant |
|---|---|---|---|
| `AuditLogProofs` | `ChainAlwaysIntact`, `EditsAreDetected`, `RemovalsAreDetected` | `ChainIntact`, `EditDetected`, `RemovalDetected` | `IInv` |
| | `Refinement`, `CommitsOnlyAtEnd` | `ImplementsHashChain` | `IInv` |
| `InterceptorProofs` | `OneOwnerAlways`, `ReleasesAreAuthorised`, `HeldRowsMatch`, `SweepSkipsNone`, `NothingIsOverlooked`, `BytesAreKept`, `BlockedStays` | `OneOwner`, `ReleaseAuthorised`, `HeldRowMatches`, `StuckOnlyAfterFailure`, `QuarantinedUnlessMissed`, `BytesLostOnlyByOverwrite` | `DaemonInv` (`DaemonInvariant`) |
| `AccountsProofs` | `LastAdminStays`, `AuditTellsTheTruth`, `StaleAlwaysExplained` | `LastAdminKept`, `AuditedActionsHappened`, `StaleSessionExplained` | `AccountInv` |
| `MonitorProofs` | `JudgedOnceAlways` | `EveryChangeJudgedOnce` | `JudgedInv` |
| | `FlagAlwaysTracksDocker` | `FlagTracksDocker` | `DockerInv` |
| | `RecordStaysTrue` | `PublicRecordIsTrue` | `RecordInv` |
| | `StaleOnlyAfterARace` | `StaleOnlyIfRaced` | `FreshInv` |
| `DetonationProofs` | `VerdictsAreEarned`, `AnswersAreLogged`, `ProposalsAreExplained` | `VerdictIsEarned`, `AnswerIsLogged`, `AutoProposalExplained` | `DetonationInv` |
| | `VerdictsFit` | `VerdictFitsSample` | `StagedInv` |
| | `LeftoversAlwaysExplained` | `LeftoversExplained` | `LeftInv` |
| | `DecisionsStand` | `AuditedDecisionStands` | `ReviewInv` |
| `LiveFeedProofs` | `BannerIsExplained` | `BannerExplained` | `FeedInv` |
| | `FeedIsTheRun` | `FeedTellsTheRun` | `FeedInv` and `WholeInv` |
| | `SensorReportsTheCalls` | (what `ParseTraceLog` makes of every trace) | induction over the calls |
| `TablesProofs` | `NeverBehind` | `NeverBehindItsNotice` | `NoticeInv` |
| | `PagesMissNothing` | `PagingMissesNothing` | `PagingInv` |
| | `ReviewIsExplained` | `ReviewExplained` | `ReviewInv` |
| `DashboardProofs` | `TailIsFollowed`, `NewIsTold` | `FollowsTheTail`, `TellsOfNew` | `FeedInv` (`FeedInvariant`) |
| | `HashAlwaysFits` | `HashFitsFile` | `PanelInv` |
| | `LeavesAreExplained` | `LeavesForAReason` | `SessionInv` |

and `TypeCorrect` for `AuditLog`, `Interceptor`, `Accounts`, `Monitor`, `Detonation`, `EventFeed`,
`LiveFeed` and `Tables` (`SessionTypeCorrect` for `Session`).

### The arguments

**Audit log.** A step that commits a row needs to know that the row
links to what is newest at that moment. `IInv` adds, in order: at most
one transaction is past the lock and it is the holder (`LockInv`); what the holder has read as the
last hash is still the last hash, and the row it inserted was built from it (`HolderInv`), because
nobody else can commit; every id handed out is larger than all committed ids (`IdInv`), so a commit
appends at the end of `ORDER BY id`; and every committed row checks out against the one before
(`ChainInv`). The refinement uses the same facts: `Commit` is `AppendEntry`, everything else a stutter.
Tampering is then a matter of chains, not of steps: rewritten `data` or a rewritten `entry_hash` shows at
its row, both at once, if they fit each other, at the row behind it, and a dropped row at the one behind
it, which links to a hash that its new predecessor does not have. The column `prev_log_hash` is not part
of the chain: `verify_chain_detail` reads `data` and `entry_hash` only (`EntryOk`).

**Interceptor.** No lock guards the quarantine directory, so `DaemonInv` says for each goroutine what
it may be doing in each phase of the daemon (`PhaseInv`: main alone sweeps, before any worker has a
job), what it finds in the entry it has (`OwnInv`: the poller a held one, the others not), how it
came by its verdict (`VerdictInv`), who is about to record which row (`ClaimInv`), and where every
entry to submit and every file to quarantine is (`PendingInv`, `DueInv`). A step of a
goroutine changes its own entry only (`Frame`), so what the others found there still holds: `OneOwner`
is what makes this true, and it is itself kept by the phases and by the poller and the others taking
entries in different states.

**Accounts.** While requests have not overlapped, a request is alone (`SerialInv`), so what it read or
counted still holds when it acts (`Checked`), and the table has an admin or is yet to be
seeded (`AdminInv`). `StaleSessionExplained` needs no such condition: every way to a stale session is
one of those it names.

**Monitor.** *Changes.* A poll adds to the batch what lies beyond the snapshot, so nothing judged,
excused or on its way may lie there, except what a late save took back (`CoveredInv`), and a batch is
on its way only while Tick scores it (`BatchInv`). *The flag.* `ControlInv` ties the mutex to Tick's
place, and `FlagInv` says in which ways flag and Docker may differ. The delicate case is a request
that was accepted in an earlier isolation and attaches the container between Tick's call and its
assignment: it has to wait for the mutex, so both are overwritten in the right order. *The record.*
Both sides speak after they have released the mutex; `SpeakInv` says that without a crossing only
one of them is ever about to, and what it will say is what is the case. *The decision.* The
flag stays up from a request's check to its call, so no tick isolates in between, unless another request
clears it: `FreshInv` speaks of every request that was not overtaken, for any number of them.

**Detonation.** For each run, `DetonationInv` says how far its handler is and what it has found out
(`Flow`), what its score call holds and has logged (`Scored`), what it holds in Docker (`Held`) and
that what lookup and triage found is still in the tables (`Grounded`, since nobody takes an approval
back). A step of one run leaves the others alone. Runs share only the temporary files, for which
`StagedInv` and `LeftInv` stand beside it. The rules are lemmas about `Score`: a
trace without a rule scores nothing, and what a part of a trace triggers the whole triggers.

**Live feed.** As long as the page has missed nothing, no message about the monitor that is still to be
written has become untrue (`NewsInv`); of the messages in the page's pipe the last one about the
state is true; if there are none, the answer under way is; and if there is none of those either, the
banner is (`TruthInv`). Each step moves the truth from one of these places to the next: a message from
the sender's outbox to the pipe, from there to the banner. `HubInv` says that a sender has at most one
such message and that nothing is in the pipe of a link that is down.

*The types* say more than their name in two places: a broadcast puts nothing into a link that is
full, and the feed never outgrows `MaxEvents` (`WireTyped`, `ViewTyped`).

*The feed.* Every event carries the run it is of and its place in it, which the page does not see. While
the page misses nothing of its own run, what is left in the sender's outbox is the rest
of the script (`RestInv`), and there are numbers `a` and `b` such that the feed tells the
script's events from `a` to `b`, the page's pipe those from `b` to what has been written, and both, between
them, whatever other runs have sent (`ToldInv`; the event that is
being broadcast counts once the page's connection has had its turn). Writing adds a number at the
end, taking a message drops one at the front (`CountsMore`, `CountsFewer`), and the feed, which keeps
the newest, goes on by one event (`NewestNext`). That the script is what the sample did,
however strace cuts its trace up, is `SensorReportsTheCalls`: flattening and parsing go
through concatenation (`FlattenConcat`, `ParseConcat`), the first execve is the shell's
(`RootIsStripped`), and the second line of a call in two parses to nothing.

These lemmas are about data and need induction. The library's induction theorems take an operator, which
no installed prover can instantiate, but its fact that `<` on `Nat` is well-founded, with a minimum in
every set that is not empty (`NatLessThanWellFounded`, `WFMin`), gives induction for *sets* of numbers
(`Induction`) and of sequences (`SeqInduction`). `FlattenSeq` is a recursive function, which the provers
see as the choice of one that satisfies its equation: `FlattenExists` and `FlattenUnique` are what makes
it usable.

**Tables.** *Notices.* Every request whose answer may still be shown was sent when the log had the
entry of the last notice (`Sufficient`), and notices announce what the log has (`Announced`).
*Pages.* What the reader has not seen of a reading is on a later page than the present one;
an arrival only moves rows to later pages with the newest first, and none with the oldest first
(`pageOf`). *Review tables.* If nothing is missed, what is shown is the server's table,
or a request is under way whose answer can only be that (`Current`, `CurrentHere`), or the page made
the change itself or is about to be told of it (`Told`). *Types.* A page number is bounded by the
entries, because the page before it is full (`PagesCounted`), and no row is announced before it is in
the log (`LogTyped`).

**Event feed.** Positions are only reported while there are rows (`RowsInv`); the effect that is due
decides about exactly the rows drawn since the one before (`EffectInv`); the list stands
near its end or is about to be taken there (`FollowInv`), and what was drawn is counted or about to be
(`CountInv`). The first attempt at this proof failed for a reason: `TellsOfNew` was not true. A
reader who is far from the end, filters every row away and jumps scrolls nothing, since the list is
not there; what arrives then is counted, and the pill still says so when the filter is gone
and the list stands at its end (`EventFeed.tsx:81-85`, `96-100`). With five events kept, as the run
had it, a list cannot be long enough for this. `Jump` now leaves `moved` set in that case, and the
run keeps seven.

**Sign-in.** Every call under way is sound (`Sound`): one that was refused was sent under a session that
is over, and sessions never come back; the loads are those of the user shown, because the effect's
cleanup drops the others; the cookie is the user's while the dashboard is shown, because only one login
runs at a time (`Single`) and a sign-out leaves the page. Hence a refused load speaks of the page's own
session, and only the calls that nothing cancels can be another's.

### The assumptions

`HashAssumption` (the first link and every hash are digests), bounds in `Nat`, and names that differ
(`Nobody` is no goroutine, `NoConn` no connection, and so on), all of which TLC evaluates in the runs.
`ContentAssumption` fixes what a file can hold, `VersionsAssumption` that a table has a first version,
`VisitsAssumption` that a visit goes to the other tab, `ProgramsAssumption` that a sample is a sequence
of calls. Some theorems have a hypothesis of their own. `EditsAreDetected` has `NoCollision`: no two
records hash to one digest on top of the same entry. SHA-256 is not injective; the hypothesis is what
"cannot be silently altered" rests on. `RemovalsAreDetected` has `NoFixedPoint`: no record hashes, on
top of a digest, to that digest, or else dropping it would leave no trace. `LeavesAreExplained` and
`SessionTypeCorrect` state that `MaxLogins` is a number.

### Only model-checked

Liveness (`AppendReturns`, `DecisionTakesEffect`, `SweepEnds`, `StaysConnected`, `BroadcastsEnd`,
`AuditCatchesUp`, `EndedIsNoticed`) and `RequestGoesOn`, since neither fairness nor ENABLED is within
the prover's reach.

A property nobody can have: removing the *newest* row is not detected by `verify_chain_detail`,
which has no record of the length. `RemovalDetected` therefore speaks of rows with a successor.

## Not modelled

Login limiter and migrations are planned below. Of the dashboard: the verdict panel, the statistics,
badges, toasts and the theme (functions of what they are given, or of no consequence), the chain
indicator, downloads, the upload's timed steps and roles on the page, since the backend checks them
(`Accounts`). Configuration parsing, `/proc/mounts`, notifications, password hashing and the deployment
files keep no state that another part depends on. Revalidation and training are numeric and offline. A
damaged disk, a lost database and a Docker daemon that lies are outside the model.

## Plan

1. Done: the modules in the table above, two findings, the proofs described above.
2. Next modules: `LoginLimiter` (parallel attempts between `Allow` and `RecordFailure`) and
   `Migrations` (two starts, a crash between two files).
3. Abstract specifications worth stating: a review gate (`pending`, then one final decision) that
   `ReviewTable` and `Quarantine` both implement; the quarantine's promise (held, released once,
   or blocked for good) that `Interceptor` implements.
4. Theorems worth proving next: that `ReviewTable` and `Quarantine` implement the gate of item 3
   and `Interceptor` the quarantine's promise; a single
   invariant for `Monitor` in place of its four; the safety of the modules of item 2.
