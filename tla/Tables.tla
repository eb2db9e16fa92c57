-------------------------------- MODULE Tables --------------------------------
(***************************************************************************)
(* The tables of the dashboard on one page: the audit log's tab            *)
(* (AuditView) and one tab with rows to act on (ReviewView), of which one  *)
(* is mounted; the verdict messages that make the mounted one load again   *)
(* (App.tsx, refreshKey); and the runs of the backend that change both     *)
(* tables behind them.                                                     *)
(***************************************************************************)
EXTENDS AuditView, ReviewView

CONSTANTS
  FirstRows,  \* entries of the log when the page is opened on it
  Visits,     \* bound: the tabs that are opened one after the other
  MaxFaults   \* bound: notices and answers lost

\* a visit leaves the tab it was on
ASSUME VisitsAssumption ==
  \A v \in Visits : /\ v \in Seq({"audit", "review"}) /\ v # << >>
                     /\ \A i \in 1..(Len(v) - 1) : v[i] # v[i + 1]

ASSUME FirstRowsAssumption == FirstRows \in 0..MaxRows

ASSUME MaxFaultsAssumption == MaxFaults \in Nat

VARIABLES
  tab,       \* "audit", or "review" for the other one
  inbox,     \* verdict messages under way, each with the log it was sent after
  scored,    \* server: the run under way: "idle", "scored", "announced"
  visits,    \* the tabs still to be opened
  faults

vars == << auditVars, reviewVars, tab, inbox, scored, visits, faults >>

TypeOK ==
  /\ AuditTypeOK /\ ReviewTypeOK
  /\ tab \in {"audit", "review"} /\ \A i \in DOMAIN inbox : inbox[i] \in 1..MaxRows
  /\ scored \in {"idle", "scored", "announced"} /\ faults \in 0..MaxFaults

Fault == faults < MaxFaults /\ faults' = faults + 1

\* tables the page may find; one user is an admin
Found(t) ==
  IF t = "users" THEN {f \in [Keys[t] -> Roles] : \E k \in Keys[t] : f[k] = "admin"}
                 ELSE [Keys[t] -> {"absent", "pending"}]

\* The page has just been opened, on any tab: bottomTab outlives a login.
\* bound: where the log is not what is looked at, it grows only once
Init ==
  /\ \E v \in Visits : tab = Head(v) /\ visits = Tail(v)
  /\ log = (IF tab = "audit" THEN FirstRows ELSE MaxRows - 1)
  /\ loads = (IF tab = "audit" THEN << log >> ELSE << >>) /\ rows = 0
  /\ query = FALSE /\ sortOrder = "newest" /\ page = 0
  /\ unseen = {} /\ shrunk = FALSE /\ owed = 0 /\ fresh = FALSE
  /\ kind \in Kind /\ \E f \in Found(kind) : past = << f >>
  /\ gets = (IF tab = "audit" THEN << >> ELSE << Get(TRUE) >>)
  /\ entries = NotLoaded /\ badge = NotLoaded
  /\ dialog = NoDialog /\ busy = NoKey /\ calls = << >>
  /\ missed = FALSE
  /\ inbox = << >> /\ scored = "idle" /\ faults = 0

-------------------------------------------------------------------------------
(* The backend *)

\* a verdict is appended; a sample found bad proposes its hash first
Score ==
  /\ scored = "idle" /\ scored' = "scored"
  /\ log < MaxRows /\ log' = log + 1
  /\ UNCHANGED << loads, rows, reading, owed, fresh, tab, inbox, visits, faults >>
  /\ \/ UNCHANGED reviewVars
     \/ kind = "hashes" /\ RunAdds(TRUE)

\* detonateAndScore's broadcast, which the page may not hear
Announce ==
  /\ scored = "scored" /\ scored' = "announced"
  /\ UNCHANGED << auditVars, kind, past, gets, component, badge, calls, tab, visits >>
  /\ \/ inbox' = Append(inbox, log) /\ UNCHANGED << missed, faults >>
     \/ Fault /\ missed' = TRUE /\ UNCHANGED inbox

\* interceptHandler records a file to be held only after that broadcast
Hold ==
  /\ scored = "announced" /\ scored' = "idle"
  /\ kind = "quarantine" /\ RunAdds(FALSE)
  /\ UNCHANGED << auditVars, tab, inbox, visits, faults >>

NothingToHold ==
  /\ scored = "announced" /\ scored' = "idle"
  /\ UNCHANGED << auditVars, reviewVars, tab, inbox, visits, faults >>

\* Others act, and the backend serves this page's calls.  Decisions and changes of
\* users are audited, proposals are not, and the audit may fail.
ServerChanges ==
  /\ SomebodyElse \/ \E i \in DOMAIN calls : Serve(i)
  /\ log' \in (IF past' = past THEN {log} ELSE {log, log + 1} \cap 0..MaxRows)
  /\ UNCHANGED << loads, rows, reading, owed, fresh, tab, inbox, scored, visits, faults >>

-------------------------------------------------------------------------------
(* The page *)

\* App's onMessage: setRefreshKey, which the mounted table has an effect on
Notice ==
  /\ inbox # << >> /\ inbox' = Tail(inbox)
  /\ \/ /\ tab = "audit" /\ AuditRefresh(Head(inbox))
        /\ missed' = TRUE
        /\ UNCHANGED << log, kind, past, gets, component, badge, calls >>
     \/ /\ tab = "review" /\ ReviewRefresh(gets)
        /\ UNCHANGED << auditVars, kind, past, component, badge, calls, missed >>
  /\ UNCHANGED << tab, scored, visits, faults >>

Poll ==
  /\ tab = "audit" /\ AuditPoll
  /\ UNCHANGED << reviewVars, tab, inbox, scored, visits, faults >>

AuditAnswer(i) ==
  /\ \/ AuditArrives(i) /\ UNCHANGED faults
     \/ AuditFails(i) /\ Fault
  /\ UNCHANGED << reviewVars, tab, inbox, scored, visits >>

ReviewAnswer(i) ==
  /\ \/ ReviewArrives(i, tab = "review") /\ UNCHANGED faults
     \/ ReviewFails(i) /\ Fault
  /\ UNCHANGED << auditVars, tab, inbox, scored, visits >>

\* bound: on the last visit only; each begins in the same state
Reader ==
  /\ tab = "audit" /\ visits = << >> /\ Read
  /\ UNCHANGED << reviewVars, tab, inbox, scored, visits, faults >>

Admin ==
  /\ tab = "review" /\ (OpenDialog \/ Cancel \/ Confirm \/ Submit)
  /\ UNCHANGED << auditVars, tab, inbox, scored, visits, faults >>

\* onDecision: setRefreshKey again, whichever table is mounted by now
onDecision(reloaded) ==
  \/ /\ tab = "review" /\ ReviewRefresh(reloaded)
     /\ UNCHANGED << loads, rows, reading, owed, fresh >>
  \/ /\ tab = "audit" /\ AuditRefresh(owed)
     /\ gets' = reloaded /\ Len(gets') <= MaxGets

CallAnswered(i) ==
  /\ \/ /\ Served(i) /\ UNCHANGED << log, faults >>
        /\ IF Decided(i) THEN onDecision(Reloaded(i))
                         ELSE UNCHANGED << loads, rows, reading, owed, fresh >>
     \/ /\ CallFails(i) /\ UNCHANGED auditVars
        /\ IF calls[i].answer = "no" THEN UNCHANGED faults ELSE Fault
  /\ UNCHANGED << tab, inbox, scored, visits >>

\* TabPanel unmounts the table that is left and mounts the other; an open
\* dialog is in front of the tabs
SwitchTab ==
  /\ visits # << >> /\ tab' = Head(visits) /\ visits' = Tail(visits)
  /\ \/ tab = "audit" /\ AuditUnmount /\ ReviewMount
     \/ tab = "review" /\ dialog = NoDialog /\ AuditMount /\ ReviewUnmount
  /\ UNCHANGED << log, kind, past, badge, missed, inbox, scored, faults >>

Next ==
  \/ Score \/ Announce \/ Hold \/ NothingToHold \/ ServerChanges
  \/ Notice \/ Poll \/ Reader \/ Admin \/ SwitchTab
  \/ \E i \in DOMAIN loads : AuditAnswer(i)
  \/ \E i \in DOMAIN gets : ReviewAnswer(i)
  \/ \E i \in DOMAIN calls : CallAnswered(i)

\* the audit log's requests are answered and its timer goes on; users and other
\* admins owe nothing
Fairness == WF_vars(AuditAnswer(1)) /\ WF_vars(Poll) /\ WF_vars(Notice)

Spec == Init /\ [][Next]_vars /\ Fairness

-------------------------------------------------------------------------------
(* Properties *)

\* Once the audit log has been loaded for a verdict the page was told of, no
\* late answer takes that verdict away again (AuditLogTable.tsx:181-221).
NeverBehindItsNotice == tab = "audit" /\ fresh => rows >= owed

\* An audit log that stays open shows every entry in the end, also those whose
\* message was missed (AuditLogTable.tsx:209-216).
AuditCatchesUp == <>[](tab = "audit") => <>[](rows = log)

\* Whoever pages from the first page to the last has had every entry on the
\* screen that the table had at the start, whatever arrives meanwhile, unless an
\* old answer took entries away (AuditLogTable.tsx:229-248).
PagingMissesNothing ==
  tab = "audit" /\ here = pageCount(shown) - 1 /\ ~shrunk => unseen = {}

\* With nothing under way, the review table and the count on its tab are what
\* the server would answer, unless a file was held after its verdict had been
\* announced, a notice came while the table was not mounted, somebody else
\* decided, the table was mounted anew while a row was being submitted, an answer
\* was lost or one was overtaken by an earlier one
\* (QuarantineReview.tsx:33-69, intercept_handlers.go:66-76).
ReviewExplained ==
  gets = << >> /\ calls = << >> /\ inbox = << >> /\ scored # "scored" /\ ~missed
    => /\ badge # NotLoaded => past[badge] = table
       /\ entries # NotLoaded => past[entries] = table
===============================================================================
