------------------------------ MODULE ReviewView ------------------------------
(***************************************************************************)
(* The dashboard's tables of rows to act on: hashes to approve             *)
(* (PendingHashApprovals.tsx), corpus samples (CorpusReview.tsx), files    *)
(* held in quarantine (QuarantineReview.tsx) and users                     *)
(* (UserManagement.tsx), with the confirmation dialog, and the server's    *)
(* table behind them.  The four are one component written four times; kind *)
(* says which one a behaviour is about.                                    *)
(*                                                                         *)
(* The server's table is the last of its versions.  A request for it is    *)
(* answered with any version from the newest when it was sent to the       *)
(* newest when its answer arrives.  The actions say nothing of the rest of *)
(* the page (Tables).                                                      *)
(***************************************************************************)
EXTENDS Integers, Sequences, SequencesExt, FiniteSets

CONSTANTS
  Kind,        \* the tables looked at, a subset of those above
  Keys,        \* of each table: hashes, file ids or user names
  NoKey,
  MaxVersions, \* bound: versions of each table
  MaxGets,     \* bound: requests for the table under way
  MaxCalls     \* bound: requests to change each under way

ASSUME VersionsAssumption == \A k \in Kind : MaxVersions[k] \in Nat \ {0}

NotLoaded == 0
Decisions == {"approved", "rejected"}
Roles == {"admin", "analyst"}
NoDialog == [key |-> NoKey, as |-> "none"]

VARIABLES
  kind,
  past,      \* server: the versions of the table
  gets,      \* requests for it whose answer has not arrived
  entries,   \* the version that the mounted component shows
  badge,     \* App: the version whose rows the tab counts
  dialog,    \* pendingAction, pendingDelete; it is modal
  busy,      \* busyHash, busyId
  calls,     \* requests to change a row
  missed     \* history: a change the page was not told of, or an answer overtaken

component == << entries, dialog, busy >>
reviewVars == << kind, past, gets, component, badge, calls, missed >>

Key == Keys[kind]
version == Len(past)
table == past[version]

ReviewTypeOK ==
  /\ kind \in Kind
  /\ past \in Seq([Key -> {"absent", "pending"} \cup Decisions \cup Roles])
  /\ gets \in Seq([since : 1..MaxVersions[kind], mounted : BOOLEAN])
  /\ {entries, badge} \subseteq NotLoaded..MaxVersions[kind]
  /\ dialog \in [key : Key, as : Decisions \cup {"absent"}] \cup {NoDialog}
  /\ busy \in Key \cup {NoKey} /\ missed \in BOOLEAN

-------------------------------------------------------------------------------
(* The server *)

Change(t) == version < MaxVersions[kind] /\ past' = Append(past, t)

\* only a pending row can be decided; the last admin stays one
Permits(t, k, as) ==
  CASE as \in {"pending", "new"} -> t[k] = "absent"
    [] as \in Decisions          -> t[k] = "pending"
    [] OTHER -> t[k] \in Roles /\ (as = "admin" \/ \E a \in Key \ {k} : t[a] = "admin")

Becomes(as) == IF as = "new" THEN "analyst" ELSE as

Apply(k, as) == Permits(table, k, as) /\ Change([table EXCEPT ![k] = Becomes(as)])

\* what can be asked of the table, from this page or another
Requests ==
  CASE kind = "quarantine" -> Decisions
    [] kind = "users"      -> Roles \cup {"absent", "new"}
    [] OTHER               -> Decisions \cup {"pending"}

\* nobody is told of it
SomebodyElse ==
  /\ \E k \in Key, as \in Requests : Apply(k, as)
  /\ missed' = TRUE
  /\ UNCHANGED << kind, gets, component, badge, calls >>

\* a run's own proposal, or a file it held back; told says whether a notice follows
RunAdds(told) ==
  /\ \E k \in Key : table[k] = "absent" /\ Change([table EXCEPT ![k] = "pending"])
  /\ missed' = (missed \/ ~told)
  /\ UNCHANGED << kind, gets, component, badge, calls >>

-------------------------------------------------------------------------------
(* Loading *)

Get(here) == [since |-> version, mounted |-> here]

refetch(here) == gets' = Append(gets, Get(here)) /\ Len(gets') <= MaxGets

\* useEffect(refetch, [refreshKey]); the users' table ignores the refreshKey
ReviewRefresh(g) ==
  gets' = (IF kind = "users" THEN g ELSE Append(g, Get(TRUE))) /\ Len(gets') <= MaxGets

FreshComponent == entries' = NotLoaded /\ dialog' = NoDialog /\ busy' = NoKey

Orphan(s) == [i \in DOMAIN s |-> [s[i] EXCEPT !.mounted = FALSE]]

ReviewMount == FreshComponent /\ refetch(TRUE) /\ UNCHANGED calls

\* nothing is cancelled
ReviewUnmount == FreshComponent /\ gets' = Orphan(gets) /\ calls' = Orphan(calls)

\* setEntries, of a mounted component; onHashesChange and the like in any case
ReviewArrives(i, there) ==
  /\ i \in DOMAIN gets
  /\ gets' = RemoveAt(gets, i)
  /\ \E v \in gets[i].since..version :
       /\ entries' = IF gets[i].mounted THEN v ELSE entries
       /\ badge' = IF kind = "users" THEN badge ELSE v
       /\ missed' = IF v = version THEN missed /\ there /\ ~gets[i].mounted
                                   ELSE missed \/ v < badge \/ v < entries
  /\ UNCHANGED << kind, past, dialog, busy, calls >>

ReviewFails(i) ==
  /\ i \in DOMAIN gets
  /\ gets' = RemoveAt(gets, i)
  /\ missed' = TRUE
  /\ UNCHANGED << kind, past, entries, dialog, busy, badge, calls >>

-------------------------------------------------------------------------------
(* The admin *)

\* the rows with buttons
Offered ==
  IF entries = NotLoaded THEN {}
  ELSE {k \in Key : past[entries][k] \in (IF kind = "users" THEN Roles ELSE {"pending"})}

Send(k, as) ==
  /\ calls' = Append(calls, [key |-> k, as |-> as, answer |-> "none", mounted |-> TRUE])
  /\ Len(calls') <= MaxCalls[kind]

\* a row's button; the dialog is modal
OpenDialog ==
  /\ dialog = NoDialog
  /\ \E k \in Offered \ {busy}, as \in (IF kind = "users" THEN {"absent"} ELSE Decisions) :
       dialog' = [key |-> k, as |-> as]
  /\ UNCHANGED << kind, past, gets, entries, busy, badge, calls, missed >>

Cancel ==
  /\ dialog # NoDialog /\ dialog' = NoDialog
  /\ UNCHANGED << kind, past, gets, entries, busy, badge, calls, missed >>

\* the dialog stays open until the answer
runDecision == kind # "users" /\ busy' = dialog.key /\ UNCHANGED dialog

handleDelete == kind = "users" /\ dialog' = NoDialog /\ UNCHANGED busy

Confirm ==
  /\ dialog # NoDialog
  /\ Send(dialog.key, dialog.as)
  /\ runDecision \/ handleDelete
  /\ UNCHANGED << kind, past, gets, entries, badge, missed >>

handleSubmit == kind \in {"hashes", "corpus"} /\ \E k \in Key : Send(k, "pending")

handleCreate == kind = "users" /\ \E k \in Key : Send(k, "new")

handleRoleChange ==
  /\ kind = "users"
  /\ \E k \in Offered : \E as \in Roles \ {past[entries][k]} : Send(k, as)

Submit ==
  /\ dialog = NoDialog
  /\ handleSubmit \/ handleCreate \/ handleRoleChange
  /\ UNCHANGED << kind, past, gets, entries, dialog, busy, badge, missed >>

Serve(i) ==
  /\ i \in DOMAIN calls /\ calls[i].answer = "none"
  /\ LET c == calls[i]
     IN \/ Apply(c.key, c.as) /\ calls' = [calls EXCEPT ![i].answer = "ok"]
        \/ /\ ~Permits(table, c.key, c.as)
           /\ calls' = [calls EXCEPT ![i].answer = "no"] /\ UNCHANGED past
  /\ UNCHANGED << kind, gets, component, badge, missed >>

Decided(i) == calls[i].as \in Decisions

\* finally { setBusyHash(null); setPendingAction(null) }
Finally(i) ==
  IF calls[i].mounted /\ Decided(i) THEN busy' = NoKey /\ dialog' = NoDialog
                                    ELSE UNCHANGED << busy, dialog >>

\* Mutant: the table is not loaded again
Reloaded_Not(i) == gets
Reloaded(i) == Append(gets, Get(calls[i].mounted))

\* refetch(), which a table mounted since does not see; for a decision it is part
\* of onDecision (Tables)
Served(i) ==
  /\ i \in DOMAIN calls /\ calls[i].answer = "ok"
  /\ calls' = RemoveAt(calls, i)
  /\ IF Decided(i) THEN TRUE ELSE gets' = Reloaded(i) /\ Len(gets') <= MaxGets
  /\ missed' = (missed \/ (~calls[i].mounted /\ ~Decided(i)))
  /\ Finally(i)
  /\ UNCHANGED << kind, past, entries, badge >>

\* a row decided already, or a lost answer: an error is shown and nothing loaded
CallFails(i) ==
  /\ i \in DOMAIN calls
  /\ calls' = RemoveAt(calls, i)
  /\ missed' = (missed \/ calls[i].answer = "ok")
  /\ Finally(i)
  /\ UNCHANGED << kind, past, gets, entries, badge >>
===============================================================================
