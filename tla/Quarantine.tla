------------------------------ MODULE Quarantine ------------------------------
(***************************************************************************)
(* The backend's side of interception: backend/intercept_handlers.go and   *)
(* the quarantined_files table of backend/quarantine.go.  Each operation   *)
(* here is one SQL statement, hence one step.                              *)
(***************************************************************************)
EXTENDS Naturals, Sequences

CONSTANTS
  Path,         \* original_path values
  Content,      \* file contents, told apart by their hash
  MaxRows       \* bound: rows inserted in a behaviour

VARIABLE rows   \* quarantined_files, row id q at index q

Verdicts == {"Normal", "Suspicious", "Inconclusive", "Compromised"}

Rows == [content : Content, path : Path, status : {"pending", "approved", "rejected"}]

QuarantineTypeOK == rows \in Seq(Rows)

\* Mutant: an inconclusive run counts as clean.
decisionForVerdict_Lax(v) ==
  CASE v \in {"Normal", "Inconclusive"} -> "release"
    [] v = "Compromised" -> "block"
    [] OTHER -> "hold"

decisionForVerdict(v) ==
  CASE v = "Normal" -> "release"
    [] v = "Compromised" -> "block"
    [] OTHER -> "hold"

\* Mutant: the row starts in a state the schema's CHECK does not know.
InsertQuarantine_Held(c, p) ==
  /\ Len(rows) < MaxRows
  /\ rows' = Append(rows, [content |-> c, path |-> p, status |-> "held"])

\* insertQuarantine: the new row's id is Len(rows) + 1.
InsertQuarantine(c, p) ==
  /\ Len(rows) < MaxRows
  /\ rows' = Append(rows, [content |-> c, path |-> p, status |-> "pending"])

\* decideQuarantine: UPDATE ... WHERE id = q AND status = 'pending'; an
\* already decided row is left alone and the handler answers 404.
DecideQuarantine(q, s) ==
  /\ rows[q].status = "pending"
  /\ rows' = [rows EXCEPT ![q].status = s]

\* quarantineStatusHandler, which the daemon asks about a held file
StatusOf(q) == rows[q].status

\* An admin approves or rejects any pending row.
AdminDecides ==
  \E q \in DOMAIN rows : \E s \in {"approved", "rejected"} : DecideQuarantine(q, s)
===============================================================================
