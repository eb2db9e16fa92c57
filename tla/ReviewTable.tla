------------------------------ MODULE ReviewTable ------------------------------
(***************************************************************************)
(* The two tables an admin reviews: known_bad_hashes                       *)
(* (verdict-engine/hash_lookup.py) and known_bad_samples                   *)
(* (verdict-engine/corpus_lookup.py).  Both are keyed by the SHA-256 of a  *)
(* file, have a unique key, and decide a row under SELECT ... FOR UPDATE   *)
(* in one transaction, so a decision is one step.                          *)
(***************************************************************************)

Status == {"absent", "pending", "approved", "rejected"}
Source == {"none", "auto", "manual"}
Row == [status : Status, source : Source]
NoRow == [status |-> "absent", source |-> "none"]

\* propose_hash, propose_sample: an existing row is an error and stays as it is.
\* Mutant: the proposal overwrites the row.
Propose_Upsert(table, key, source) ==
  [table EXCEPT ![key] = [status |-> "pending", source |-> source]]
Propose(table, key, source) ==
  IF table[key].status = "absent"
    THEN [table EXCEPT ![key] = [status |-> "pending", source |-> source]]
    ELSE table

\* _decide: only a pending row can be decided.
Decidable(table, key) == table[key].status = "pending"
Decide(table, key, status) == [table EXCEPT ![key].status = status]

\* check_hash, load_known_bad: only an approved row counts.
\* Mutant: a proposal counts.
Matches_Proposed(table, key) == table[key].status \in {"pending", "approved"}
Matches(table, key) == table[key].status = "approved"
===============================================================================
