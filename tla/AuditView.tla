------------------------------ MODULE AuditView ------------------------------
(***************************************************************************)
(* The audit log's table (frontend/src/components/AuditLogTable.tsx) and   *)
(* the log it shows.  Entries are numbered; the server's answer is how     *)
(* many there are.  Several requests may be out at once: an answer may be  *)
(* as old as its request or as new as its arrival, and answers arrive in   *)
(* any order.  The actions say nothing of the rest of the page (Tables).   *)
(***************************************************************************)
EXTENDS Integers, Sequences, SequencesExt, FiniteSets

CONSTANTS
  PAGE_SIZE,
  Matching,   \* the entries that the reader's query finds
  MaxRows,    \* bound: entries of the log
  MaxLoads    \* bound: requests under way

ASSUME PageSizeAssumption == PAGE_SIZE \in Nat \ {0}

ASSUME MaxRowsAssumption == MaxRows \in Nat \ {0}

ASSUME MaxLoadsAssumption == MaxLoads \in Nat \ {0}

VARIABLES
  log,        \* server: how many entries the audit log has
  loads,      \* requests under way: how many it had when each was sent
  rows,       \* how many entries the table has
  query, sortOrder, page,
  unseen,     \* history: entries of this reading not yet on the screen
  shrunk,     \* history: an old answer has taken entries away since it began
  owed,       \* history: the log of the newest notice the table has refreshed for
  fresh       \* history: an answer has arrived since

reading == << query, sortOrder, page, unseen, shrunk >>
auditVars == << log, loads, rows, reading, owed, fresh >>

AuditTypeOK ==
  /\ {log, rows, owed} \subseteq 0..MaxRows
  /\ loads \in Seq(0..MaxRows) /\ Len(loads) <= MaxLoads
  /\ {query, shrunk, fresh} \subseteq BOOLEAN /\ sortOrder \in {"newest", "oldest"}
  /\ page \in 0..MaxRows /\ unseen \subseteq 1..MaxRows

-------------------------------------------------------------------------------
(* What is on the screen *)

matchesQuery(e, q) == q => e \in Matching

\* the rows that match
filtered(n, q) == {e \in 1..n : matchesQuery(e, q)}

\* those above a row, with the newest first or the oldest
above(e, f, order) == {m \in f : IF order = "newest" THEN m > e ELSE m < e}

pageCount(f) == IF f = {} THEN 1 ELSE (Cardinality(f) + PAGE_SIZE - 1) \div PAGE_SIZE

currentPage(f, p) == IF p < pageCount(f) THEN p ELSE pageCount(f) - 1

pageOf(e, f, order) == Cardinality(above(e, f, order)) \div PAGE_SIZE

pageRows(f, order, p) == {e \in f : pageOf(e, f, order) = currentPage(f, p)}

\* A reading begins on the first page and with a new query or order.
Show(n, q, order, p) ==
  LET f == filtered(n, q)
      begins == currentPage(f, p) = 0 \/ q # query \/ order # sortOrder
  IN /\ rows' = n /\ query' = q /\ sortOrder' = order /\ page' = p
     /\ unseen' = (IF begins THEN f ELSE unseen) \ pageRows(f, order, p)
     /\ shrunk' = (~begins /\ (shrunk \/ n < rows))

-------------------------------------------------------------------------------
(* Requests *)

\* mounted, loading, nothing to show yet
AuditMounted ==
  /\ rows' = 0 /\ query' = FALSE /\ sortOrder' = "newest" /\ page' = 0
  /\ unseen' = {} /\ shrunk' = FALSE

AuditMount == AuditMounted /\ loads' = << log >> /\ owed' = 0 /\ fresh' = FALSE

\* the effect's cleanup
AuditUnmount == AuditMounted /\ loads' = << >> /\ owed' = 0 /\ fresh' = FALSE

\* Mutant: the effect has no cleanup
AuditRefresh_KeepsOld(n) ==
  /\ loads' = Append(loads, log) /\ Len(loads') <= MaxLoads
  /\ owed' = n /\ fresh' = FALSE
  /\ UNCHANGED << rows, reading >>

\* a new refreshKey, for a notice of entry n: cleanup, load, a new timer
AuditRefresh(n) ==
  /\ loads' = << log >>
  /\ owed' = n /\ fresh' = FALSE
  /\ UNCHANGED << rows, reading >>

\* Mutant: no setInterval
AuditPoll_Never == FALSE /\ UNCHANGED auditVars

\* setInterval(load, 5000)
AuditPoll ==
  /\ loads' = Append(loads, log) /\ Len(loads') <= MaxLoads
  /\ UNCHANGED << log, rows, reading, owed, fresh >>

\* setRows
AuditArrives(i) ==
  /\ i \in DOMAIN loads
  /\ \E n \in loads[i]..log : Show(n, query, sortOrder, page)
  /\ loads' = RemoveAt(loads, i)
  /\ fresh' = TRUE
  /\ UNCHANGED << log, owed >>

\* the error is shown above the table, which stays as it was
AuditFails(i) ==
  /\ i \in DOMAIN loads
  /\ loads' = RemoveAt(loads, i)
  /\ UNCHANGED << log, rows, reading, owed, fresh >>

-------------------------------------------------------------------------------
(* The reader *)

shown == filtered(rows, query)
here == currentPage(shown, page)

handleQueryChange == Show(rows, ~query, sortOrder, 0)

Other(order) == IF order = "newest" THEN "oldest" ELSE "newest"

\* Mutant: the page is kept
toggleSortOrder_KeepsPage == Show(rows, query, Other(sortOrder), page)
toggleSortOrder == Show(rows, query, Other(sortOrder), 0)

Previous == here > 0 /\ Show(rows, query, sortOrder, page - 1)

NextPage == here < pageCount(shown) - 1 /\ Show(rows, query, sortOrder, page + 1)

Read ==
  /\ handleQueryChange \/ toggleSortOrder \/ Previous \/ NextPage
  /\ UNCHANGED << log, loads, owed, fresh >>
===============================================================================
