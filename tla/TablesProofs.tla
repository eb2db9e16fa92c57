----------------------------- MODULE TablesProofs -----------------------------
(***************************************************************************)
(* Proofs about Tables.  The audit log's rows: a notice of an entry drops  *)
(* the requests for the log that are under way and sends a new one, so     *)
(* that every request whose answer may still be shown was sent when the    *)
(* log had that entry; and an answer is never older than its request.  Its *)
(* pages: whatever the reader has not seen of a reading is on a later page *)
(* than the one the reader is on, and arrivals only move rows to later     *)
(* pages.  The table of rows to act on: what it shows is the server's, or  *)
(* explained.  Last, the types of the page.                                *)
(***************************************************************************)
EXTENDS Tables, SequenceTheorems, FiniteSetTheorems, TLAPS

NoticeType ==
  /\ {log, rows, owed} \subseteq Nat
  /\ loads \in Seq(Nat) /\ inbox \in Seq(Nat)

\* Nothing is announced, or owed, that the log does not have.
Announced == owed <= log /\ \A i \in 1..Len(inbox) : inbox[i] <= log

\* Every request that may still be shown will bring what is owed.
Sufficient == tab = "audit" => \A i \in 1..Len(loads) : owed <= loads[i]

NoticeInv == NoticeType /\ Announced /\ Sufficient /\ NeverBehindItsNotice

-------------------------------------------------------------------------------
(* Lemmas about the operators *)

\* What RemoveAt leaves was there before, and it leaves all but one.
LEMMA RemoveAtElements ==
  ASSUME NEW S, NEW s \in Seq(S), NEW i \in 1..Len(s)
  PROVE  /\ RemoveAt(s, i) \in Seq(S)
         /\ \A j \in 1..Len(RemoveAt(s, i)) : \E k \in 1..Len(s) : RemoveAt(s, i)[j] = s[k]
         /\ \A k \in 1..Len(s) : k # i => \E j \in 1..Len(RemoveAt(s, i)) : RemoveAt(s, i)[j] = s[k]
<1> DEFINE a == SubSeq(s, 1, i - 1)
           b == SubSeq(s, i + 1, Len(s))
<1>1. Len(s) \in Nat /\ i \in Nat /\ i - 1 \in 0..Len(s)
  OBVIOUS
<1>2. a \in Seq(S) /\ Len(a) = i - 1 /\ \A j \in 1..(i - 1) : a[j] = s[j]
  BY <1>1
<1>3. b \in Seq(S) /\ Len(b) = Len(s) - i /\ \A j \in 1..(Len(s) - i) : b[j] = s[i + j]
  BY <1>1
<1>4. RemoveAt(s, i) = a \o b
  BY DEF RemoveAt
<1> HIDE DEF a, b
<1>5. a \o b \in Seq(S) /\ Len(a \o b) = Len(s) - 1
  <2>1. a \o b \in Seq(S) /\ Len(a \o b) = Len(a) + Len(b)
    BY <1>2, <1>3, ConcatProperties
  <2>2. Len(a) + Len(b) = Len(s) - 1
    BY <1>1, <1>2, <1>3
  <2>3. QED
    BY <2>1, <2>2
<1>6. ASSUME NEW j \in 1..(Len(s) - 1)
      PROVE  \E k \in 1..Len(s) : (a \o b)[j] = s[k]
  <2>1. CASE j <= i - 1
    <3>1. j \in 1..Len(a) /\ j \in 1..(i - 1) /\ j \in 1..Len(s)
      BY <1>1, <1>2, <2>1
    <3>2. (a \o b)[j] = a[j]
      BY <1>2, <1>3, <3>1, ConcatProperties
    <3>3. QED
      BY <1>2, <3>1, <3>2
  <2>2. CASE j > i - 1
    <3>1. j - (i - 1) \in 1..(Len(s) - i) /\ j + 1 \in 1..Len(s) /\ i + (j - (i - 1)) = j + 1
      BY <1>1, <2>2
    <3>2. j \in 1 .. Len(a) + Len(b) /\ ~(j <= Len(a)) /\ j - Len(a) = j - (i - 1)
      BY <1>1, <1>2, <1>3, <2>2
    <3>3. (a \o b)[j] = b[j - Len(a)]
      BY <1>2, <1>3, <3>2, ConcatProperties
    <3>4. (a \o b)[j] = b[j - (i - 1)]
      BY <3>2, <3>3
    <3>5. b[j - (i - 1)] = s[j + 1]
      BY <1>3, <3>1
    <3>6. QED
      BY <3>1, <3>4, <3>5
  <2>3. j <= i - 1 \/ j > i - 1
    BY <1>1
  <2>4. QED
    BY <2>1, <2>2, <2>3
<1>7. ASSUME NEW k \in 1..Len(s), k # i
      PROVE  \E j \in 1..(Len(s) - 1) : (a \o b)[j] = s[k]
  <2>1. CASE k < i
    <3>1. k \in 1..Len(a) /\ k \in 1..(i - 1) /\ k \in 1..(Len(s) - 1)
      BY <1>1, <1>2, <2>1
    <3>2. (a \o b)[k] = a[k]
      BY <1>2, <1>3, <3>1, ConcatProperties
    <3>3. QED
      BY <1>2, <3>1, <3>2
  <2>2. CASE k > i
    <3>1. k - i \in 1..(Len(s) - i) /\ k - 1 \in 1..(Len(s) - 1) /\ i + (k - i) = k
      BY <1>1, <2>2
    <3>2. k - 1 \in 1..(Len(a) + Len(b)) /\ ~(k - 1 <= Len(a)) /\ (k - 1) - Len(a) = k - i
      BY <1>1, <1>2, <1>3, <2>2
    <3>3. (a \o b)[k - 1] = b[k - i]
      BY <1>2, <1>3, <3>2, ConcatProperties
    <3>4. QED
      BY <1>3, <3>1, <3>3
  <2>3. k < i \/ k > i
    BY <1>1, <1>7
  <2>4. QED
    BY <2>1, <2>2, <2>3
<1>8. QED
  BY <1>4, <1>5, <1>6, <1>7

\* What the invariant is about.
auditNotice == << log, loads, rows, owed, fresh, inbox, tab >>

\* A step that leaves all of that as it was.
LEMMA NothingNew ==
  ASSUME NoticeInv, UNCHANGED auditNotice PROVE NoticeInv'
BY DEF auditNotice, NoticeInv, NoticeType, Announced, Sufficient, NeverBehindItsNotice, here, shown

-------------------------------------------------------------------------------
(* The steps *)

\* The log grows and nothing else happens to the audit log's table.
LEMMA LogGrows ==
  ASSUME NoticeInv, log' \in Nat, log <= log', UNCHANGED << loads, rows, owed, fresh, inbox, tab >>
  PROVE  NoticeInv'
<1> USE DEF NoticeInv, NoticeType, Announced, Sufficient, NeverBehindItsNotice
<1>1. NoticeType'
  OBVIOUS
<1>2. Announced'
  OBVIOUS
<1>3. QED
  BY <1>1, <1>2

\* A new request is sent for what is owed now and the others are dropped.
LEMMA RefreshStep ==
  ASSUME NoticeInv, NEW n \in Nat, n <= log, AuditRefresh(n), inbox' \in Seq(Nat), UNCHANGED log,
         \A i \in 1..Len(inbox') : inbox'[i] <= log
  PROVE  NoticeInv'
<1> USE DEF NoticeInv, NoticeType, Announced, Sufficient, NeverBehindItsNotice, AuditRefresh
<1>1. loads' = << log >> /\ owed' = n /\ fresh' = FALSE /\ rows' = rows
  OBVIOUS
<1>2. NoticeType' /\ Announced' /\ Sufficient'
  BY <1>1
<1>3. NeverBehindItsNotice'
  BY <1>1
<1>4. QED
  BY <1>2, <1>3

\* Every step keeps the invariant.
LEMMA NoticeStep == NoticeInv /\ [Next]_vars => NoticeInv'
<1> SUFFICES ASSUME NoticeInv, [Next]_vars PROVE NoticeInv'
  OBVIOUS
<1>t. /\ log \in Nat /\ rows \in Nat /\ owed \in Nat /\ loads \in Seq(Nat) /\ inbox \in Seq(Nat)
      /\ owed <= log /\ \A i \in 1..Len(inbox) : inbox[i] <= log
  BY DEF NoticeInv, NoticeType, Announced
<1>1. CASE Score
  <2>1. log' = log + 1 /\ UNCHANGED << loads, rows, owed, fresh, inbox, tab >>
    BY <1>1 DEF Score
  <2>2. QED
    BY <1>t, <2>1, LogGrows
<1>2. CASE Announce
  <2>1. inbox' = Append(inbox, log) \/ UNCHANGED inbox
    BY <1>2 DEF Announce
  <2>2. UNCHANGED << log, loads, rows, owed, fresh, tab >>
    BY <1>2 DEF Announce, auditVars
  <2>3. inbox' \in Seq(Nat) /\ \A i \in 1..Len(inbox') : inbox'[i] <= log
    <3>1. CASE UNCHANGED inbox
      BY <1>t, <3>1
    <3>2. CASE inbox' = Append(inbox, log)
      BY <1>t, <3>2
    <3>3. QED
      BY <2>1, <3>1, <3>2
  <2>4. QED
    BY <2>2, <2>3 DEF NoticeInv, NoticeType, Announced, Sufficient, NeverBehindItsNotice
<1>3. CASE Hold \/ NothingToHold
  <2>1. UNCHANGED auditNotice
    BY <1>3 DEF Hold, NothingToHold, auditVars, auditNotice
  <2>2. QED
    BY <2>1, NothingNew
<1>4. CASE ServerChanges
  <2>1. log' \in {log, log + 1} /\ UNCHANGED << loads, rows, owed, fresh, inbox, tab >>
    BY <1>4 DEF ServerChanges
  <2>2. log' \in Nat /\ log <= log'
    BY <1>t, <2>1
  <2>3. QED
    BY <2>1, <2>2, LogGrows
<1>5. CASE Notice
  <2>1. inbox # << >> /\ inbox' = Tail(inbox) /\ UNCHANGED tab
    BY <1>5 DEF Notice
  <2>2. /\ inbox' \in Seq(Nat) /\ \A i \in 1..Len(inbox') : inbox'[i] <= log
        /\ Head(inbox) \in Nat /\ Head(inbox) <= log
    BY <1>t, <2>1
  <2>3. CASE AuditRefresh(Head(inbox)) /\ UNCHANGED log
    BY <2>2, <2>3, RefreshStep
  <2>4. CASE UNCHANGED auditVars
    BY <2>1, <2>2, <2>4 DEF NoticeInv, NoticeType, Announced, Sufficient, NeverBehindItsNotice, auditVars
  <2>5. QED
    BY <1>5, <2>3, <2>4 DEF Notice
<1>6. CASE Poll
  <2>1. loads' = Append(loads, log) /\ UNCHANGED << log, rows, owed, fresh, inbox, tab >>
    BY <1>6 DEF Poll, AuditPoll
  <2>2. QED
    BY <1>t, <2>1 DEF NoticeInv, NoticeType, Announced, Sufficient, NeverBehindItsNotice
<1>7. CASE Reader
  <2>1. UNCHANGED auditNotice
    BY <1>7 DEF Reader, Read, handleQueryChange, toggleSortOrder, Previous, NextPage, Show, auditNotice
  <2>2. QED
    BY <2>1, NothingNew
<1>8. CASE Admin
  <2>1. UNCHANGED auditNotice
    BY <1>8 DEF Admin, auditVars, auditNotice
  <2>2. QED
    BY <2>1, NothingNew
<1>9. CASE SwitchTab
  <2>1. UNCHANGED << log, inbox >> /\ rows' = 0 /\ owed' = 0 /\ fresh' = FALSE /\ loads' \in {<< log >>, << >>}
    BY <1>9 DEF SwitchTab, AuditMount, AuditUnmount, AuditMounted
  <2>2. loads' \in Seq(Nat) /\ \A i \in 1..Len(loads') : loads'[i] \in Nat
    <3>1. CASE loads' = << >>
      BY <3>1
    <3>2. CASE loads' = << log >>
      BY <1>t, <3>2
    <3>3. QED
      BY <2>1, <3>1, <3>2
  <2>3. QED
    BY <1>t, <2>1, <2>2 DEF NoticeInv, NoticeType, Announced, Sufficient, NeverBehindItsNotice
<1>10. ASSUME NEW i \in DOMAIN loads, AuditAnswer(i) PROVE NoticeInv'
  <2>1. /\ loads' = RemoveAt(loads, i)
        /\ UNCHANGED << log, owed, inbox, tab >>
        /\ \/ UNCHANGED << rows, fresh >>
           \/ \E n \in loads[i]..log : rows' = n
    BY <1>10 DEF AuditAnswer, AuditArrives, AuditFails, Show
  <2>2. i \in 1..Len(loads) /\ loads[i] \in Nat
    BY <1>t, <1>10
  <2>3. /\ loads' \in Seq(Nat)
        /\ \A j \in 1..Len(loads') : \E k \in 1..Len(loads) : loads'[j] = loads[k]
    BY <1>t, <2>1, <2>2, RemoveAtElements
  <2>4. Sufficient'
    BY <2>1, <2>3 DEF NoticeInv, Sufficient
  <2>5. rows' \in Nat /\ NeverBehindItsNotice'
    BY <1>t, <2>1, <2>2 DEF NoticeInv, Sufficient, NeverBehindItsNotice
  <2>6. QED
    BY <1>t, <2>1, <2>3, <2>4, <2>5 DEF NoticeInv, NoticeType, Announced
<1>11. ASSUME NEW i, ReviewAnswer(i) PROVE NoticeInv'
  <2>1. UNCHANGED auditNotice
    BY <1>11 DEF ReviewAnswer, auditVars, auditNotice
  <2>2. QED
    BY <2>1, NothingNew
<1>12. ASSUME NEW i, CallAnswered(i) PROVE NoticeInv'
  <2>1. UNCHANGED << log, inbox, tab >>
    BY <1>12 DEF CallAnswered, auditVars
  <2>2. \/ UNCHANGED << loads, rows, owed, fresh >>
        \/ AuditRefresh(owed)
    BY <1>12 DEF CallAnswered, onDecision, auditVars
  <2>3. CASE UNCHANGED << loads, rows, owed, fresh >>
    BY <2>1, <2>3, NothingNew DEF auditNotice
  <2>4. CASE AuditRefresh(owed)
    BY <1>t, <2>1, <2>4, RefreshStep
  <2>5. QED
    BY <2>2, <2>3, <2>4
<1>13. CASE UNCHANGED vars
  BY <1>13, NothingNew DEF vars, auditVars, auditNotice
<1>14. QED
  BY <1>1, <1>2, <1>3, <1>4, <1>5, <1>6, <1>7, <1>8, <1>9, <1>10, <1>11, <1>12, <1>13 DEF Next

\* Nothing is announced, owed or under way but the first load.
LEMMA NoticeInit == Init => NoticeInv
<1> SUFFICES ASSUME Init PROVE NoticeInv
  OBVIOUS
<1>1. /\ log \in Nat /\ rows = 0 /\ owed = 0 /\ fresh = FALSE /\ inbox = << >>
      /\ loads \in {<< log >>, << >>}
  BY MaxRowsAssumption, FirstRowsAssumption DEF Init
<1>2. loads \in Seq(Nat) /\ \A i \in 1..Len(loads) : loads[i] \in Nat
  <2>1. CASE loads = << >>
    BY <2>1
  <2>2. CASE loads = << log >>
    BY <1>1, <2>2
  <2>3. QED
    BY <1>1, <2>1, <2>2
<1>3. QED
  BY <1>1, <1>2 DEF NoticeInv, NoticeType, Announced, Sufficient, NeverBehindItsNotice

\* For any log, any number of requests, polls, notices, changes of tab and
\* decisions: once the audit log has been loaded for a verdict the page was told
\* of, no late answer takes that verdict away again (AuditLogTable.tsx:181-221).
THEOREM NeverBehind == Spec => []NeverBehindItsNotice
<1>1. Init => NoticeInv
  BY NoticeInit
<1>2. NoticeInv => NeverBehindItsNotice
  BY DEF NoticeInv
<1>3. QED
  BY <1>1, <1>2, NoticeStep, PTL DEF Spec

-------------------------------------------------------------------------------
(* Pages *)

\* A longer list has no fewer whole pages.
LEMMA DivMono ==
  ASSUME NEW a \in Nat, NEW b \in Nat, NEW k \in Nat \ {0}, a <= b
  PROVE  a \div k \in Nat /\ a \div k <= b \div k
BY SMTT(20)

\* A page more is a page more.
LEMMA DivStep ==
  ASSUME NEW a \in Nat, NEW k \in Nat \ {0}
  PROVE  a \div k \in Nat /\ (a + k) \div k = a \div k + 1
BY SMTT(20)

\* The rows that match, and those above one of them, can be counted.
LEMMA RowsCounted ==
  ASSUME NEW n \in Nat, NEW q, NEW order, NEW e
  PROVE  /\ IsFiniteSet(filtered(n, q)) /\ Cardinality(filtered(n, q)) \in Nat
         /\ IsFiniteSet(above(e, filtered(n, q), order))
         /\ Cardinality(above(e, filtered(n, q), order)) \in Nat
<1>1. IsFiniteSet(1..n)
  BY FS_Interval
<1>2. filtered(n, q) \subseteq 1..n /\ above(e, filtered(n, q), order) \subseteq 1..n
  BY DEF filtered, above
<1>3. IsFiniteSet(filtered(n, q)) /\ IsFiniteSet(above(e, filtered(n, q), order))
  BY <1>1, <1>2, FS_Subset
<1>4. QED
  BY <1>3, FS_CardinalityType

\* There is always a page, and every row is on one.
LEMMA PageBound ==
  ASSUME NEW n \in Nat, NEW q, NEW order
  PROVE  /\ pageCount(filtered(n, q)) \in Nat \ {0}
         /\ \A e \in filtered(n, q) :
              /\ pageOf(e, filtered(n, q), order) \in Nat
              /\ pageOf(e, filtered(n, q), order) <= pageCount(filtered(n, q)) - 1
<1> DEFINE f == filtered(n, q)
<1>1. IsFiniteSet(f) /\ Cardinality(f) \in Nat
  BY RowsCounted
<1>2. ASSUME f # {}
      PROVE  /\ Cardinality(f) - 1 \in Nat
             /\ pageCount(f) = ((Cardinality(f) - 1) \div PAGE_SIZE) + 1
             /\ (Cardinality(f) - 1) \div PAGE_SIZE \in Nat
  <2>1. Cardinality(f) # 0
    BY <1>1, <1>2, FS_EmptySet
  <2>2. Cardinality(f) - 1 \in Nat
    BY <1>1, <2>1
  <2>3. /\ ((Cardinality(f) - 1) + PAGE_SIZE) \div PAGE_SIZE = ((Cardinality(f) - 1) \div PAGE_SIZE) + 1
        /\ (Cardinality(f) - 1) \div PAGE_SIZE \in Nat
    BY <2>2, PageSizeAssumption, DivStep
  <2>4. Cardinality(f) + PAGE_SIZE - 1 = (Cardinality(f) - 1) + PAGE_SIZE
    BY <1>1, PageSizeAssumption
  <2>5. QED
    BY <1>2, <2>2, <2>3, <2>4 DEF pageCount
<1>3. pageCount(f) \in Nat \ {0}
  <2>1. CASE f = {}
    BY <2>1 DEF pageCount
  <2>2. CASE f # {}
    BY <1>2, <2>2
  <2>3. QED
    BY <2>1, <2>2
<1>4. ASSUME NEW e \in f
      PROVE  pageOf(e, f, order) \in Nat /\ pageOf(e, f, order) <= pageCount(f) - 1
  <2>1. above(e, f, order) \subseteq f \ {e}
    BY DEF above, filtered
  <2>2. IsFiniteSet(f \ {e}) /\ Cardinality(f \ {e}) = Cardinality(f) - 1
    BY <1>1, <1>4, FS_RemoveElement
  <2>3. Cardinality(above(e, f, order)) \in Nat /\ Cardinality(above(e, f, order)) <= Cardinality(f) - 1
    BY <2>1, <2>2, RowsCounted, FS_Subset
  <2>4. f # {}
    BY <1>4
  <2>5. /\ Cardinality(above(e, f, order)) \div PAGE_SIZE \in Nat
        /\ Cardinality(above(e, f, order)) \div PAGE_SIZE <= (Cardinality(f) - 1) \div PAGE_SIZE
    BY <1>2, <2>3, <2>4, PageSizeAssumption, DivMono
  <2>6. QED
    BY <1>2, <2>4, <2>5 DEF pageOf
<1>5. QED
  BY <1>3, <1>4

\* Arrivals leave a row where it is or move it to a later page, in either order.
LEMMA RowsMoveDown ==
  ASSUME NEW n \in Nat, NEW m \in Nat, n <= m, NEW q, NEW order, NEW e \in filtered(n, q)
  PROVE  /\ e \in filtered(m, q)
         /\ pageOf(e, filtered(n, q), order) <= pageOf(e, filtered(m, q), order)
<1>1. filtered(n, q) \subseteq filtered(m, q)
  BY DEF filtered
<1>2. above(e, filtered(n, q), order) \subseteq above(e, filtered(m, q), order)
  BY <1>1 DEF above
<1>3. /\ Cardinality(above(e, filtered(n, q), order)) \in Nat
      /\ Cardinality(above(e, filtered(m, q), order)) \in Nat
      /\ Cardinality(above(e, filtered(n, q), order)) <= Cardinality(above(e, filtered(m, q), order))
  BY <1>2, RowsCounted, FS_Subset
<1>4. QED
  BY <1>1, <1>3, PageSizeAssumption, DivMono DEF pageOf

-------------------------------------------------------------------------------
(* What the reader misses *)

\* What this reading still owes the reader is on later pages.
PagingInv ==
  /\ rows \in Nat /\ page \in Nat
  /\ ~shrunk => \A e \in unseen : e \in shown /\ pageOf(e, shown, sortOrder) > page

\* Showing other rows, or turning to the next page or an earlier one.
LEMMA ShowStep ==
  ASSUME PagingInv, NEW n \in Nat, NEW q, NEW order, NEW p \in Nat, Show(n, q, order, p),
         n = rows \/ p = page,
         (q = query /\ order = sortOrder) \/ p = 0,
         p <= page \/ (p = page + 1 /\ p < pageCount(filtered(n, q)))
  PROVE  PagingInv'
<1> DEFINE f == filtered(n, q)
           begins == currentPage(f, p) = 0 \/ q # query \/ order # sortOrder
<1>1. /\ rows' = n /\ query' = q /\ sortOrder' = order /\ page' = p
      /\ unseen' = (IF begins THEN f ELSE unseen) \ pageRows(f, order, p)
      /\ shrunk' = (~begins /\ (shrunk \/ n < rows))
  BY DEF Show
<1>2. shown' = f
  BY <1>1, Zenon DEF shown
<1>3. pageCount(f) \in Nat \ {0}
  BY PageBound
<1>4. ASSUME NEW e \in f, e \notin pageRows(f, order, p)
      PROVE  /\ pageOf(e, f, order) \in Nat /\ pageOf(e, f, order) <= pageCount(f) - 1
             /\ pageOf(e, f, order) # currentPage(f, p)
  BY <1>4, PageBound DEF pageRows
<1> SUFFICES ASSUME ~shrunk', NEW e \in unseen'
             PROVE  e \in f /\ pageOf(e, f, order) > p
  BY <1>1, <1>2 DEF PagingInv
<1>5. CASE begins
  <2>1. currentPage(f, p) = 0
    BY <1>3, <1>5 DEF currentPage
  <2>2. e \in f /\ e \notin pageRows(f, order, p)
    BY <1>1, <1>5
  <2>3. QED
    BY <1>3, <1>4, <2>1, <2>2 DEF currentPage
<1>6. CASE ~begins
  <2>1. e \in unseen /\ e \notin pageRows(f, order, p)
    BY <1>1, <1>6
  <2>2. ~shrunk /\ ~(n < rows)
    BY <1>1, <1>6, Zenon
  <2>3. q = query /\ order = sortOrder
    BY <1>6
  <2>4. e \in shown /\ pageOf(e, shown, sortOrder) > page
    BY <2>1, <2>2 DEF PagingInv
  <2>5. rows \in Nat /\ page \in Nat /\ rows <= n
    BY <2>2 DEF PagingInv
  <2>6. e \in filtered(rows, q) /\ pageOf(e, filtered(rows, q), order) > page
    BY <2>3, <2>4 DEF shown
  <2>7. e \in f /\ pageOf(e, filtered(rows, q), order) <= pageOf(e, f, order)
    BY <2>5, <2>6, RowsMoveDown
  <2>8. pageOf(e, filtered(rows, q), order) \in Nat
    BY <2>5, <2>6, PageBound
  <2>9. pageOf(e, f, order) > page /\ pageOf(e, f, order) # currentPage(f, p)
    BY <1>4, <2>1, <2>5, <2>6, <2>7, <2>8
  <2>10. pageOf(e, f, order) \in Nat
    BY <1>4, <2>1, <2>7
  <2> HIDE DEF f
  <2>11. CASE p <= page
    BY <2>5, <2>7, <2>9, <2>10, <2>11
  <2>12. CASE p = page + 1 /\ p < pageCount(f)
    BY <2>5, <2>7, <2>9, <2>10, <2>12 DEF currentPage
  <2>13. QED
    BY <2>11, <2>12 DEF f
<1>7. QED
  BY <1>5, <1>6

\* A step that shows nothing else.
LEMMA NothingShown ==
  ASSUME PagingInv, UNCHANGED << rows, reading >> PROVE PagingInv'
<1>1. UNCHANGED << rows, query, sortOrder, page, unseen, shrunk >>
  BY DEF reading
<1>2. shown' = shown
  BY <1>1, Zenon DEF shown
<1>3. QED
  BY <1>1, <1>2 DEF PagingInv

\* Every step keeps the invariant.
LEMMA PagingStep == NoticeType /\ PagingInv /\ [Next]_vars => PagingInv'
<1> SUFFICES ASSUME NoticeType, PagingInv, [Next]_vars PROVE PagingInv'
  OBVIOUS
<1>t. rows \in Nat /\ page \in Nat /\ log \in Nat /\ loads \in Seq(Nat)
  BY DEF NoticeType, PagingInv
<1>1. CASE Score \/ Announce \/ Hold \/ NothingToHold \/ ServerChanges \/ Notice \/ Poll \/ Admin
  <2>1. UNCHANGED << rows, reading >>
    BY <1>1 DEF Score, Announce, Hold, NothingToHold, ServerChanges, Notice, Poll, Admin,
                auditVars, AuditRefresh, AuditPoll
  <2>2. QED
    BY <2>1, NothingShown
<1>2. CASE Reader
  <2>1. pageCount(shown) \in Nat \ {0} /\ shown = filtered(rows, query)
    BY <1>t, PageBound DEF shown
  <2>2. CASE handleQueryChange
    <3>1. Show(rows, ~query, sortOrder, 0) /\ 0 <= page
      BY <1>t, <2>2 DEF handleQueryChange
    <3>2. QED
      BY <1>t, <3>1, ShowStep
  <2>3. CASE toggleSortOrder
    <3>1. Show(rows, query, Other(sortOrder), 0) /\ 0 <= page
      BY <1>t, <2>3 DEF toggleSortOrder
    <3>2. QED
      BY <1>t, <3>1, ShowStep
  <2>4. CASE Previous
    <3>1. Show(rows, query, sortOrder, page - 1)
      BY <2>4 DEF Previous
    <3>2. page - 1 \in Nat /\ page - 1 <= page
      BY <1>t, <2>1, <2>4 DEF Previous, here, currentPage
    <3>3. QED
      BY <1>t, <3>1, <3>2, ShowStep
  <2>5. CASE NextPage
    <3>1. Show(rows, query, sortOrder, page + 1) /\ here < pageCount(shown) - 1
      BY <2>5 DEF NextPage
    <3>2. page + 1 \in Nat /\ page + 1 < pageCount(filtered(rows, query))
      BY <1>t, <2>1, <3>1 DEF here, currentPage
    <3>3. QED
      BY <1>t, <3>1, <3>2, ShowStep
  <2>6. QED
    BY <1>2, <2>2, <2>3, <2>4, <2>5 DEF Reader, Read
<1>3. CASE SwitchTab
  <2>1. rows' = 0 /\ page' = 0 /\ unseen' = {}
    BY <1>3 DEF SwitchTab, AuditMount, AuditUnmount, AuditMounted
  <2>2. QED
    BY <2>1 DEF PagingInv
<1>4. ASSUME NEW i \in DOMAIN loads, AuditAnswer(i) PROVE PagingInv'
  <2>1. i \in 1..Len(loads) /\ loads[i] \in Nat
    BY <1>t, <1>4
  <2>2. CASE AuditFails(i)
    <3>1. UNCHANGED << rows, reading >>
      BY <2>2 DEF AuditFails
    <3>2. QED
      BY <3>1, NothingShown
  <2>3. CASE AuditArrives(i)
    <3>1. PICK n \in loads[i]..log : Show(n, query, sortOrder, page)
      BY <2>3 DEF AuditArrives
    <3>2. n \in Nat /\ page <= page
      BY <1>t, <2>1
    <3>3. QED
      BY <1>t, <3>1, <3>2, ShowStep
  <2>4. QED
    BY <1>4, <2>2, <2>3 DEF AuditAnswer
<1>5. ASSUME NEW i, ReviewAnswer(i) \/ CallAnswered(i) PROVE PagingInv'
  <2>1. UNCHANGED << rows, reading >>
    BY <1>5 DEF ReviewAnswer, CallAnswered, onDecision, AuditRefresh, auditVars
  <2>2. QED
    BY <2>1, NothingShown
<1>6. CASE UNCHANGED vars
  BY <1>6, NothingShown DEF vars, auditVars
<1>7. QED
  BY <1>1, <1>2, <1>3, <1>4, <1>5, <1>6 DEF Next

\* For any log, page size, query and order, and however answers, notices and
\* turned pages interleave: whoever pages from the first page to the last has had
\* every entry on the screen that the table had at the start, unless an old
\* answer took entries away (AuditLogTable.tsx:229-248).
THEOREM PagesMissNothing == Spec => []PagingMissesNothing
<1>1. Init => NoticeInv /\ PagingInv
  BY NoticeInit DEF Init, PagingInv
<1>2. NoticeInv /\ PagingInv /\ [Next]_vars => (NoticeInv /\ PagingInv)'
  BY NoticeStep, PagingStep DEF NoticeInv
<1>3. PagingInv => PagingMissesNothing
  <2> SUFFICES ASSUME PagingInv, here = pageCount(shown) - 1, ~shrunk, NEW e \in unseen
               PROVE  FALSE
    BY DEF PagingMissesNothing
  <2>1. shown = filtered(rows, query) /\ rows \in Nat /\ page \in Nat
    BY DEF shown, PagingInv
  <2>2. e \in shown /\ pageOf(e, shown, sortOrder) > page
    BY DEF PagingInv
  <2>3. /\ pageCount(shown) \in Nat \ {0} /\ pageOf(e, shown, sortOrder) \in Nat
        /\ pageOf(e, shown, sortOrder) <= pageCount(shown) - 1
    BY <2>1, <2>2, PageBound
  <2>4. pageCount(shown) - 1 <= page
    BY <2>1, <2>3 DEF here, currentPage
  <2>5. QED
    BY <2>1, <2>2, <2>3, <2>4
<1>4. QED
  BY <1>1, <1>2, <1>3, PTL DEF Spec

-------------------------------------------------------------------------------
(* The table of rows to act on: its types *)

States == {"absent", "pending"} \cup Decisions \cup Roles
Versions == [Key -> States]
Gets == [since : 1..MaxVersions[kind], mounted : BOOLEAN]
Calls == [key : Key, as : Requests, answer : {"none", "ok", "no"}, mounted : BOOLEAN]

\* ReviewTypeOK, one variable at a time, and with the calls and the versions that
\* are only referred to once they exist.
ReviewTyped ==
  /\ kind \in Kind
  /\ past \in Seq(Versions) /\ Len(past) \in 1..MaxVersions[kind]
  /\ gets \in Seq(Gets) /\ \A i \in 1..Len(gets) : gets[i].since <= Len(past)
  /\ entries \in 0..Len(past) /\ badge \in 0..Len(past)
  /\ dialog # NoDialog => dialog \in [key : Key, as : Requests \cap (Decisions \cup {"absent"})]
  /\ busy \in Key \cup {NoKey} /\ missed \in BOOLEAN
  /\ calls \in Seq(Calls)

\* The table that a request would find is a version, and so is each change of a row.
LEMMA TableType ==
  ASSUME ReviewTyped
  PROVE  /\ MaxVersions[kind] \in Nat \ {0}
         /\ version \in 1..MaxVersions[kind] /\ table \in Versions
         /\ \A k \in Key, x \in States : [table EXCEPT ![k] = x] \in Versions
<1>1. Len(past) \in Nat \ {0} /\ past \in Seq(Versions)
  BY VersionsAssumption DEF ReviewTyped
<1>2. past[Len(past)] \in Versions
  BY <1>1
<1>3. table \in Versions
  BY <1>2 DEF table, version
<1>4. \A k \in Key, x \in States : [table EXCEPT ![k] = x] \in Versions
  BY <1>3 DEF Versions
<1>5. QED
  BY <1>3, <1>4, VersionsAssumption DEF ReviewTyped, version

\* What is asked for becomes a state of the row.
LEMMA BecomesType == ASSUME NEW as \in Requests PROVE Becomes(as) \in States
<1>1. Requests \subseteq Decisions \cup Roles \cup {"absent", "new", "pending"}
  BY DEF Requests
<1>2. QED
  BY <1>1 DEF Becomes, States, Roles, Decisions

\* A version more, of the same table.
LEMMA ChangeStep ==
  ASSUME ReviewTyped, NEW t \in Versions, Change(t), UNCHANGED kind
  PROVE  /\ past' \in Seq(Versions)' /\ Len(past') = Len(past) + 1
         /\ Len(past') \in 1..MaxVersions[kind']
<1>1. past \in Seq(Versions) /\ past' = Append(past, t) /\ version < MaxVersions[kind]
  BY DEF Change, ReviewTyped
<1>2. past' \in Seq(Versions) /\ Len(past') = Len(past) + 1
  BY <1>1, AppendProperties
<1>3. Versions' = Versions
  BY Zenon DEF Versions, Key
<1>4. Len(past) \in Nat /\ MaxVersions[kind] \in Nat
  BY TableType DEF ReviewTyped
<1>5. Len(past) + 1 \in 1..MaxVersions[kind]
  BY <1>1, <1>4 DEF version
<1>6. QED
  BY <1>2, <1>3, <1>5

\* Any sequence of requests for the table is of requests for it as it is now.
LEMMA AppendGets ==
  ASSUME ReviewTyped, NEW g \in Seq(Gets), \A i \in 1..Len(g) : g[i].since <= Len(past),
         NEW seen \in BOOLEAN
  PROVE  /\ Append(g, Get(seen)) \in Seq(Gets)
         /\ Len(Append(g, Get(seen))) = Len(g) + 1
         /\ \A i \in 1..Len(g) : Append(g, Get(seen))[i] = g[i]
         /\ Append(g, Get(seen))[Len(g) + 1] = [since |-> Len(past), mounted |-> seen]
         /\ \A i \in 1..Len(Append(g, Get(seen))) : Append(g, Get(seen))[i].since <= Len(past)
<1>1. Get(seen) = [since |-> Len(past), mounted |-> seen]
  BY DEF Get, version
<1>2. Get(seen) \in Gets /\ Len(past) \in Nat
  BY <1>1, TableType DEF Gets, version
<1> HIDE DEF Gets
<1>3. /\ Append(g, Get(seen)) \in Seq(Gets)
      /\ Len(Append(g, Get(seen))) = Len(g) + 1
      /\ \A i \in 1..Len(g) : Append(g, Get(seen))[i] = g[i]
      /\ Append(g, Get(seen))[Len(g) + 1] = Get(seen)
  BY <1>2, AppendProperties
<1>4. ASSUME NEW i \in 1..(Len(g) + 1) PROVE Append(g, Get(seen))[i].since <= Len(past)
  <2>1. CASE i \in 1..Len(g)
    BY <1>3, <2>1
  <2>2. CASE i = Len(g) + 1
    BY <1>1, <1>2, <1>3, <2>2
  <2>3. QED
    BY <2>1, <2>2
<1>5. QED
  BY <1>1, <1>3, <1>4

\* The sets stay while the kind does.
LEMMA SetsStay ==
  ASSUME UNCHANGED kind
  PROVE  Key' = Key /\ Requests' = Requests /\ Versions' = Versions /\ Gets' = Gets /\ Calls' = Calls
<1>1. Key' = Key /\ Requests' = Requests
  BY Zenon DEF Key, Requests
<1>2. QED
  BY <1>1, Zenon DEF Versions, Gets, Calls

\* A step that keeps each variable's type.
LEMMA TypedStep ==
  ASSUME ReviewTyped, UNCHANGED kind,
         UNCHANGED past \/ \E t \in Versions : Change(t),
         UNCHANGED gets \/ (/\ gets' \in Seq(Gets)
                           /\ \A i \in 1..Len(gets') : gets'[i].since <= Len(past)),
         entries' \in 0..Len(past), badge' \in 0..Len(past),
         dialog' \in {dialog, NoDialog} \cup [key : Key, as : Requests \cap (Decisions \cup {"absent"})],
         busy' \in Key \cup {busy, NoKey}, missed' \in BOOLEAN,
         UNCHANGED calls \/ calls' \in Seq(Calls)
  PROVE  ReviewTyped'
<1>1. /\ Key' = Key /\ Requests' = Requests /\ Versions' = Versions /\ Gets' = Gets
      /\ Calls' = Calls /\ NoDialog' = NoDialog
  BY SetsStay DEF NoDialog
<1>2. Len(past) \in 1..MaxVersions[kind] /\ MaxVersions[kind] \in Nat
  BY TableType DEF version
<1>3. /\ past' \in Seq(Versions)' /\ Len(past') \in 1..MaxVersions[kind']
      /\ Len(past) <= Len(past')
  <2>1. CASE UNCHANGED past
    BY <1>1, <1>2, <2>1 DEF ReviewTyped
  <2>2. CASE \E t \in Versions : Change(t)
    BY <1>2, <2>2, ChangeStep
  <2>3. QED
    BY <2>1, <2>2
<1>4. gets' \in Seq(Gets)' /\ \A i \in 1..Len(gets') : gets'[i] \in Gets /\ gets'[i].since <= Len(past)
  <2>1. gets' \in Seq(Gets) /\ \A i \in 1..Len(gets') : gets'[i].since <= Len(past)
    BY DEF ReviewTyped
  <2>2. QED
    BY <1>1, <2>1
<1>5. \A i \in 1..Len(gets') : gets'[i].since <= Len(past')
  BY <1>2, <1>3, <1>4 DEF Gets
<1>6. entries' \in 0..Len(past') /\ badge' \in 0..Len(past')
  BY <1>2, <1>3
<1>7. dialog' # NoDialog' => dialog' \in [key : Key, as : Requests \cap (Decisions \cup {"absent"})]'
  BY <1>1 DEF ReviewTyped, Decisions
<1>8. busy' \in Key' \cup {NoKey} /\ calls' \in Seq(Calls)' /\ kind' \in Kind
  BY <1>1 DEF ReviewTyped
<1>9. QED
  BY <1>3, <1>4, <1>5, <1>6, <1>7, <1>8 DEF ReviewTyped

-------------------------------------------------------------------------------
(* What explains what the page shows *)

\* A change that the page has made or will be told of.
Told ==
  \/ \E i \in 1..Len(calls) : calls[i].answer = "ok"
  \/ kind # "users" /\ (inbox # << >> \/ scored = "scored")

\* A request whose answer can only be the table as it is now.
Current == \E i \in 1..Len(gets) : gets[i].since = version
CurrentHere == \E i \in 1..Len(gets) : gets[i].since = version /\ gets[i].mounted

NothingHere == \A i \in 1..Len(gets) : ~gets[i].mounted

BadgeInv ==
  ~missed => \/ kind = "users" \/ badge = version \/ Told \/ Current
             \/ badge = NotLoaded /\ gets = << >>

EntriesInv ==
  ~missed => \/ entries = version \/ Told \/ CurrentHere
             \/ entries = NotLoaded /\ NothingHere

\* A visit leaves the tab that is open, a table that is not mounted shows nothing
\* and asks for nothing, and the users' tab has no count.
PageInv ==
  /\ tab \in {"audit", "review"} /\ visits \in Seq({"audit", "review"})
  /\ visits # << >> => visits[1] # tab
  /\ \A i \in 1..(Len(visits) - 1) : visits[i] # visits[i + 1]
  /\ kind = "users" => badge = NotLoaded
  /\ tab = "audit" => /\ entries = NotLoaded /\ dialog = NoDialog /\ NothingHere
                      /\ \A i \in 1..Len(calls) : ~calls[i].mounted

ReviewInv == ReviewTyped /\ PageInv /\ BadgeInv /\ EntriesInv

\* A change under way explains everything.
LEMMA ToldStep ==
  ASSUME ReviewTyped', PageInv', missed' \/ Told' PROVE ReviewInv'
BY DEF ReviewInv, BadgeInv, EntriesInv

\* Nothing is shown, asked for or changed, and what explains it is still there.
LEMMA StillExplained ==
  ASSUME ReviewInv, ReviewTyped', PageInv', UNCHANGED << kind, past, gets, entries, badge >>,
         missed => missed', Told => missed' \/ Told'
  PROVE  ReviewInv'
<1>1. version' = version
  BY DEF version
<1>2. Current' = Current /\ CurrentHere' = CurrentHere /\ NothingHere' = NothingHere
  BY <1>1 DEF Current, CurrentHere, NothingHere
<1>3. missed \in BOOLEAN /\ missed' \in BOOLEAN
  BY DEF ReviewInv, ReviewTyped
<1>4. BadgeInv'
  BY <1>1, <1>2, <1>3, Zenon DEF ReviewInv, BadgeInv, NotLoaded
<1>5. EntriesInv'
  BY <1>1, <1>2, <1>3, Zenon DEF ReviewInv, EntriesInv, NotLoaded
<1>6. QED
  BY <1>4, <1>5 DEF ReviewInv

\* One request's answer changes.
LEMMA AnswerStep ==
  ASSUME ReviewTyped, NEW i \in 1..Len(calls), NEW a \in {"none", "ok", "no"},
         calls' = [calls EXCEPT ![i].answer = a]
  PROVE  /\ calls' \in Seq(Calls) /\ Len(calls') = Len(calls)
         /\ calls'[i].answer = a
         /\ \A j \in 1..Len(calls) : calls'[j].mounted = calls[j].mounted
         /\ \A j \in 1..Len(calls) : j # i => calls'[j].answer = calls[j].answer
<1>1. calls \in Seq(Calls) /\ \A j \in 1..Len(calls) : calls[j] \in Calls
  BY DEF ReviewTyped
<1>2. [calls[i] EXCEPT !.answer = a] \in Calls
  BY <1>1 DEF Calls
<1>3. calls' = [calls EXCEPT ![i] = [calls[i] EXCEPT !.answer = a]]
  OBVIOUS
<1>4. calls' \in Seq(Calls) /\ Len(calls') = Len(calls)
  BY <1>1, <1>2, <1>3
<1>5. /\ calls'[i] = [calls[i] EXCEPT !.answer = a]
      /\ \A j \in 1..Len(calls) : j # i => calls'[j] = calls[j]
  BY <1>1, <1>3
<1>6. calls'[i].answer = a /\ calls'[i].mounted = calls[i].mounted
  BY <1>1, <1>5 DEF Calls
<1>7. QED
  BY <1>4, <1>5, <1>6

-------------------------------------------------------------------------------
(* The backend's steps *)

\* The table changes; the page has made the change, is told of it or misses it.
LEMMA RowStep ==
  ASSUME ReviewInv, NEW k \in Key, NEW x \in States, Change([table EXCEPT ![k] = x]),
         UNCHANGED << kind, gets, component, badge, tab, visits >>,
         missed' \in BOOLEAN, missed' \/ Told',
         UNCHANGED calls \/ (/\ calls' \in Seq(Calls) /\ Len(calls') = Len(calls)
                            /\ \A j \in 1..Len(calls) : calls'[j].mounted = calls[j].mounted)
  PROVE  ReviewInv'
<1>1. ReviewTyped /\ PageInv
  BY DEF ReviewInv
<1>2. /\ UNCHANGED << kind, gets, entries, dialog, busy, badge, tab, visits >>
      /\ entries \in 0..Len(past) /\ badge \in 0..Len(past)
  BY <1>1 DEF component, ReviewTyped
<1>3. \E t \in Versions : Change(t)
  BY <1>1, TableType
<1>4. ReviewTyped'
  BY <1>1, <1>2, <1>3, TypedStep
<1>5. PageInv'
  BY <1>1, <1>2 DEF PageInv, NothingHere, NoDialog, NotLoaded
<1>6. QED
  BY <1>4, <1>5, ToldStep

\* Nothing that the page has changes.
LEMMA PageStays ==
  ASSUME ReviewInv, UNCHANGED << kind, past, gets, component, badge, tab, visits >>,
         missed' \in BOOLEAN, missed => missed', Told => missed' \/ Told',
         UNCHANGED calls \/ (/\ calls' \in Seq(Calls) /\ Len(calls') = Len(calls)
                            /\ \A j \in 1..Len(calls) : calls'[j].mounted = calls[j].mounted)
  PROVE  ReviewInv'
<1>1. ReviewTyped /\ PageInv
  BY DEF ReviewInv
<1>2. /\ UNCHANGED << kind, past, gets, entries, dialog, busy, badge, tab, visits >>
      /\ entries \in 0..Len(past) /\ badge \in 0..Len(past)
  BY <1>1 DEF component, ReviewTyped
<1>3. ReviewTyped'
  BY <1>1, <1>2, TypedStep
<1>4. PageInv'
  BY <1>1, <1>2 DEF PageInv, NothingHere, NoDialog, NotLoaded
<1>5. QED
  BY <1>2, <1>3, <1>4, StillExplained

\* A verdict is appended, and its sample proposed.
LEMMA ScoreReview == ASSUME ReviewInv, Score PROVE ReviewInv'
<1>1. scored = "idle" /\ scored' = "scored" /\ UNCHANGED << tab, inbox, visits >>
  BY DEF Score
<1>2. CASE UNCHANGED reviewVars
  <2>1. UNCHANGED << kind, past, gets, component, badge, calls, missed >>
    BY <1>2 DEF reviewVars
  <2>2. Told => Told'
    BY <1>1, <2>1 DEF Told
  <2>3. missed' \in BOOLEAN
    BY <2>1 DEF ReviewInv, ReviewTyped
  <2>4. QED
    BY <1>1, <2>1, <2>2, <2>3, PageStays
<1>3. CASE kind = "hashes" /\ RunAdds(TRUE)
  <2>1. PICK k \in Key : Change([table EXCEPT ![k] = "pending"])
    BY <1>3 DEF RunAdds
  <2>2. UNCHANGED << kind, gets, component, badge, calls >> /\ "pending" \in States
    BY <1>3 DEF RunAdds, States
  <2>3. missed' = missed
    <3>1. missed' = (missed \/ ~TRUE) /\ missed \in BOOLEAN
      BY <1>3 DEF RunAdds, ReviewInv, ReviewTyped
    <3>2. QED
      BY <3>1, Zenon
  <2>4. missed' \in BOOLEAN /\ Told'
    BY <1>1, <1>3, <2>2, <2>3 DEF Told, ReviewInv, ReviewTyped
  <2>5. QED
    BY <1>1, <2>1, <2>2, <2>4, RowStep
<1>4. QED
  BY <1>2, <1>3 DEF Score

\* The verdict is broadcast, to this page or past it.
LEMMA AnnounceReview == ASSUME NoticeType, ReviewInv, Announce PROVE ReviewInv'
<1>1. /\ UNCHANGED << kind, past, gets, component, badge, calls, tab, visits >>
      /\ \/ inbox' = Append(inbox, log) /\ UNCHANGED missed
         \/ missed' = TRUE
  BY DEF Announce
<1>2. missed \in BOOLEAN /\ inbox \in Seq(Nat) /\ log \in Nat
  BY DEF NoticeType, ReviewInv, ReviewTyped
<1>3. missed' = TRUE \/ (inbox' # << >> /\ UNCHANGED missed)
  BY <1>1, <1>2
<1>4. missed' \in BOOLEAN /\ (missed => missed')
  BY <1>2, <1>3, Zenon
<1>5. Told => missed' \/ Told'
  BY <1>1, <1>3 DEF Told
<1>6. QED
  BY <1>1, <1>4, <1>5, PageStays

\* A file is held back, of which no notice follows.
LEMMA HoldReview == ASSUME ReviewInv, Hold PROVE ReviewInv'
<1>1. PICK k \in Key : Change([table EXCEPT ![k] = "pending"])
  BY DEF Hold, RunAdds
<1>2. /\ UNCHANGED << kind, gets, component, badge, calls, tab, visits >> /\ "pending" \in States
      /\ missed' = (missed \/ ~FALSE)
  BY DEF Hold, RunAdds, States
<1>3. missed' = TRUE
  BY <1>2, Zenon
<1>4. QED
  BY <1>1, <1>2, <1>3, RowStep

LEMMA NothingToHoldReview == ASSUME ReviewInv, NothingToHold PROVE ReviewInv'
<1>1. UNCHANGED << kind, past, gets, component, badge, calls, missed, tab, visits, inbox >>
  BY DEF NothingToHold, reviewVars
<1>2. scored = "announced" /\ missed' \in BOOLEAN
  BY <1>1 DEF NothingToHold, ReviewInv, ReviewTyped
<1>3. Told => Told'
  BY <1>1, <1>2 DEF Told
<1>4. QED
  BY <1>1, <1>2, <1>3, PageStays

\* Somebody else decides, or the backend serves one of this page's calls.
LEMMA ServerReview == ASSUME ReviewInv, ServerChanges PROVE ReviewInv'
<1>1. UNCHANGED << tab, inbox, scored, visits, kind, gets, component, badge >>
  BY DEF ServerChanges, SomebodyElse, Serve
<1>2. ReviewTyped /\ missed \in BOOLEAN
  BY DEF ReviewInv, ReviewTyped
<1>3. ASSUME NEW k \in Key, NEW as \in Requests, Apply(k, as)
      PROVE  Change([table EXCEPT ![k] = Becomes(as)]) /\ Becomes(as) \in States
  BY <1>3, BecomesType DEF Apply
<1>4. CASE SomebodyElse
  <2>1. PICK k \in Key, as \in Requests : Apply(k, as)
    BY <1>4 DEF SomebodyElse
  <2>2. missed' = TRUE /\ UNCHANGED calls
    BY <1>4 DEF SomebodyElse
  <2>3. Change([table EXCEPT ![k] = Becomes(as)]) /\ Becomes(as) \in States
    BY <1>3, <2>1
  <2>4. QED
    BY <1>1, <2>2, <2>3, RowStep
<1>5. ASSUME NEW i \in DOMAIN calls, Serve(i) PROVE ReviewInv'
  <2>1. i \in 1..Len(calls) /\ calls[i].answer = "none" /\ UNCHANGED missed
    BY <1>2, <1>5 DEF Serve, ReviewTyped
  <2>2. calls[i].key \in Key /\ calls[i].as \in Requests
    <3>1. calls \in Seq(Calls)
      BY <1>2 DEF ReviewTyped
    <3>2. calls[i] \in Calls
      BY <2>1, <3>1
    <3>3. QED
      BY <3>2 DEF Calls
  <2>3. CASE Apply(calls[i].key, calls[i].as) /\ calls' = [calls EXCEPT ![i].answer = "ok"]
    <3>1. /\ calls' \in Seq(Calls) /\ Len(calls') = Len(calls) /\ calls'[i].answer = "ok"
          /\ \A j \in 1..Len(calls) : calls'[j].mounted = calls[j].mounted
      BY <1>2, <2>1, <2>3, AnswerStep
    <3>2. Told'
      BY <2>1, <3>1 DEF Told
    <3>3. QED
      BY <1>1, <1>2, <1>3, <2>1, <2>2, <2>3, <3>1, <3>2, RowStep
  <2>4. CASE calls' = [calls EXCEPT ![i].answer = "no"] /\ UNCHANGED past
    <3>1. /\ calls' \in Seq(Calls) /\ Len(calls') = Len(calls)
          /\ \A j \in 1..Len(calls) : calls'[j].mounted = calls[j].mounted
          /\ \A j \in 1..Len(calls) : j # i => calls'[j].answer = calls[j].answer
      BY <1>2, <2>1, <2>4, AnswerStep
    <3>2. Told => Told'
      BY <1>1, <2>1, <3>1 DEF Told
    <3>3. QED
      BY <1>1, <1>2, <2>1, <2>4, <3>1, <3>2, PageStays
  <2>5. QED
    BY <1>5, <2>3, <2>4 DEF Serve
<1>6. QED
  BY <1>4, <1>5 DEF ServerChanges

-------------------------------------------------------------------------------
(* The page's steps *)

\* The table is loaded again: what shows it then is what it is.
LEMMA LoadStep ==
  ASSUME ReviewInv, PageInv', UNCHANGED << kind, past, badge >>,
         NEW g \in Seq(Gets), \A i \in 1..Len(g) : g[i].since <= Len(past),
         NEW seen \in BOOLEAN, gets' = Append(g, Get(seen)),
         seen \/ missed' \/ (entries' = NotLoaded /\ NothingHere'),
         entries' \in {entries, NotLoaded}, dialog' \in {dialog, NoDialog},
         busy' \in {busy, NoKey}, missed' \in BOOLEAN,
         UNCHANGED calls \/ calls' \in Seq(Calls)
  PROVE  ReviewInv'
<1>1. ReviewTyped
  BY DEF ReviewInv
<1>2. /\ gets' \in Seq(Gets) /\ Len(gets') = Len(g) + 1
      /\ gets'[Len(g) + 1] = [since |-> Len(past), mounted |-> seen]
      /\ \A i \in 1..Len(gets') : gets'[i].since <= Len(past)
  BY <1>1, AppendGets
<1>3. Len(g) + 1 \in 1..Len(gets')
  BY <1>2
<1>4. entries' \in 0..Len(past) /\ badge' \in 0..Len(past) /\ busy' \in Key \cup {busy, NoKey}
  BY <1>1 DEF ReviewTyped, NotLoaded
<1>5. ReviewTyped'
  BY <1>1, <1>2, <1>4, TypedStep
<1>6. Current'
  BY <1>2, <1>3 DEF Current, version
<1>7. ASSUME seen PROVE CurrentHere'
  <2>1. gets'[Len(g) + 1].since = Len(past) /\ gets'[Len(g) + 1].mounted = seen
    BY <1>2
  <2>2. version' = Len(past)
    BY DEF version
  <2>3. QED
    BY <1>3, <1>7, <2>1, <2>2, Zenon DEF CurrentHere
<1>8. EntriesInv'
  BY <1>7, Zenon DEF EntriesInv
<1>9. BadgeInv'
  BY <1>6, Zenon DEF BadgeInv
<1>10. QED
  BY <1>5, <1>8, <1>9 DEF ReviewInv

\* A verdict message: the mounted table is loaded again.
LEMMA NoticeReview == ASSUME ReviewInv, Notice PROVE ReviewInv'
<1>1. /\ UNCHANGED << kind, past, component, badge, calls, tab, scored, visits >>
      /\ ReviewTyped /\ PageInv
  BY DEF Notice, ReviewInv
<1>2. UNCHANGED << entries, dialog, busy >> /\ missed \in BOOLEAN
  BY <1>1 DEF component, ReviewTyped
<1>3. CASE tab = "audit" /\ missed' = TRUE /\ UNCHANGED gets
  BY <1>1, <1>3, PageStays
<1>4. CASE tab = "review" /\ ReviewRefresh(gets) /\ UNCHANGED missed
  <2>1. CASE kind = "users"
    <3>1. UNCHANGED gets
      BY <1>4, <2>1 DEF ReviewRefresh
    <3>2. Told => Told'
      BY <1>1, <2>1 DEF Told
    <3>3. QED
      BY <1>1, <1>2, <1>4, <3>1, <3>2, PageStays
  <2>2. CASE kind # "users"
    <3>1. gets' = Append(gets, Get(TRUE))
      BY <1>4, <2>2 DEF ReviewRefresh
    <3>2. PageInv'
      BY <1>1, <1>2, <1>4 DEF PageInv
    <3>3. gets \in Seq(Gets) /\ \A i \in 1..Len(gets) : gets[i].since <= Len(past)
      BY <1>1 DEF ReviewTyped
    <3>4. QED
      BY <1>1, <1>2, <1>4, <3>1, <3>2, <3>3, LoadStep
  <2>3. QED
    BY <2>1, <2>2
<1>5. QED
  BY <1>3, <1>4 DEF Notice

\* The table is answered, or its request fails.
LEMMA AnswerReview ==
  ASSUME ReviewInv, NEW i \in DOMAIN gets, ReviewAnswer(i) PROVE ReviewInv'
<1>1. /\ UNCHANGED << kind, past, dialog, busy, calls, tab, inbox, scored, visits >>
      /\ gets' = RemoveAt(gets, i)
  BY DEF ReviewAnswer, ReviewArrives, ReviewFails
<1>2. ReviewTyped /\ PageInv /\ BadgeInv /\ EntriesInv
  BY DEF ReviewInv
<1>3. /\ gets \in Seq(Gets) /\ Len(past) \in Nat /\ version = Len(past) /\ missed \in BOOLEAN
      /\ entries \in 0..Len(past) /\ badge \in 0..Len(past)
      /\ \A j \in 1..Len(gets) : gets[j].since <= Len(past)
  BY <1>2 DEF ReviewTyped, version
<1>4. i \in 1..Len(gets)
  BY <1>3
<1>5. gets[i].since \in Nat /\ gets[i].since # 0 /\ gets[i].mounted \in BOOLEAN
  <2>1. gets[i] \in Gets
    BY <1>3, <1>4
  <2>2. QED
    BY <2>1, <1>2, TableType DEF Gets
<1>6. /\ gets' \in Seq(Gets)
      /\ \A j \in 1..Len(gets') : \E k \in 1..Len(gets) : gets'[j] = gets[k]
      /\ \A k \in 1..Len(gets) : k # i => \E j \in 1..Len(gets') : gets'[j] = gets[k]
  BY <1>1, <1>3, <1>4, RemoveAtElements
<1>7. \A j \in 1..Len(gets') : gets'[j].since <= Len(past)
  BY <1>3, <1>6
<1>8. (NothingHere => NothingHere') /\ version' = version
  BY <1>1, <1>6 DEF NothingHere, version
<1>9. Told' = Told
  BY <1>1, Zenon DEF Told
<1>10. CASE ReviewFails(i)
  <2>1. missed' = TRUE /\ UNCHANGED << entries, badge >>
    BY <1>10 DEF ReviewFails
  <2>2. ReviewTyped'
    BY <1>1, <1>2, <1>3, <1>6, <1>7, <2>1, TypedStep
  <2>3. PageInv'
    BY <1>1, <1>2, <1>8, <2>1 DEF PageInv, NoDialog, NotLoaded
  <2>4. QED
    BY <2>1, <2>2, <2>3, ToldStep
<1>11. CASE ReviewArrives(i, tab = "review")
  <2>1. PICK v \in gets[i].since..version :
              /\ entries' = IF gets[i].mounted THEN v ELSE entries
              /\ badge' = IF kind = "users" THEN badge ELSE v
              /\ missed' = IF v = version THEN missed /\ (tab = "review") /\ ~gets[i].mounted
                                          ELSE missed \/ v < badge \/ v < entries
    BY <1>11 DEF ReviewArrives
  <2>2. v \in 1..Len(past) /\ gets[i].since <= v
    BY <1>3, <1>4, <1>5, <2>1
  <2>3. entries' \in 0..Len(past) /\ badge' \in 0..Len(past)
    BY <1>3, <2>1, <2>2
  <2>4. missed' \in BOOLEAN
    BY <1>3, <1>5, <2>1, Zenon
  <2>5. ReviewTyped'
    BY <1>1, <1>2, <1>3, <1>6, <1>7, <2>3, <2>4, TypedStep
  <2>6. PageInv'
    <3>1. tab = "audit" => entries' = NotLoaded
      BY <1>2, <1>4, <2>1 DEF PageInv, NothingHere
    <3>2. kind = "users" => badge' = NotLoaded
      BY <1>2, <2>1 DEF PageInv
    <3>3. QED
      BY <1>1, <1>2, <1>8, <3>1, <3>2 DEF PageInv, NoDialog, NotLoaded
  <2>7. CASE v = version
    <3>1. missed' = (missed /\ (tab = "review") /\ ~gets[i].mounted)
      BY <2>1, <2>7
    <3>2. BadgeInv'
      BY <1>1, <1>8, <2>1, <2>7 DEF BadgeInv
    <3>3. CASE gets[i].mounted
      BY <1>8, <2>1, <2>7, <3>2, <2>5, <2>6, <3>3 DEF ReviewInv, EntriesInv
    <3>4. CASE ~gets[i].mounted /\ tab = "audit"
      <4>1. entries' = NotLoaded /\ NothingHere'
        BY <1>1, <2>6, <3>4 DEF PageInv, NotLoaded
      <4>2. QED
        BY <2>5, <2>6, <3>2, <4>1 DEF ReviewInv, EntriesInv
    <3>5. CASE ~gets[i].mounted /\ tab = "review"
      <4>1. missed' = missed
        BY <1>3, <3>1, <3>5, Zenon
      <4>2. entries' = entries
        BY <2>1, <3>5
      <4>3. CurrentHere => CurrentHere'
        BY <1>6, <1>8, <3>5 DEF CurrentHere
      <4>4. EntriesInv'
        BY <1>2, <1>8, <1>9, <4>1, <4>2, <4>3 DEF EntriesInv, NotLoaded
      <4>5. QED
        BY <2>5, <2>6, <3>2, <4>4 DEF ReviewInv
    <3>6. QED
      BY <1>2, <1>5, <3>3, <3>4, <3>5 DEF PageInv
  <2>8. CASE v # version
    <3>1. missed' = (missed \/ v < badge \/ v < entries)
      BY <2>1, <2>8
    <3>2. CASE missed'
      BY <2>5, <2>6, <3>2, ToldStep
    <3>3. CASE ~missed'
      <4>1. ~missed /\ badge <= v /\ entries <= v
        <5>1. ~missed /\ ~(v < badge) /\ ~(v < entries)
          BY <3>1, <3>3, Zenon
        <5>2. QED
          BY <1>3, <2>2, <5>1
      <4>2. v < version /\ gets[i].since # version
        BY <1>3, <2>2, <2>8
      <4>3. badge # version /\ entries # version
        BY <1>3, <2>2, <4>1, <4>2
      <4>4. (Current => Current') /\ (CurrentHere => CurrentHere')
        BY <1>6, <1>8, <4>2 DEF Current, CurrentHere
      <4>5. gets # << >>
        BY <1>4
      <4>6. BadgeInv'
        BY <1>1, <1>2, <1>9, <4>1, <4>3, <4>4, <4>5 DEF BadgeInv
      <4>7. EntriesInv'
        <5>1. Told \/ CurrentHere \/ (entries = NotLoaded /\ NothingHere)
          BY <1>2, <4>1, <4>3 DEF EntriesInv
        <5>2. NothingHere => entries' = entries
          BY <1>4, <2>1 DEF NothingHere
        <5>3. QED
          BY <1>8, <1>9, <4>4, <5>1, <5>2 DEF EntriesInv, NotLoaded
      <4>8. QED
        BY <2>5, <2>6, <4>6, <4>7 DEF ReviewInv
    <3>4. QED
      BY <3>2, <3>3
  <2>9. QED
    BY <2>7, <2>8
<1>12. QED
  BY <1>10, <1>11 DEF ReviewAnswer

\* The admin decides, submits or leaves it.
LEMMA AdminReview == ASSUME ReviewInv, Admin PROVE ReviewInv'
<1>1. /\ UNCHANGED << kind, past, gets, entries, badge, missed, tab, inbox, scored, visits >>
      /\ tab = "review"
  BY DEF Admin, OpenDialog, Cancel, Confirm, Submit
<1>2. ReviewTyped /\ PageInv
  BY DEF ReviewInv
<1>3. missed' \in BOOLEAN /\ entries' \in 0..Len(past) /\ badge' \in 0..Len(past)
  BY <1>1, <1>2 DEF ReviewTyped
<1>4. PageInv'
  BY <1>1, <1>2 DEF PageInv, NotLoaded
<1>5. /\ dialog' \in {dialog, NoDialog} \cup [key : Key, as : Requests \cap (Decisions \cup {"absent"})]
      /\ busy' \in Key \cup {busy, NoKey}
      /\ \/ UNCHANGED calls
         \/ \E k \in Key, as \in Requests : Send(k, as)
  <2>1. CASE OpenDialog
    <3>1. PICK k \in Offered, as \in (IF kind = "users" THEN {"absent"} ELSE Decisions) :
                 dialog' = [key |-> k, as |-> as]
      BY <2>1 DEF OpenDialog
    <3>2. k \in Key
      BY DEF Offered
    <3>3. as \in Requests \cap (Decisions \cup {"absent"})
      BY DEF Requests
    <3>4. UNCHANGED << busy, calls >>
      BY <2>1 DEF OpenDialog
    <3>5. QED
      BY <3>1, <3>2, <3>3, <3>4
  <2>2. CASE Cancel
    BY <2>2 DEF Cancel
  <2>3. CASE Confirm
    <3>1. dialog.key \in Key /\ dialog.as \in Requests
      BY <1>2, <2>3 DEF Confirm, ReviewTyped
    <3>2. QED
      BY <2>3, <3>1 DEF Confirm, runDecision, handleDelete
  <2>4. CASE Submit
    <3>1. UNCHANGED << dialog, busy >>
      BY <2>4 DEF Submit
    <3>2. CASE handleSubmit
      BY <3>1, <3>2 DEF handleSubmit, Requests
    <3>3. CASE handleCreate
      BY <3>1, <3>3 DEF handleCreate, Requests
    <3>4. CASE handleRoleChange
      BY <3>1, <3>4 DEF handleRoleChange, Offered, Requests, Roles
    <3>5. QED
      BY <2>4, <3>2, <3>3, <3>4 DEF Submit
  <2>5. QED
    BY <2>1, <2>2, <2>3, <2>4 DEF Admin
<1>6. /\ UNCHANGED calls \/ calls' \in Seq(Calls)
      /\ Told => Told'
  <2>1. CASE UNCHANGED calls
    BY <1>1, <2>1 DEF Told
  <2>2. CASE \E k \in Key, as \in Requests : Send(k, as)
    <3>1. PICK k \in Key, as \in Requests : Send(k, as)
      BY <2>2
    <3>2. calls' = Append(calls, [key |-> k, as |-> as, answer |-> "none", mounted |-> TRUE])
      BY <3>1 DEF Send
    <3>3. [key |-> k, as |-> as, answer |-> "none", mounted |-> TRUE] \in Calls
      BY DEF Calls
    <3>4. calls \in Seq(Calls)
      BY <1>2 DEF ReviewTyped
    <3>5. /\ calls' \in Seq(Calls) /\ Len(calls') = Len(calls) + 1
          /\ \A j \in 1..Len(calls) : calls'[j] = calls[j]
      BY <3>2, <3>3, <3>4, AppendProperties
    <3>6. \A j \in 1..Len(calls) : j \in 1..Len(calls')
      BY <3>4, <3>5
    <3>7. QED
      BY <1>1, <3>5, <3>6 DEF Told
  <2>3. QED
    BY <1>5, <2>1, <2>2
<1>7. ReviewTyped'
  BY <1>1, <1>2, <1>3, <1>5, <1>6, TypedStep
<1>8. QED
  BY <1>1, <1>4, <1>6, <1>7, StillExplained

\* Nothing that is left mounted is asked for.
LEMMA OrphanGets ==
  ASSUME ReviewTyped, gets' = Orphan(gets)
  PROVE  /\ gets' \in Seq(Gets) /\ Len(gets') = Len(gets) /\ NothingHere'
         /\ \A i \in 1..Len(gets) : gets'[i].since = gets[i].since
<1>1. gets \in Seq(Gets) /\ \A i \in 1..Len(gets) : gets[i] \in Gets
  BY DEF ReviewTyped
<1>2. \A i \in 1..Len(gets) : [gets[i] EXCEPT !.mounted = FALSE] \in Gets
  BY <1>1 DEF Gets
<1>3. gets' = [i \in 1..Len(gets) |-> [gets[i] EXCEPT !.mounted = FALSE]]
  BY <1>1 DEF Orphan
<1>4. gets' \in Seq(Gets) /\ Len(gets') = Len(gets)
  BY <1>1, <1>2, <1>3
<1>5. ASSUME NEW i \in 1..Len(gets)
      PROVE  gets'[i].since = gets[i].since /\ gets'[i].mounted = FALSE
  <2>1. gets[i] \in [since : 1..MaxVersions[kind], mounted : BOOLEAN]
    BY <1>1 DEF Gets
  <2>2. gets'[i] = [gets[i] EXCEPT !.mounted = FALSE]
    BY <1>3
  <2>3. QED
    BY <2>1, <2>2
<1>6. QED
  BY <1>4, <1>5 DEF NothingHere

LEMMA OrphanCalls ==
  ASSUME ReviewTyped, calls' = Orphan(calls)
  PROVE  /\ calls' \in Seq(Calls) /\ Len(calls') = Len(calls)
         /\ \A i \in 1..Len(calls) : ~calls'[i].mounted /\ calls'[i].answer = calls[i].answer
<1>1. calls \in Seq(Calls) /\ \A i \in 1..Len(calls) : calls[i] \in Calls
  BY DEF ReviewTyped
<1>2. \A i \in 1..Len(calls) : [calls[i] EXCEPT !.mounted = FALSE] \in Calls
  BY <1>1 DEF Calls
<1>3. calls' = [i \in 1..Len(calls) |-> [calls[i] EXCEPT !.mounted = FALSE]]
  BY <1>1 DEF Orphan
<1>4. calls' \in Seq(Calls) /\ Len(calls') = Len(calls)
  BY <1>1, <1>2, <1>3
<1>5. ASSUME NEW i \in 1..Len(calls)
      PROVE  calls'[i].answer = calls[i].answer /\ calls'[i].mounted = FALSE
  <2>1. calls[i] \in [key : Key, as : Requests, answer : {"none", "ok", "no"}, mounted : BOOLEAN]
    BY <1>1 DEF Calls
  <2>2. calls'[i] = [calls[i] EXCEPT !.mounted = FALSE]
    BY <1>3
  <2>3. QED
    BY <2>1, <2>2
<1>6. QED
  BY <1>4, <1>5

\* The other tab is opened.
LEMMA SwitchReview == ASSUME ReviewInv, SwitchTab PROVE ReviewInv'
<1>1. /\ visits # << >> /\ tab' = Head(visits) /\ visits' = Tail(visits)
      /\ UNCHANGED << kind, past, badge, missed, inbox, scored >>
      /\ entries' = NotLoaded /\ dialog' = NoDialog /\ busy' = NoKey
  BY DEF SwitchTab, ReviewMount, ReviewUnmount, FreshComponent
<1>2. ReviewTyped /\ PageInv /\ BadgeInv
  BY DEF ReviewInv
<1>3. /\ tab' \in {"audit", "review"} /\ visits' \in Seq({"audit", "review"}) /\ tab' # tab
      /\ visits' # << >> => visits'[1] # tab'
      /\ \A i \in 1..(Len(visits') - 1) : visits'[i] # visits'[i + 1]
  <2>1. visits \in Seq({"audit", "review"}) /\ visits[1] # tab
    BY <1>1, <1>2 DEF PageInv
  <2>2. \A i \in 1..(Len(visits) - 1) : visits[i] # visits[i + 1]
    BY <1>2 DEF PageInv
  <2>3. /\ tab' = visits[1] /\ visits' \in Seq({"audit", "review"}) /\ Len(visits') = Len(visits) - 1
        /\ \A i \in 1..Len(visits') : visits'[i] = visits[i + 1]
    BY <1>1, <2>1
  <2>4. visits' # << >> => visits'[1] # tab'
    BY <2>1, <2>2, <2>3
  <2>5. ASSUME NEW i \in 1..(Len(visits') - 1) PROVE visits'[i] # visits'[i + 1]
    <3>1. i + 1 \in 1..(Len(visits) - 1) /\ i \in 1..Len(visits') /\ i + 1 \in 1..Len(visits')
      BY <2>1, <2>3
    <3>2. QED
      BY <2>2, <2>3, <3>1
  <2>6. QED
    BY <1>1, <2>1, <2>3, <2>4, <2>5
<1>4. kind' = "users" => badge' = NotLoaded'
  BY <1>1, <1>2 DEF PageInv, NotLoaded
<1>5. missed' \in BOOLEAN /\ entries' \in 0..Len(past) /\ badge' \in 0..Len(past)
  BY <1>1, <1>2, TableType DEF ReviewTyped, NotLoaded, version
<1>6. CASE tab = "audit" /\ ReviewMount
  <2>1. gets' = Append(gets, Get(TRUE)) /\ UNCHANGED calls /\ tab' # "audit"
    BY <1>3, <1>6 DEF ReviewMount, refetch
  <2>2. gets \in Seq(Gets) /\ \A i \in 1..Len(gets) : gets[i].since <= Len(past)
    BY <1>2 DEF ReviewTyped
  <2>3. PageInv'
    BY <1>3, <1>4, <2>1 DEF PageInv
  <2>4. QED
    BY <1>1, <1>5, <2>1, <2>2, <2>3, LoadStep
<1>7. CASE tab = "review" /\ ReviewUnmount
  <2>1. gets' = Orphan(gets) /\ calls' = Orphan(calls)
    BY <1>7 DEF ReviewUnmount
  <2>2. /\ gets' \in Seq(Gets) /\ Len(gets') = Len(gets) /\ NothingHere'
        /\ \A i \in 1..Len(gets) : gets'[i].since = gets[i].since
    BY <1>2, <2>1, OrphanGets
  <2>3. /\ calls' \in Seq(Calls) /\ Len(calls') = Len(calls)
        /\ \A i \in 1..Len(calls) : ~calls'[i].mounted /\ calls'[i].answer = calls[i].answer
    BY <1>2, <2>1, OrphanCalls
  <2>4. \A i \in 1..Len(gets') : gets'[i].since <= Len(past)
    BY <1>2, <2>2 DEF ReviewTyped
  <2>5. ReviewTyped'
    BY <1>1, <1>2, <1>5, <2>2, <2>3, <2>4, TypedStep
  <2>6. PageInv'
    BY <1>1, <1>3, <1>4, <2>2, <2>3 DEF PageInv, NoDialog, NotLoaded
  <2>7. EntriesInv'
    BY <1>1, <2>2 DEF EntriesInv, NotLoaded
  <2>8. /\ Told => Told'
        /\ Current => Current'
        /\ version' = version
        /\ gets = << >> => gets' = << >>
    <3>1. gets \in Seq(Gets) /\ (gets = << >> => gets' = << >>)
      BY <1>2, <2>2 DEF ReviewTyped
    <3>2. QED
      BY <1>1, <2>2, <2>3, <3>1 DEF Told, Current, version
  <2>9. BadgeInv'
    BY <1>1, <1>2, <2>8, Zenon DEF BadgeInv, NotLoaded
  <2>10. QED
    BY <2>5, <2>6, <2>7, <2>9 DEF ReviewInv
<1>8. QED
  BY <1>6, <1>7 DEF SwitchTab

\* One of the page's own calls is answered, or fails.
LEMMA CallReview ==
  ASSUME ReviewInv, NEW i \in DOMAIN calls, CallAnswered(i) PROVE ReviewInv'
<1>1. /\ UNCHANGED << kind, past, entries, badge, tab, inbox, scored, visits >>
      /\ calls' = RemoveAt(calls, i)
      /\ busy' \in {busy, NoKey} /\ dialog' \in {dialog, NoDialog}
  BY DEF CallAnswered, Served, CallFails, Finally
<1>2. ReviewTyped /\ PageInv
  BY DEF ReviewInv
<1>3. /\ gets \in Seq(Gets) /\ \A j \in 1..Len(gets) : gets[j].since <= Len(past)
      /\ calls \in Seq(Calls) /\ missed \in BOOLEAN
      /\ entries' \in 0..Len(past) /\ badge' \in 0..Len(past) /\ busy' \in Key \cup {busy, NoKey}
  BY <1>1, <1>2 DEF ReviewTyped
<1>4. i \in 1..Len(calls)
  BY <1>3
<1>5. calls[i].mounted \in BOOLEAN
  <2>1. calls[i] \in Calls
    BY <1>3, <1>4
  <2>2. QED
    BY <2>1 DEF Calls
<1>6. /\ calls' \in Seq(Calls)
      /\ \A j \in 1..Len(calls') : \E k \in 1..Len(calls) : calls'[j] = calls[k]
      /\ \A k \in 1..Len(calls) : k # i => \E j \in 1..Len(calls') : calls'[j] = calls[k]
  BY <1>1, <1>3, <1>4, RemoveAtElements
<1>8. ASSUME tab = "audit"
      PROVE  /\ dialog' = NoDialog /\ entries' = NotLoaded /\ NothingHere /\ calls[i].mounted = FALSE
             /\ \A j \in 1..Len(calls') : ~calls'[j].mounted
  BY <1>1, <1>2, <1>4, <1>5, <1>6, <1>8 DEF PageInv, NotLoaded
<1>9. ASSUME tab = "audit" => NothingHere' PROVE PageInv'
  BY <1>1, <1>2, <1>8, <1>9 DEF PageInv, NotLoaded, NoDialog
<1>10. CASE CallFails(i)
  <2>1. missed' = (missed \/ calls[i].answer = "ok") /\ UNCHANGED gets
    BY <1>10 DEF CallFails
  <2>2. PageInv'
    BY <1>8, <1>9, <2>1 DEF NothingHere
  <2>3. missed' \in BOOLEAN /\ (missed => missed')
    BY <1>3, <2>1, Zenon
  <2>4. ReviewTyped'
    BY <1>1, <1>2, <1>3, <1>6, <2>1, <2>3, TypedStep
  <2>5. Told => missed' \/ Told'
    <3>1. calls[i].answer = "ok" => missed'
      BY <2>1, Zenon
    <3>2. QED
      BY <1>1, <1>6, <3>1 DEF Told
  <2>6. QED
    BY <1>1, <2>1, <2>2, <2>3, <2>4, <2>5, StillExplained
<1>11. CASE Served(i) /\ (Decided(i) => onDecision(Reloaded(i)))
  <2> DEFINE g == Append(gets, Get(calls[i].mounted))
  <2>1. missed' = (missed \/ (~calls[i].mounted /\ ~Decided(i)))
    BY <1>11 DEF Served
  <2>2. missed' \in BOOLEAN
    BY <1>3, <1>5, <2>1, Zenon DEF Decided
  <2>3. /\ g \in Seq(Gets) /\ \A j \in 1..Len(g) : g[j].since <= Len(past)
        /\ Len(g) = Len(gets) + 1 /\ \A j \in 1..Len(gets) : g[j] = gets[j]
        /\ g[Len(gets) + 1] = [since |-> Len(past), mounted |-> calls[i].mounted]
    BY <1>2, <1>3, <1>5, AppendGets
  <2>4. ASSUME tab = "audit", gets' = g PROVE NothingHere'
    <3>1. \A j \in 1..Len(gets) : ~gets[j].mounted
      BY <1>8, <2>4 DEF NothingHere
    <3>2. g[Len(gets) + 1].mounted = FALSE
      <4>1. calls[i].mounted = FALSE
        BY <1>8, <2>4
      <4>2. g[Len(gets) + 1].mounted = calls[i].mounted
        BY <2>3
      <4>3. QED
        BY <4>1, <4>2
    <3>3. ASSUME NEW j \in 1..(Len(gets) + 1) PROVE ~g[j].mounted
      <4>1. CASE j \in 1..Len(gets)
        BY <2>3, <3>1, <4>1
      <4>2. CASE j = Len(gets) + 1
        BY <3>2, <4>2
      <4>3. QED
        BY <1>3, <4>1, <4>2
    <3>4. QED
      BY <2>3, <2>4, <3>3 DEF NothingHere
  <2>5. CASE ~Decided(i)
    <3>1. gets' = g
      BY <1>11, <2>5 DEF Served, Reloaded
    <3>2. PageInv'
      BY <1>9, <2>4, <3>1
    <3>3. calls[i].mounted \/ missed'
      BY <2>1, <2>5, Zenon
    <3>4. QED
      BY <1>1, <1>3, <1>5, <1>6, <2>2, <3>1, <3>2, <3>3, LoadStep
  <2>6. CASE Decided(i) /\ tab = "review"
    <3>1. ReviewRefresh(g)
      BY <1>11, <2>6 DEF onDecision, Reloaded
    <3>2. kind # "users"
      <4>1. calls[i] \in Calls
        BY <1>3, <1>4
      <4>2. calls[i].as \in Requests /\ calls[i].as \in Decisions
        BY <2>6, <4>1 DEF Calls, Decided
      <4>3. QED
        BY <4>2 DEF Requests, Decisions, Roles
    <3>3. gets' = Append(g, Get(TRUE))
      BY <3>1, <3>2 DEF ReviewRefresh
    <3>4. PageInv'
      BY <1>9, <2>6
    <3>5. QED
      BY <1>1, <1>6, <2>2, <2>3, <3>3, <3>4, LoadStep
  <2>7. CASE Decided(i) /\ tab = "audit"
    <3>1. gets' = g
      BY <1>11, <2>7 DEF onDecision, Reloaded
    <3>2. PageInv' /\ entries' = NotLoaded /\ NothingHere'
      BY <1>8, <1>9, <2>4, <2>7, <3>1
    <3>3. QED
      BY <1>1, <1>3, <1>5, <1>6, <2>2, <3>1, <3>2, LoadStep
  <2>8. QED
    BY <1>2, <2>5, <2>6, <2>7 DEF PageInv
<1>12. QED
  BY <1>10, <1>11 DEF CallAnswered

\* Every step keeps the invariant.
LEMMA ReviewStep == NoticeType /\ ReviewInv /\ [Next]_vars => ReviewInv'
<1> SUFFICES ASSUME NoticeType, ReviewInv, [Next]_vars PROVE ReviewInv'
  OBVIOUS
<1>1. ASSUME UNCHANGED << reviewVars, tab, inbox, scored, visits >> PROVE ReviewInv'
  <2>1. UNCHANGED << kind, past, gets, component, badge, calls, missed, tab, visits >>
    BY <1>1 DEF reviewVars
  <2>2. Told => Told'
    BY <1>1, <2>1 DEF Told
  <2>3. missed' \in BOOLEAN
    BY <2>1 DEF ReviewInv, ReviewTyped
  <2>4. QED
    BY <2>1, <2>2, <2>3, PageStays
<1>2. CASE Poll \/ Reader \/ \E i \in DOMAIN loads : AuditAnswer(i)
  <2>1. UNCHANGED << reviewVars, tab, inbox, scored, visits >>
    BY <1>2 DEF Poll, Reader, AuditAnswer
  <2>2. QED
    BY <1>1, <2>1
<1>3. CASE UNCHANGED vars
  BY <1>1, <1>3 DEF vars
<1>4. ASSUME NEW i \in DOMAIN gets, ReviewAnswer(i) PROVE ReviewInv'
  BY <1>4, AnswerReview
<1>5. ASSUME NEW i \in DOMAIN calls, CallAnswered(i) PROVE ReviewInv'
  BY <1>5, CallReview
<1>6. CASE Score \/ Announce \/ Hold \/ NothingToHold \/ ServerChanges
  BY <1>6, ScoreReview, AnnounceReview, HoldReview, NothingToHoldReview, ServerReview
<1>7. CASE Notice \/ Admin \/ SwitchTab
  BY <1>7, NoticeReview, AdminReview, SwitchReview
<1>8. QED
  BY <1>2, <1>3, <1>4, <1>5, <1>6, <1>7 DEF Next

\* The page has just been opened on one of the tabs.
LEMMA ReviewInit == Init => ReviewInv
<1> SUFFICES ASSUME Init PROVE ReviewInv
  OBVIOUS
<1>1. /\ kind \in Kind /\ MaxVersions[kind] \in Nat \ {0}
      /\ entries = 0 /\ badge = 0 /\ dialog = NoDialog /\ busy = NoKey /\ calls = << >> /\ missed = FALSE
  BY VersionsAssumption DEF Init, NotLoaded
<1>2. past \in Seq(Versions) /\ Len(past) = 1
  <2>1. PICK f \in Found(kind) : past = << f >>
    BY DEF Init
  <2>2. f \in Versions
    BY DEF Found, Versions, States, Key, Roles
  <2>3. QED
    BY <2>1, <2>2
<1>3. /\ tab \in {"audit", "review"} /\ visits \in Seq({"audit", "review"})
      /\ visits # << >> => visits[1] # tab
      /\ \A i \in 1..(Len(visits) - 1) : visits[i] # visits[i + 1]
  <2>1. PICK v \in Visits : tab = Head(v) /\ visits = Tail(v)
    BY DEF Init
  <2>2. /\ v \in Seq({"audit", "review"}) /\ v # << >>
        /\ \A i \in 1..(Len(v) - 1) : v[i] # v[i + 1]
    BY VisitsAssumption
  <2>3. /\ tab = v[1] /\ visits \in Seq({"audit", "review"}) /\ Len(visits) = Len(v) - 1
        /\ \A i \in 1..Len(visits) : visits[i] = v[i + 1]
        /\ Len(v) \in Nat \ {0} /\ tab \in {"audit", "review"}
    BY <2>1, <2>2
  <2>4. visits # << >> => visits[1] # tab
    BY <2>2, <2>3
  <2>5. ASSUME NEW i \in 1..(Len(visits) - 1) PROVE visits[i] # visits[i + 1]
    <3>1. i + 1 \in 1..(Len(v) - 1) /\ i \in 1..Len(visits) /\ i + 1 \in 1..Len(visits)
      BY <2>3
    <3>2. QED
      BY <2>2, <2>3, <3>1
  <2>6. QED
    BY <2>3, <2>4, <2>5
<1>4. /\ gets \in Seq(Gets) /\ \A i \in 1..Len(gets) : gets[i].since <= Len(past)
      /\ IF tab = "audit" THEN gets = << >>
         ELSE Len(gets) = 1 /\ gets[1].since = 1 /\ gets[1].mounted = TRUE
  <2>1. CASE tab = "audit"
    <3>1. gets = << >>
      BY <2>1 DEF Init
    <3>2. QED
      BY <2>1, <3>1
  <2>2. CASE tab # "audit"
    <3>1. gets = << [since |-> 1, mounted |-> TRUE] >>
      BY <1>2, <2>2 DEF Init, Get, version
    <3>2. [since |-> 1, mounted |-> TRUE] \in Gets
      BY <1>1 DEF Gets
    <3>3. gets \in Seq(Gets) /\ Len(gets) = 1 /\ gets[1] = [since |-> 1, mounted |-> TRUE]
      BY <3>1, <3>2
    <3>4. gets[1].since = 1 /\ gets[1].mounted = TRUE
      BY <3>3
    <3>5. QED
      BY <1>2, <2>2, <3>3, <3>4
  <2>3. QED
    BY <2>1, <2>2
<1>5. ReviewTyped
  <2>1. calls \in Seq(Calls) /\ Len(past) \in 1..MaxVersions[kind]
    BY <1>1, <1>2
  <2>2. entries \in 0..Len(past) /\ badge \in 0..Len(past)
    BY <1>1, <1>2
  <2>3. dialog = NoDialog /\ busy \in Key \cup {NoKey} /\ missed \in BOOLEAN
    BY <1>1, Zenon
  <2>4. QED
    BY <1>1, <1>2, <1>4, <2>1, <2>2, <2>3, Zenon DEF ReviewTyped
<1>6. gets = << >> \/ (Current /\ CurrentHere)
  BY <1>2, <1>4 DEF Current, CurrentHere, version
<1>7. PageInv
  BY <1>1, <1>3, <1>4 DEF PageInv, NotLoaded, NothingHere
<1>8. BadgeInv /\ EntriesInv
  BY <1>1, <1>6 DEF BadgeInv, EntriesInv, NothingHere, NotLoaded
<1>9. QED
  BY <1>5, <1>7, <1>8 DEF ReviewInv

\* For any table, tabs visited, decisions here and elsewhere, lost, late and
\* overtaken answers: with nothing under way, the review table and the count on
\* its tab are what the server would answer, unless one of the named things
\* explains why not (QuarantineReview.tsx:33-69, intercept_handlers.go:66-76).
THEOREM ReviewIsExplained == Spec => []ReviewExplained
<1>1. Init => NoticeInv /\ ReviewInv
  BY NoticeInit, ReviewInit
<1>2. NoticeInv /\ ReviewInv /\ [Next]_vars => (NoticeInv /\ ReviewInv)'
  BY NoticeStep, ReviewStep DEF NoticeInv
<1>3. ReviewInv => ReviewExplained
  <2> SUFFICES ASSUME ReviewInv, gets = << >>, calls = << >>, inbox = << >>, scored # "scored", ~missed
               PROVE  (badge # NotLoaded => past[badge] = table)
                      /\ (entries # NotLoaded => past[entries] = table)
    BY DEF ReviewExplained
  <2>1. ~Told /\ ~Current /\ ~CurrentHere
    BY DEF Told, Current, CurrentHere
  <2>2. badge = version \/ badge = NotLoaded
    BY <2>1 DEF ReviewInv, BadgeInv, PageInv
  <2>3. entries = version \/ entries = NotLoaded
    BY <2>1 DEF ReviewInv, EntriesInv
  <2>4. QED
    BY <2>2, <2>3 DEF table
<1>4. QED
  BY <1>1, <1>2, <1>3, PTL DEF Spec

-------------------------------------------------------------------------------
(* The types of the page *)

\* A list has no more whole pages than entries.
LEMMA DivSmaller ==
  ASSUME NEW a \in Nat, NEW k \in Nat \ {0}
  PROVE  a \div k <= a
BY SMTT(20)

\* There are no more pages than rows, but for the empty one.
LEMMA PagesCounted ==
  ASSUME NEW n \in Nat, NEW q, NEW p \in Nat, p < pageCount(filtered(n, q)), p # 0
  PROVE  p <= n
<1> DEFINE f == filtered(n, q)
           c == Cardinality(f)
<1>1. IsFiniteSet(1..n) /\ Cardinality(1..n) = n
  BY FS_Interval
<1>2. c \in Nat /\ IsFiniteSet(f) /\ f \subseteq 1..n
  BY RowsCounted DEF filtered
<1>3. c <= n
  BY <1>1, <1>2, FS_Subset
<1>4. f # {}
  BY DEF pageCount
<1>5. c # 0
  BY <1>2, <1>4, FS_EmptySet
<1>6. c - 1 \in Nat
  BY <1>2, <1>5
<1> HIDE DEF c
<1>7. ((c - 1) + PAGE_SIZE) \div PAGE_SIZE = ((c - 1) \div PAGE_SIZE) + 1
  BY <1>6, PageSizeAssumption, DivStep
<1>8. (c - 1) \div PAGE_SIZE \in Nat /\ (c - 1) \div PAGE_SIZE <= c - 1
  BY <1>6, PageSizeAssumption, DivStep, DivSmaller
<1>9. c + PAGE_SIZE - 1 = (c - 1) + PAGE_SIZE
  BY <1>2, PageSizeAssumption
<1>10. p < (c + PAGE_SIZE - 1) \div PAGE_SIZE
  BY <1>4 DEF pageCount, c
<1>11. QED
  BY <1>2, <1>3, <1>7, <1>8, <1>9, <1>10

\* The log, what is on the screen, and what else the tabs share.  A verdict is
\* announced only after it is in the log.
Logs == 0..MaxRows
Entries == 1..MaxRows

LogTyped == log \in Logs /\ (scored = "scored" => log # 0)

ScreenTyped ==
  /\ rows \in Logs /\ page \in Logs /\ unseen \subseteq Entries
  /\ query \in BOOLEAN /\ shrunk \in BOOLEAN /\ sortOrder \in {"newest", "oldest"}

LoadsTyped ==
  /\ loads \in Seq(Logs) /\ Len(loads) <= MaxLoads
  /\ owed \in Logs /\ fresh \in BOOLEAN

TabTyped ==
  /\ tab \in {"audit", "review"} /\ visits \in Seq({"audit", "review"})
  /\ inbox \in Seq(Entries)
  /\ scored \in {"idle", "scored", "announced"} /\ faults \in 0..MaxFaults

PageTyped == LogTyped /\ ScreenTyped /\ LoadsTyped /\ TabTyped

\* A request that is answered or lost leaves the others.
LEMMA FewerLoads ==
  ASSUME LoadsTyped, NEW i \in DOMAIN loads, loads' = RemoveAt(loads, i),
         owed' = owed, fresh' \in BOOLEAN
  PROVE  LoadsTyped'
<1> DEFINE a == SubSeq(loads, 1, i - 1)
           b == SubSeq(loads, i + 1, Len(loads))
<1>1. /\ loads \in Seq(Logs) /\ i \in 1..Len(loads) /\ Len(loads) \in Nat
      /\ Len(loads) <= MaxLoads
  BY DEF LoadsTyped
<1>2. a \in Seq(Logs) /\ Len(a) = i - 1
  BY <1>1
<1>3. b \in Seq(Logs) /\ Len(b) = Len(loads) - i
  BY <1>1
<1>4. loads' = a \o b
  BY DEF RemoveAt
<1> HIDE DEF a, b
<1>5. loads' \in Seq(Logs) /\ Len(loads') = Len(a) + Len(b)
  BY <1>2, <1>3, <1>4, ConcatProperties
<1>6. Len(loads') <= MaxLoads
  BY <1>1, <1>2, <1>3, <1>5, MaxLoadsAssumption
<1>7. QED
  BY <1>5, <1>6 DEF LoadsTyped

\* Only the newest request is out.
LEMMA OneLoad ==
  ASSUME LogTyped, NEW n \in Logs, loads' = << log >>, owed' = n, fresh' = FALSE
  PROVE  LoadsTyped'
<1>1. << log >> \in Seq(Logs) /\ Len(<< log >>) = 1
  BY DEF LogTyped
<1>2. fresh' \in BOOLEAN
  BY Zenon
<1>3. loads' \in Seq(Logs) /\ Len(loads') <= MaxLoads
  BY <1>1, MaxLoadsAssumption
<1>4. QED
  BY <1>2, <1>3 DEF LoadsTyped, Logs

\* Showing rows of the log, on a page that there is or on the one before.
LEMMA ShowTyped ==
  ASSUME ScreenTyped, NEW n \in Logs, NEW q \in BOOLEAN,
         NEW order \in {"newest", "oldest"}, NEW p \in Logs, Show(n, q, order, p)
  PROVE  ScreenTyped'
<1>1. filtered(n, q) \subseteq Entries
  BY MaxRowsAssumption DEF filtered, Logs, Entries
<1>2. /\ rows' = n /\ query' = q /\ sortOrder' = order /\ page' = p
      /\ unseen' \subseteq filtered(n, q) \cup unseen /\ shrunk' \in BOOLEAN
  BY DEF Show
<1>3. QED
  BY <1>1, <1>2 DEF ScreenTyped

\* What the reader does to the screen.
LEMMA ReaderTyped == ASSUME ScreenTyped, Read PROVE ScreenTyped'
<1>1. /\ rows \in Nat /\ rows \in Logs /\ page \in Logs /\ page \in Nat
      /\ query \in BOOLEAN /\ sortOrder \in {"newest", "oldest"} /\ 0 \in Logs
      /\ MaxRows \in Nat
  BY MaxRowsAssumption DEF ScreenTyped, Logs
<1>2. pageCount(shown) \in Nat \ {0} /\ shown = filtered(rows, query)
  BY <1>1, PageBound DEF shown
<1>3. CASE handleQueryChange
  BY <1>1, <1>3, ShowTyped DEF handleQueryChange
<1>4. CASE toggleSortOrder
  <2>1. Other(sortOrder) \in {"newest", "oldest"}
    BY DEF Other
  <2>2. QED
    BY <1>1, <1>4, <2>1, ShowTyped DEF toggleSortOrder
<1>5. CASE Previous
  <2>1. Show(rows, query, sortOrder, page - 1) /\ here > 0
    BY <1>5 DEF Previous
  <2>2. page - 1 \in Logs
    BY <1>1, <1>2, <2>1 DEF here, currentPage, Logs
  <2>3. QED
    BY <1>1, <2>1, <2>2, ShowTyped
<1>6. CASE NextPage
  <2>1. Show(rows, query, sortOrder, page + 1) /\ here < pageCount(shown) - 1
    BY <1>6 DEF NextPage
  <2>2. page + 1 \in Nat /\ page + 1 # 0 /\ page + 1 < pageCount(filtered(rows, query))
    BY <1>1, <1>2, <2>1 DEF here, currentPage
  <2>3. page + 1 <= rows
    BY <1>1, <2>2, PagesCounted
  <2>4. page + 1 \in Logs
    BY <1>1, <2>2, <2>3 DEF Logs
  <2>5. QED
    BY <1>1, <2>1, <2>4, ShowTyped
<1>7. QED
  BY <1>3, <1>4, <1>5, <1>6 DEF Read

\* A tab is left: the audit log's table starts anew or is gone.
LEMMA SwitchTyped == ASSUME PageTyped, SwitchTab PROVE PageTyped'
<1>1. LogTyped /\ LoadsTyped /\ TabTyped /\ MaxRows \in Nat
  BY MaxRowsAssumption DEF PageTyped
<1>2. AuditMount \/ AuditUnmount
  BY DEF SwitchTab
<1>3. LogTyped'
  BY <1>1 DEF SwitchTab, LogTyped
<1>4. ScreenTyped'
  <2>1. AuditMounted
    BY <1>2 DEF AuditMount, AuditUnmount
  <2>2. query' \in BOOLEAN /\ shrunk' \in BOOLEAN
    BY <2>1, Zenon DEF AuditMounted
  <2>3. rows' \in Logs /\ page' \in Logs
    BY <1>1, <2>1 DEF AuditMounted, Logs
  <2>4. unseen' \subseteq Entries' /\ sortOrder' \in {"newest", "oldest"}
    BY <2>1 DEF AuditMounted
  <2>5. QED
    BY <2>2, <2>3, <2>4 DEF ScreenTyped, Logs
<1>5. LoadsTyped'
  <2>1. CASE AuditMount
    <3>1. 0 \in Logs /\ loads' = << log >> /\ owed' = 0 /\ fresh' = FALSE
      BY <1>1, <2>1 DEF AuditMount, Logs
    <3>2. QED
      BY <1>1, <3>1, OneLoad
  <2>2. CASE AuditUnmount
    <3>1. loads' = << >> /\ owed' = 0 /\ fresh' = FALSE
      BY <2>2 DEF AuditUnmount
    <3>2. << >> \in Seq(Logs) /\ Len(<< >>) = 0 /\ 0 \in Logs
      BY <1>1 DEF Logs
    <3>3. fresh' \in BOOLEAN
      BY <3>1, Zenon
    <3>4. loads' \in Seq(Logs) /\ Len(loads') <= MaxLoads /\ owed' \in Logs
      BY <3>1, <3>2, MaxLoadsAssumption
    <3>5. QED
      BY <3>3, <3>4 DEF LoadsTyped, Logs
  <2>3. QED
    BY <1>2, <2>1, <2>2
<1>6. TabTyped'
  <2>1. /\ visits # << >> /\ tab' = Head(visits) /\ visits' = Tail(visits)
        /\ UNCHANGED << inbox, scored, faults >>
    BY DEF SwitchTab
  <2>2. QED
    BY <1>1, <2>1 DEF TabTyped
<1>7. QED
  BY <1>3, <1>4, <1>5, <1>6 DEF PageTyped

\* Every step keeps the types.
LEMMA PageTypedStep == PageTyped /\ [Next]_vars => PageTyped'
<1> SUFFICES ASSUME PageTyped, [Next]_vars PROVE PageTyped'
  OBVIOUS
<1>1. LogTyped /\ ScreenTyped /\ LoadsTyped /\ TabTyped
  BY DEF PageTyped
<1>2. ASSUME UNCHANGED << rows, reading >> PROVE ScreenTyped'
  BY <1>1, <1>2 DEF ScreenTyped, reading
<1>3. ASSUME UNCHANGED << loads, owed, fresh >> PROVE LoadsTyped'
  BY <1>1, <1>3 DEF LoadsTyped
<1>4. ASSUME UNCHANGED << log, scored >> PROVE LogTyped'
  BY <1>1, <1>4 DEF LogTyped
<1>5. ASSUME UNCHANGED << tab, visits, inbox, scored >>, UNCHANGED faults \/ Fault PROVE TabTyped'
  <2>1. faults' \in 0..MaxFaults
    BY <1>1, <1>5, MaxFaultsAssumption DEF Fault, TabTyped
  <2>2. QED
    BY <1>1, <1>5, <2>1 DEF TabTyped
<1>6. CASE Score
  <2>1. /\ scored' = "scored" /\ log < MaxRows /\ log' = log + 1
        /\ UNCHANGED << loads, rows, reading, owed, fresh, tab, inbox, visits, faults >>
    BY <1>6 DEF Score
  <2>2. LogTyped' /\ TabTyped'
    BY <1>1, <2>1, MaxRowsAssumption DEF LogTyped, TabTyped, Logs
  <2>3. QED
    BY <1>2, <1>3, <2>1, <2>2 DEF PageTyped
<1>7. CASE Announce
  <2>1. /\ scored = "scored" /\ scored' = "announced" /\ UNCHANGED auditVars
        /\ UNCHANGED << tab, visits >>
        /\ \/ inbox' = Append(inbox, log) /\ UNCHANGED faults
           \/ Fault /\ UNCHANGED inbox
    BY <1>7 DEF Announce
  <2>2. log \in Entries
    BY <1>1, <2>1, MaxRowsAssumption DEF LogTyped, Logs, Entries
  <2>3. inbox' \in Seq(Entries)
    BY <1>1, <2>1, <2>2 DEF TabTyped
  <2>4. faults' \in 0..MaxFaults
    BY <1>1, <2>1, MaxFaultsAssumption DEF Fault, TabTyped
  <2>5. LogTyped' /\ TabTyped'
    BY <1>1, <2>1, <2>3, <2>4 DEF LogTyped, TabTyped, auditVars
  <2>6. QED
    BY <1>2, <1>3, <2>1, <2>5 DEF PageTyped, auditVars
<1>8. CASE Hold \/ NothingToHold
  <2>1. scored' = "idle" /\ UNCHANGED auditVars /\ UNCHANGED << tab, inbox, visits, faults >>
    BY <1>8 DEF Hold, NothingToHold
  <2>2. LogTyped' /\ TabTyped'
    BY <1>1, <2>1 DEF LogTyped, TabTyped, auditVars
  <2>3. QED
    BY <1>2, <1>3, <2>1, <2>2 DEF PageTyped, auditVars
<1>9. CASE ServerChanges
  <2>1. /\ log' \in {log, log + 1} /\ log' \in {log} \cup Logs
        /\ UNCHANGED << loads, rows, reading, owed, fresh, tab, inbox, scored, visits, faults >>
    BY <1>9 DEF ServerChanges, Logs
  <2>2. LogTyped'
    BY <1>1, <2>1, MaxRowsAssumption DEF LogTyped, Logs
  <2>3. QED
    BY <1>2, <1>3, <1>5, <2>1, <2>2 DEF PageTyped
<1>10. CASE Notice
  <2>1. /\ inbox # << >> /\ inbox' = Tail(inbox) /\ UNCHANGED << tab, scored, visits, faults >>
        /\ (AuditRefresh(Head(inbox)) /\ UNCHANGED log) \/ UNCHANGED auditVars
    BY <1>10 DEF Notice
  <2>2. inbox' \in Seq(Entries) /\ Head(inbox) \in Entries
    BY <1>1, <2>1 DEF TabTyped
  <2>3. TabTyped'
    BY <1>1, <2>1, <2>2 DEF TabTyped
  <2>4. CASE AuditRefresh(Head(inbox)) /\ UNCHANGED log
    <3>1. Head(inbox) \in Logs
      BY <2>2 DEF Logs, Entries
    <3>2. LoadsTyped'
      BY <1>1, <2>4, <3>1, OneLoad DEF AuditRefresh
    <3>3. QED
      BY <1>2, <1>4, <2>1, <2>3, <2>4, <3>2 DEF PageTyped, AuditRefresh
  <2>5. CASE UNCHANGED auditVars
    BY <1>2, <1>3, <1>4, <2>1, <2>3, <2>5 DEF PageTyped, auditVars
  <2>6. QED
    BY <2>1, <2>4, <2>5
<1>11. CASE Poll
  <2>1. /\ loads' = Append(loads, log) /\ Len(loads') <= MaxLoads
        /\ UNCHANGED << log, rows, reading, owed, fresh, tab, inbox, scored, visits, faults >>
    BY <1>11 DEF Poll, AuditPoll
  <2>2. Append(loads, log) \in Seq(Logs)
    BY <1>1 DEF LoadsTyped, LogTyped
  <2>3. LoadsTyped'
    BY <1>1, <2>1, <2>2 DEF LoadsTyped
  <2>4. QED
    BY <1>2, <1>4, <1>5, <2>1, <2>3 DEF PageTyped
<1>12. CASE Reader
  <2>1. Read /\ UNCHANGED << tab, inbox, scored, visits, faults >>
    BY <1>12 DEF Reader
  <2>2. ScreenTyped' /\ UNCHANGED << log, loads, owed, fresh >>
    BY <1>1, <2>1, ReaderTyped DEF Read
  <2>3. QED
    BY <1>3, <1>4, <1>5, <2>1, <2>2 DEF PageTyped
<1>13. CASE Admin
  <2>1. UNCHANGED auditVars /\ UNCHANGED << tab, inbox, scored, visits, faults >>
    BY <1>13 DEF Admin
  <2>2. QED
    BY <1>2, <1>3, <1>4, <1>5, <2>1 DEF PageTyped, auditVars
<1>14. ASSUME NEW i \in DOMAIN loads, AuditAnswer(i) PROVE PageTyped'
  <2>1. /\ loads' = RemoveAt(loads, i) /\ UNCHANGED << log, owed, tab, inbox, scored, visits >>
        /\ UNCHANGED faults \/ Fault
        /\ \/ UNCHANGED << rows, reading, fresh >>
           \/ fresh' = TRUE /\ \E n \in loads[i]..log : Show(n, query, sortOrder, page)
    BY <1>14 DEF AuditAnswer, AuditArrives, AuditFails
  <2>2. LoadsTyped'
    <3>1. fresh' \in BOOLEAN
      BY <1>1, <2>1 DEF LoadsTyped
    <3>2. QED
      BY <1>1, <1>14, <2>1, <3>1, FewerLoads
  <2>3. ScreenTyped'
    <3>1. CASE UNCHANGED << rows, reading >>
      BY <1>2, <3>1
    <3>2. ASSUME NEW n \in loads[i]..log, Show(n, query, sortOrder, page) PROVE ScreenTyped'
      <4>1. loads[i] \in Logs /\ log \in Logs /\ MaxRows \in Nat
        BY <1>1, <1>14, MaxRowsAssumption DEF LoadsTyped, LogTyped
      <4>2. n \in Logs
        BY <3>2, <4>1 DEF Logs
      <4>3. query \in BOOLEAN /\ sortOrder \in {"newest", "oldest"} /\ page \in Logs
        BY <1>1 DEF ScreenTyped
      <4>4. QED
        BY <1>1, <3>2, <4>2, <4>3, ShowTyped
    <3>3. QED
      BY <2>1, <3>1, <3>2
  <2>4. QED
    BY <1>4, <1>5, <2>1, <2>2, <2>3 DEF PageTyped
<1>15. ASSUME NEW i, ReviewAnswer(i) PROVE PageTyped'
  <2>1. UNCHANGED auditVars /\ UNCHANGED << tab, inbox, scored, visits >> /\ (UNCHANGED faults \/ Fault)
    BY <1>15 DEF ReviewAnswer
  <2>2. QED
    BY <1>2, <1>3, <1>4, <1>5, <2>1 DEF PageTyped, auditVars
<1>16. ASSUME NEW i, CallAnswered(i) PROVE PageTyped'
  <2>1. UNCHANGED << log, tab, inbox, scored, visits >> /\ (UNCHANGED faults \/ Fault)
    BY <1>16 DEF CallAnswered, auditVars
  <2>2. UNCHANGED << loads, rows, reading, owed, fresh >> \/ AuditRefresh(owed)
    BY <1>16 DEF CallAnswered, onDecision, auditVars
  <2>3. CASE UNCHANGED << loads, rows, reading, owed, fresh >>
    BY <1>2, <1>3, <1>4, <1>5, <2>1, <2>3 DEF PageTyped
  <2>4. CASE AuditRefresh(owed)
    <3>1. owed \in Logs
      BY <1>1 DEF LoadsTyped
    <3>2. LoadsTyped'
      BY <1>1, <2>4, <3>1, OneLoad DEF AuditRefresh
    <3>3. QED
      BY <1>2, <1>4, <1>5, <2>1, <2>4, <3>2 DEF PageTyped, AuditRefresh
  <2>5. QED
    BY <2>2, <2>3, <2>4
<1>17. CASE UNCHANGED vars
  BY <1>2, <1>3, <1>4, <1>5, <1>17 DEF vars, auditVars, PageTyped
<1>18. QED
  BY <1>1, <1>6, <1>7, <1>8, <1>9, <1>10, <1>11, <1>12, <1>13, <1>14, <1>15, <1>16, <1>17,
     SwitchTyped DEF Next, PageTyped

\* The page has just been opened.
LEMMA PageTypedInit == Init => PageTyped
<1> SUFFICES ASSUME Init PROVE PageTyped
  OBVIOUS
<1>1. MaxRows \in Nat \ {0}
  BY MaxRowsAssumption
<1>2. LogTyped
  BY <1>1, FirstRowsAssumption DEF Init, LogTyped, Logs
<1>3. ScreenTyped
  <2>1. query \in BOOLEAN /\ shrunk \in BOOLEAN
    BY Zenon DEF Init
  <2>2. rows = 0 /\ page = 0 /\ unseen = {} /\ sortOrder = "newest" /\ 0 \in Logs
    BY <1>1, FirstRowsAssumption DEF Init, Logs
  <2>3. QED
    BY <2>1, <2>2 DEF ScreenTyped
<1>4. LoadsTyped
  <2>1. << log >> \in Seq(Logs) /\ Len(<< log >>) = 1
    BY <1>2 DEF LogTyped
  <2>2. << >> \in Seq(Logs) /\ Len(<< >>) = 0
    OBVIOUS
  <2>3. loads \in {<< log >>, << >>} /\ owed = 0
    BY DEF Init
  <2>4. fresh \in BOOLEAN
    BY Zenon DEF Init
  <2>5. loads \in Seq(Logs) /\ Len(loads) <= 1
    <3>1. CASE loads = << log >>
      BY <2>1, <3>1
    <3>2. CASE loads = << >>
      BY <2>2, <3>2
    <3>3. QED
      BY <2>3, <3>1, <3>2
  <2>6. Len(loads) <= MaxLoads
    BY <2>5, MaxLoadsAssumption
  <2>7. QED
    BY <1>1, <2>3, <2>4, <2>5, <2>6 DEF LoadsTyped, Logs
<1>5. TabTyped
  <2>1. PICK v \in Visits : tab = Head(v) /\ visits = Tail(v)
    BY DEF Init
  <2>2. v \in Seq({"audit", "review"}) /\ v # << >>
    BY VisitsAssumption
  <2>3. tab \in {"audit", "review"} /\ visits \in Seq({"audit", "review"})
    BY <2>1, <2>2
  <2>4. inbox = << >> /\ scored = "idle" /\ faults = 0
    BY DEF Init
  <2>5. QED
    BY <2>3, <2>4, MaxFaultsAssumption DEF TabTyped
<1>6. QED
  BY <1>2, <1>3, <1>4, <1>5 DEF PageTyped

\* For any log, page size, table, tabs visited and faults, every variable of the
\* page and of the server's tables keeps its type: in particular no table shows
\* a version that the server never had, and no page number goes past the pages
\* there can be (AuditLogTable.tsx:229-248, PendingHashApprovals.tsx:50-60).
THEOREM TypeCorrect == Spec => []TypeOK
<1>1. Init => PageTyped /\ NoticeInv /\ ReviewInv
  BY NoticeInit, ReviewInit, PageTypedInit
<1>2. PageTyped /\ NoticeInv /\ ReviewInv /\ [Next]_vars => (PageTyped /\ NoticeInv /\ ReviewInv)'
  BY NoticeStep, ReviewStep, PageTypedStep DEF NoticeInv
<1>3. PageTyped /\ ReviewInv => TypeOK
  <2> SUFFICES ASSUME PageTyped, ReviewInv PROVE TypeOK
    OBVIOUS
  <2>1. ReviewTyped
    BY DEF ReviewInv
  <2>2. AuditTypeOK
    BY DEF PageTyped, LogTyped, ScreenTyped, LoadsTyped, AuditTypeOK, Logs, Entries
  <2>3. {entries, badge} \subseteq NotLoaded..MaxVersions[kind]
    BY <2>1, TableType DEF ReviewTyped, NotLoaded
  <2>4. past \in Seq([Key -> {"absent", "pending"} \cup Decisions \cup Roles])
    BY <2>1 DEF ReviewTyped, Versions, States
  <2>5. gets \in Seq([since : 1..MaxVersions[kind], mounted : BOOLEAN])
    BY <2>1 DEF ReviewTyped, Gets
  <2>6. dialog \in [key : Key, as : Decisions \cup {"absent"}] \cup {NoDialog}
    BY <2>1 DEF ReviewTyped
  <2>7. ReviewTypeOK
    BY <2>1, <2>3, <2>4, <2>5, <2>6 DEF ReviewTyped, ReviewTypeOK
  <2>8. \A i \in DOMAIN inbox : inbox[i] \in Entries
    BY DEF PageTyped, TabTyped
  <2>9. /\ tab \in {"audit", "review"} /\ scored \in {"idle", "scored", "announced"}
        /\ faults \in 0..MaxFaults
    BY DEF PageTyped, TabTyped
  <2>10. QED
    BY <2>2, <2>7, <2>8, <2>9, Zenon DEF TypeOK, Entries
<1>4. QED
  BY <1>1, <1>2, <1>3, PTL DEF Spec
===============================================================================
