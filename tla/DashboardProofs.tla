---------------------------- MODULE DashboardProofs ---------------------------
(***************************************************************************)
(* What two parts of the dashboard promise, for any files, events and      *)
(* bounds.                                                                 *)
(*                                                                         *)
(* EventFeed: both properties rest on FeedInv.  Positions are only         *)
(* reported while there are rows (RowsInv); the effect that is due decides *)
(* about exactly the rows drawn since the one before (EffectInv); and      *)
(* while nothing has moved the rows and no report was overtaken, the list  *)
(* either stands near its end or is about to be taken there (FollowInv),   *)
(* and what was drawn is either counted or about to be (CountInv).         *)
(*                                                                         *)
(* Session: only the digest of the file shown can be under way, unless a   *)
(* file was picked while another one's was (PanelInv).                     *)
(* Every call under way is sound (Sounds): one that was refused was sent   *)
(* under a session that is over, the loads are those of the user shown,    *)
(* and a login or the page's first call is the only one that can change    *)
(* whose page it is (SessionInv), from which the types follow.             *)
(***************************************************************************)
EXTENDS EventFeed, Session, FiniteSetTheorems, SequenceTheorems, TLAPS

\* Nothing but arrivals has changed the rows, and every report came in time.
Undisturbed == open /\ ~moved /\ ~raced

\* The effect that is due will take the list to its end.
WillFollow == effect /\ closure /\ Undecided > 0

\* Events are numbered as they arrive, so that none is in a list twice.
Numbered(es) ==
  /\ \A i \in DOMAIN es : es[i] \in 1..MaxMessages /\ es[i] <= messages
  /\ \A i, j \in DOMAIN es : i < j => es[i] < es[j]

NumberInv == Numbered(events) /\ Numbered(drawn)

RowsInv ==
  /\ ~reported => Filtered(drawn, activeFilters) # {}
  /\ Filtered(drawn, activeFilters) = {} => top = 0
  /\ ~moved => \/ Filtered(drawn, activeFilters) # {}
               \/ drawn = << >> /\ activeFilters = Type

EffectInv ==
  /\ ~effect => prevLength = Len(drawn)
  /\ Undisturbed /\ Stale => ~autoScroll

FollowInv ==
  Undisturbed =>
    /\ ~away => Below <= NearRows \/ (WillFollow /\ reported)
    /\ ~away /\ reported => autoScroll
    /\ away /\ reported => ~autoScroll

CountInv ==
  Undisturbed =>
    /\ autoScroll => newCount = 0
    /\ IF WillFollow THEN newCount = 0 ELSE unread = newCount + Undecided

FeedInv == FeedTypeOK /\ NumberInv /\ RowsInv /\ EffectInv /\ FollowInv /\ CountInv

-------------------------------------------------------------------------------
(* Lists of events *)

\* What a list holds.
LEMMA ElementType ==
  ASSUME NEW S, NEW es \in Seq(S)
  PROVE  \A i \in DOMAIN es : i \in 1..Len(es) /\ es[i] \in S
OBVIOUS

\* The rows shown are some of the list's positions.
LEMMA RowsBounded ==
  ASSUME NEW S, NEW es \in Seq(S), NEW fs
  PROVE  /\ IsFiniteSet(Filtered(es, fs))
         /\ Cardinality(Filtered(es, fs)) \in 0..Len(es)
         /\ Cardinality(Filtered(es, fs)) = 0 <=> Filtered(es, fs) = {}
<1>1. Len(es) \in Nat /\ Filtered(es, fs) \subseteq 1..Len(es)
  BY DEF Filtered
<1>2. IsFiniteSet(1..Len(es)) /\ Cardinality(1..Len(es)) = Len(es)
  <2>1. \A b \in Int : IsFiniteSet(1..b) /\ Cardinality(1..b) = IF 1 > b THEN 0 ELSE b - 1 + 1
    BY FS_Interval
  <2>2. QED
    BY <1>1, <2>1
<1>3. IsFiniteSet(Filtered(es, fs)) /\ Cardinality(Filtered(es, fs)) <= Len(es)
  BY <1>1, <1>2, FS_Subset
<1>4. Cardinality(Filtered(es, fs)) \in Nat
  BY <1>3, FS_CardinalityType
<1>5. QED
  BY <1>1, <1>3, <1>4, FS_EmptySet

\* Where a list ends.
LEMMA EndBounded ==
  ASSUME NEW es \in Seq(1..MaxMessages), Len(es) <= MAX_EVENTS, NEW fs
  PROVE  /\ End(es, fs) \in 0..MAX_EVENTS
         /\ Filtered(es, fs) = {} => End(es, fs) = 0
BY RowsBounded, BoundsAssumption DEF End

\* What arrivals leave alone.
LEMMA PrefixStays ==
  ASSUME NEW S, NEW s \in Seq(S), NEW t \in Seq(S), IsPrefix(s, t)
  PROVE  /\ Len(s) <= Len(t)
         /\ \A i \in DOMAIN s : i \in DOMAIN t /\ t[i] = s[i]
         /\ s # t => Len(s) < Len(t)
         /\ \A fs : Filtered(s, fs) \subseteq Filtered(t, fs)
<1>1. Len(s) <= Len(t) /\ SubSeq(s, 1, Len(s)) = SubSeq(t, 1, Len(s))
  BY DEF IsPrefix
<1>2. ASSUME NEW i \in DOMAIN s PROVE i \in DOMAIN t /\ t[i] = s[i]
  <2>1. i \in 1..Len(s) /\ i \in DOMAIN t
    BY <1>1
  <2>2. SubSeq(s, 1, Len(s))[i] = s[i] /\ SubSeq(t, 1, Len(s))[i] = t[i]
    BY <1>1, <2>1
  <2>3. QED
    BY <1>1, <2>1, <2>2
<1>3. ASSUME Len(s) = Len(t) PROVE s = t
  BY <1>2, <1>3
<1>4. QED
  BY <1>1, <1>2, <1>3 DEF Filtered

\* How many positions follow the first m of n.
LEMMA IntervalSize ==
  ASSUME NEW m \in Nat, NEW n \in Nat, m <= n
  PROVE  IsFiniteSet((m + 1)..n) /\ Cardinality((m + 1)..n) = n - m
<1> DEFINE a == m + 1
<1>1. a \in Int /\ (a > n => n - m = 0) /\ (~(a > n) => n - a + 1 = n - m)
  OBVIOUS
<1> HIDE DEF a
<1>2. IsFiniteSet(a..n) /\ Cardinality(a..n) = IF a > n THEN 0 ELSE n - a + 1
  BY <1>1, FS_Interval
<1>3. IsFiniteSet(a..n) /\ Cardinality(a..n) = n - m
  BY <1>1, <1>2
<1>4. QED
  BY <1>3 DEF a

\* As many events arrived as the list has grown.
LEMMA ArrivalsCounted ==
  ASSUME NEW s \in Seq(1..MaxMessages), NEW t \in Seq(1..MaxMessages), IsPrefix(s, t),
         \A i, j \in DOMAIN t : i < j => t[i] < t[j]
  PROVE  Cardinality(ToSet(t) \ ToSet(s)) = Len(t) - Len(s)
<1> DEFINE I == (Len(s) + 1)..Len(t)
           N == ToSet(t) \ ToSet(s)
           f == [i \in I |-> t[i]]
<1>1. Len(s) <= Len(t) /\ \A i \in DOMAIN s : i \in DOMAIN t /\ t[i] = s[i]
  BY PrefixStays
<1>2. ASSUME NEW i \in DOMAIN t, NEW j \in DOMAIN t, i # j PROVE t[i] # t[j]
  <2>1. i \in 1..Len(t) /\ j \in 1..Len(t) /\ t[i] \in 1..MaxMessages /\ t[j] \in 1..MaxMessages
    BY ElementType
  <2>2. i < j \/ j < i
    BY <1>2, <2>1
  <2>3. t[i] < t[j] \/ t[j] < t[i]
    BY <2>2
  <2>4. QED
    BY <2>1, <2>3
<1>3. ASSUME NEW i \in I PROVE t[i] \in N
  BY <1>1, <1>2, <1>3 DEF ToSet
<1>4. ASSUME NEW e \in N PROVE \E i \in I : t[i] = e
  <2>1. PICK i \in DOMAIN t : t[i] = e
    BY <1>4 DEF ToSet
  <2>2. i \notin DOMAIN s
    BY <1>1, <1>4, <2>1 DEF ToSet
  <2>3. QED
    BY <2>1, <2>2
<1>5. f \in Bijection(I, N)
  <2>1. f \in [I -> N]
    BY <1>3
  <2>2. \A i, j \in I : f[i] = f[j] => i = j
    BY <1>2
  <2>3. \A e \in N : \E i \in I : f[i] = e
    BY <1>4
  <2>4. QED
    BY <2>1, <2>2, <2>3 DEF Bijection, Injection, IsInjective, Surjection
<1>6. IsFiniteSet(I) /\ Cardinality(I) = Len(t) - Len(s)
  <2>1. Len(s) \in Nat /\ Len(t) \in Nat
    OBVIOUS
  <2>2. IsFiniteSet((Len(s) + 1)..Len(t)) /\ Cardinality((Len(s) + 1)..Len(t)) = Len(t) - Len(s)
    BY <1>1, <2>1, IntervalSize
  <2>3. QED
    BY <2>2
<1>7. QED
  BY <1>5, <1>6, FS_Bijection DEF ExistsBijection

\* The list that applyLiveEvent and applyMonitorEvent make.
LEMMA Arrival ==
  ASSUME NEW S, NEW es \in Seq(S), NEW e \in S, NEW n \in Nat, Len(es) <= n, NEW new,
         new = IF Len(Append(es, e)) > n THEN Tail(Append(es, e)) ELSE Append(es, e)
  PROVE  /\ new \in Seq(S) /\ Len(new) \in 0..n
         /\ \/ \A i \in DOMAIN new : i \in DOMAIN Append(es, e) /\ new[i] = Append(es, e)[i]
            \/ \A i \in DOMAIN new : i + 1 \in DOMAIN Append(es, e) /\ new[i] = Append(es, e)[i + 1]
<1> DEFINE longer == Append(es, e)
<1>1. longer \in Seq(S) /\ longer # << >> /\ Len(longer) = Len(es) + 1
  BY AppendProperties
<1> HIDE DEF longer
<1>2. /\ Tail(longer) \in Seq(S) /\ Len(Tail(longer)) = Len(longer) - 1
      /\ \A i \in 1..Len(Tail(longer)) : Tail(longer)[i] = longer[i + 1]
  BY <1>1, HeadTailProperties
<1>3. CASE Len(longer) > n
  BY <1>1, <1>2, <1>3
<1>4. CASE ~(Len(longer) > n)
  BY <1>1, <1>4
<1>5. QED
  BY <1>3, <1>4 DEF longer

\* The rows that arrive are finitely many.
LEMMA ArrivalsType ==
  ASSUME NEW s \in Seq(1..MaxMessages), NEW t \in Seq(1..MaxMessages)
  PROVE  Cardinality(ToSet(t) \ ToSet(s)) \in Nat
<1>1. IsFiniteSet(1..MaxMessages)
  BY BoundsAssumption, FS_Interval
<1>2. ToSet(t) \ ToSet(s) \subseteq 1..MaxMessages
  <2>1. \A i \in DOMAIN t : t[i] \in 1..MaxMessages
    BY ElementType
  <2>2. QED
    BY <2>1 DEF ToSet
<1>3. QED
  BY <1>1, <1>2, FS_Subset, FS_CardinalityType

-------------------------------------------------------------------------------
(* Types *)

\* FeedTypeOK, one variable at a time.
Typed ==
  /\ events \in Seq(1..MaxMessages) /\ drawn \in Seq(1..MaxMessages)
  /\ Len(events) \in 0..MAX_EVENTS /\ Len(drawn) \in 0..MAX_EVENTS
  /\ effect \in BOOLEAN /\ closure \in BOOLEAN /\ open \in BOOLEAN /\ autoScroll \in BOOLEAN
  /\ reported \in BOOLEAN /\ away \in BOOLEAN /\ moved \in BOOLEAN /\ raced \in BOOLEAN
  /\ activeFilters \subseteq Type
  /\ newCount \in Nat /\ unread \in Nat
  /\ prevLength \in 0..MAX_EVENTS /\ top \in 0..MAX_EVENTS
  /\ messages \in 0..MaxMessages /\ moves \in 0..MaxMoves

\* The two ways to state the types agree.
LEMMA TypedIsTypeOK == FeedTypeOK <=> Typed
<1> USE BoundsAssumption
<1>1. FeedTypeOK => Typed
  BY DEF FeedTypeOK, Typed
<1>2. Typed => FeedTypeOK
  BY DEF FeedTypeOK, Typed
<1>3. QED
  BY <1>1, <1>2

\* Every step keeps the types.
LEMMA TypeStep == Typed /\ [FeedNext]_feedVars => Typed'
<1> SUFFICES ASSUME Typed, [FeedNext]_feedVars PROVE Typed'
  OBVIOUS
<1> USE BoundsAssumption DEF Typed
<1>e. \A fs : End(events, fs) \in 0..MAX_EVENTS /\ End(drawn, fs) \in 0..MAX_EVENTS
  BY EndBounded
<1>u. Undecided \in Nat
  BY DEF Undecided
<1>1. CASE Message
  <2>1. messages' \in 1..MaxMessages
    BY <1>1 DEF Message
  <2>2. events' = IF Len(Append(events, messages')) > MAX_EVENTS THEN Tail(Append(events, messages'))
                  ELSE Append(events, messages')
    BY <1>1 DEF Message
  <2>3. events' \in Seq(1..MaxMessages) /\ Len(events') \in 0..MAX_EVENTS
    <3>1. MAX_EVENTS \in Nat /\ Len(events) <= MAX_EVENTS
      OBVIOUS
    <3> HIDE BoundsAssumption DEF Typed
    <3>2. events \in Seq(1..MaxMessages)
      BY DEF Typed
    <3>3. QED
      BY <2>1, <2>2, <3>1, <3>2, Arrival
  <2>4. QED
    BY <1>1, <2>1, <2>3 DEF Message, state, dom, history
<1>2. CASE Clear
  BY <1>2 DEF Clear, Move, state, dom, history
<1>3. CASE Commit
  <2>1. Cardinality(ToSet(events) \ ToSet(drawn)) \in Nat
    BY ArrivalsType
  <2>2. /\ top' \in 0..MAX_EVENTS
        /\ reported' \in BOOLEAN /\ moved' \in BOOLEAN /\ raced' \in BOOLEAN
    <3>1. CASE IsPrefix(drawn, events)
      BY <1>3, <3>1 DEF Commit
    <3>2. CASE ~IsPrefix(drawn, events)
      BY <1>e, <1>3, <3>2 DEF Commit, Rearranged
    <3>3. QED
      BY <3>1, <3>2
  <2>3. unread' \in Nat
    BY <1>3, <2>1 DEF Commit
  <2>4. QED
    BY <1>3, <2>2, <2>3 DEF Commit, state
<1>4. CASE Effect
  <2>1. prevLength' \in 0..MAX_EVENTS /\ effect' \in BOOLEAN
    BY <1>4 DEF Effect
  <2>2. /\ newCount' \in Nat /\ unread' \in Nat
        /\ top' \in 0..MAX_EVENTS /\ reported' \in BOOLEAN
    <3>1. CASE Len(drawn) - prevLength > 0 /\ closure /\ Mounted
      BY <1>e, <1>4, <3>1 DEF Effect
    <3>2. CASE ~(Len(drawn) - prevLength > 0 /\ closure /\ Mounted)
      <4>1. top' = top /\ reported' = reported /\ unread' = unread
        BY <1>4, <3>2 DEF Effect
      <4>2. newCount' = IF Len(drawn) - prevLength > 0 THEN newCount + (Len(drawn) - prevLength) ELSE newCount
        BY <1>4, <3>2 DEF Effect
      <4>3. newCount' \in Nat
        BY <4>2
      <4>4. QED
        BY <4>1, <4>3
    <3>3. QED
      BY <3>1, <3>2
  <2>3. QED
    BY <1>4, <2>1, <2>2 DEF Effect
<1>5. CASE Frame
  <2>1. newCount' \in Nat /\ unread' \in Nat
    BY <1>u, <1>5 DEF Frame
  <2>2. /\ autoScroll' \in BOOLEAN /\ reported' \in BOOLEAN
        /\ away' \in BOOLEAN /\ moved' \in BOOLEAN /\ raced' \in BOOLEAN
    <3>1. nearBottom \in BOOLEAN /\ Stale \in BOOLEAN
      BY DEF nearBottom, Stale
    <3>2. QED
      BY <1>5, <3>1, Zenon DEF Frame
  <2>3. QED
    BY <1>5, <2>1, <2>2 DEF Frame
<1>6. CASE Scroll
  <2>1. top' \in 0..MAX_EVENTS /\ moves' \in 0..MaxMoves
    BY <1>e, <1>6 DEF Scroll, Move
  <2>2. away' \in BOOLEAN
    <3>1. (End(drawn, activeFilters) - top' > NearRows) \in BOOLEAN
      OBVIOUS
    <3>2. QED
      BY <1>6, <3>1, Zenon DEF Scroll
  <2>3. QED
    BY <1>6, <2>1, <2>2, Zenon DEF Scroll, state
<1>7. CASE JumpToBottom
  BY <1>e, <1>7 DEF JumpToBottom, Jump, Stale, Mounted
<1>8. ASSUME NEW t \in Type, ToggleFilter(t) PROVE Typed'
  BY <1>e, <1>8 DEF ToggleFilter, toggleFilter, Rearranged, Move
<1>9. CASE LeaveTab
  <2>1. moves' \in 0..MaxMoves
    BY <1>9 DEF LeaveTab, Move
  <2>2. QED
    BY <1>9, <2>1, Zenon DEF LeaveTab, state, dom, history
<1>10. CASE ReturnToTab
  <2>1. prevLength' \in 0..MAX_EVENTS /\ top' \in 0..MAX_EVENTS /\ newCount' \in Nat /\ unread' \in Nat
    BY <1>10 DEF ReturnToTab
  <2>2. QED
    BY <1>10, <2>1, Zenon DEF ReturnToTab
<1>11. CASE UNCHANGED feedVars
  BY <1>11 DEF feedVars, state, dom, history
<1>12. QED
  BY <1>1, <1>2, <1>3, <1>4, <1>5, <1>6, <1>7, <1>8, <1>9, <1>10, <1>11 DEF FeedNext

\* The types hold at the start.
LEMMA TypeInit == FeedInit => Typed
<1> SUFFICES ASSUME FeedInit PROVE Typed
  OBVIOUS
<1>1. << >> \in Seq(1..MaxMessages) /\ Len(<< >>) = 0
  OBVIOUS
<1>2. 0 \in 0..MAX_EVENTS /\ 0 \in 0..MaxMessages /\ 0 \in 0..MaxMoves
  BY BoundsAssumption
<1>3. QED
  BY <1>1, <1>2 DEF FeedInit, Typed

\* FeedSpec => []FeedTypeOK: every variable keeps its type, the list its limit
\* (api.ts: slice(-MAX_EVENTS)) and the reader's position the list's length.
THEOREM TypeCorrect == FeedSpec => []FeedTypeOK
<1>1. FeedInit => Typed
  BY TypeInit
<1>2. Typed /\ [FeedNext]_feedVars => Typed'
  BY TypeStep
<1>3. Typed => FeedTypeOK
  BY TypedIsTypeOK
<1>4. QED
  BY <1>1, <1>2, <1>3, PTL DEF FeedSpec

-------------------------------------------------------------------------------
(* The parts of the invariant *)

\* An arrival has a number of its own, greater than those before it.
LEMMA NumberStep == Typed /\ NumberInv /\ [FeedNext]_feedVars => NumberInv'
<1> SUFFICES ASSUME Typed, NumberInv, [FeedNext]_feedVars PROVE NumberInv'
  OBVIOUS
<1>t. events \in Seq(1..MaxMessages) /\ drawn \in Seq(1..MaxMessages) /\ Len(events) \in 0..MAX_EVENTS
      /\ MAX_EVENTS \in Nat /\ messages \in Nat
  BY BoundsAssumption DEF Typed
<1>1. CASE Message
  <2> DEFINE longer == Append(events, messages')
  <2>1. messages' = messages + 1 /\ messages' \in 1..MaxMessages
    BY <1>t, <1>1, BoundsAssumption DEF Message
  <2>2. /\ Len(longer) = Len(events) + 1
        /\ \A i \in 1..Len(events) : longer[i] = events[i]
        /\ longer[Len(events) + 1] = messages'
        /\ longer \in Seq(1..MaxMessages)
    BY <1>t, <2>1, AppendProperties
  <2>3. \A i \in DOMAIN events : events[i] \in 1..MaxMessages /\ events[i] <= messages
    BY DEF NumberInv, Numbered
  <2>4. /\ \A i \in DOMAIN longer : longer[i] \in 1..MaxMessages /\ longer[i] <= messages'
        /\ \A i, j \in DOMAIN longer : i < j => longer[i] < longer[j]
    <3>1. DOMAIN longer = 1..(Len(events) + 1) /\ DOMAIN events = 1..Len(events) /\ Len(events) \in Nat
      BY <1>t, <2>2
    <3>2. \A i, j \in DOMAIN events : i < j => events[i] < events[j]
      BY DEF NumberInv, Numbered
    <3> HIDE DEF longer
    <3>3. \A i \in DOMAIN longer : i \in DOMAIN events \/ i = Len(events) + 1
      BY <3>1
    <3>4. \A i \in DOMAIN longer : longer[i] \in 1..MaxMessages /\ longer[i] <= messages'
      BY <1>t, <2>1, <2>2, <2>3, <3>1, <3>3
    <3>5. ASSUME NEW i \in DOMAIN longer, NEW j \in DOMAIN longer, i < j PROVE longer[i] < longer[j]
      <4>1. i \in DOMAIN events
        BY <3>1, <3>5
      <4>2. CASE j \in DOMAIN events
        BY <2>2, <3>1, <3>2, <3>5, <4>1, <4>2
      <4>3. CASE j = Len(events) + 1
        BY <1>t, <2>1, <2>2, <2>3, <3>1, <4>1, <4>3
      <4>4. QED
        BY <3>3, <4>2, <4>3
    <3>6. QED
      BY <3>4, <3>5
  <2>5. events' = IF Len(longer) > MAX_EVENTS THEN Tail(longer) ELSE longer
    BY <1>1 DEF Message
  <2>6. events' \in Seq(1..MaxMessages)
    <3>1. Len(events) <= MAX_EVENTS
      BY <1>t
    <3>2. QED
      BY <1>t, <2>1, <2>5, <3>1, Arrival
  <2>7. \/ \A i \in DOMAIN events' : i \in DOMAIN longer /\ events'[i] = longer[i]
        \/ \A i \in DOMAIN events' : i + 1 \in DOMAIN longer /\ events'[i] = longer[i + 1]
    BY <1>t, <2>1, <2>5, Arrival
  <2>a. \A i \in DOMAIN events' : i \in 1..Len(events')
    BY <2>6, ElementType
  <2> HIDE DEF longer
  <2>8. Numbered(events)'
    BY <2>4, <2>7, <2>a DEF Numbered
  <2>9. Numbered(drawn)'
    <3>1. \A i \in DOMAIN drawn : drawn[i] \in 1..MaxMessages /\ drawn[i] <= messages
      BY DEF NumberInv, Numbered
    <3>2. drawn' = drawn
      BY <1>1 DEF Message, dom
    <3>3. QED
      BY <1>t, <2>1, <3>1, <3>2 DEF NumberInv, Numbered
  <2>10. QED
    BY <2>8, <2>9 DEF NumberInv
<1>2. CASE Clear
  BY <1>2 DEF Clear, dom, NumberInv, Numbered
<1>3. CASE Commit
  BY <1>3 DEF Commit, NumberInv, Numbered
<1>4. CASE Effect
  BY <1>4 DEF Effect, NumberInv, Numbered
<1>5. CASE Frame
  BY <1>5 DEF Frame, NumberInv, Numbered
<1>6. CASE Scroll
  BY <1>6 DEF Scroll, NumberInv, Numbered
<1>7. CASE JumpToBottom
  BY <1>7 DEF JumpToBottom, Jump, NumberInv, Numbered
<1>8. ASSUME NEW t \in Type, ToggleFilter(t) PROVE NumberInv'
  BY <1>8 DEF ToggleFilter, NumberInv, Numbered
<1>9. CASE LeaveTab
  BY <1>9 DEF LeaveTab, dom, NumberInv, Numbered
<1>10. CASE ReturnToTab
  BY <1>10 DEF ReturnToTab, NumberInv, Numbered
<1>11. CASE UNCHANGED feedVars
  BY <1>11 DEF feedVars, dom, NumberInv, Numbered
<1>12. QED
  BY <1>1, <1>2, <1>3, <1>4, <1>5, <1>6, <1>7, <1>8, <1>9, <1>10, <1>11 DEF FeedNext

\* Rows that are only added to hide none, and a list without rows stands at 0.
LEMMA RowsStep == Typed /\ RowsInv /\ [FeedNext]_feedVars => RowsInv'
<1> SUFFICES ASSUME Typed, RowsInv, [FeedNext]_feedVars PROVE RowsInv'
  OBVIOUS
<1>t. /\ events \in Seq(1..MaxMessages) /\ drawn \in Seq(1..MaxMessages)
      /\ Len(events) <= MAX_EVENTS /\ Len(drawn) <= MAX_EVENTS
  BY BoundsAssumption DEF Typed
<1>e. \A fs : /\ Filtered(drawn, fs) = {} => End(drawn, fs) = 0
              /\ Filtered(events, fs) = {} => End(events, fs) = 0
  BY <1>t, EndBounded
<1>1. CASE Message
  BY <1>1 DEF Message, state, dom, history, RowsInv
<1>2. CASE Clear
  BY <1>2 DEF Clear, state, dom, history, RowsInv
<1>3. CASE Commit
  <2>0. drawn' = events /\ activeFilters' = activeFilters
    BY <1>3 DEF Commit, state
  <2>1. CASE IsPrefix(drawn, events)
    <3>1. Filtered(drawn, activeFilters) \subseteq Filtered(events, activeFilters)
      BY <1>t, <2>1, PrefixStays
    <3>2. top' = top /\ reported' = reported /\ moved' = moved /\ events # drawn
      BY <1>3, <2>1 DEF Commit
    <3>3. drawn = << >> /\ activeFilters = Type => Filtered(events, Type) # {}
      <4> SUFFICES ASSUME drawn = << >>, activeFilters = Type PROVE Filtered(events, Type) # {}
        OBVIOUS
      <4>1. 1 \in DOMAIN events
        BY <1>t, <3>2
      <4>2. events[1] \in 1..MaxMessages
        BY <1>t, <4>1, ElementType
      <4>3. TypeOf[events[1]] \in Type
        BY <4>2, TypesKnown
      <4>4. QED
        BY <4>1, <4>3 DEF Filtered
    <3>4. QED
      BY <2>0, <3>1, <3>2, <3>3 DEF RowsInv
  <2>2. CASE ~IsPrefix(drawn, events)
    <3>1. Rearranged(events, activeFilters)
      BY <1>3, <2>2 DEF Commit
    <3>2. RowsInv!2'
      BY <1>e, <2>0, <3>1 DEF Rearranged, RowsInv
    <3>3. QED
      BY <2>0, <3>1, <3>2 DEF Rearranged, RowsInv
  <2>3. QED
    BY <2>1, <2>2
<1>4. CASE Effect
  <2>1. /\ drawn' = drawn /\ activeFilters' = activeFilters /\ moved' = moved
        /\ (top' = top /\ reported' = reported) \/ Mounted
    BY <1>4 DEF Effect
  <2>2. QED
    BY <2>1 DEF Mounted, RowsInv
<1>5. CASE Frame
  BY <1>5 DEF Frame, RowsInv
<1>6. CASE Scroll
  BY <1>6 DEF Scroll, state, Mounted, RowsInv
<1>7. CASE JumpToBottom
  <2>1. /\ drawn' = drawn /\ activeFilters' = activeFilters /\ open
        /\ top' = End(drawn, activeFilters)
        /\ moved' = (moved /\ ~Mounted)
        /\ reported' = (reported /\ top' = top)
    BY <1>7 DEF JumpToBottom, Jump
  <2>2. CASE Mounted
    BY <2>1, <2>2 DEF Mounted, RowsInv
  <2>3. CASE ~Mounted
    <3>1. Filtered(drawn, activeFilters) = {} /\ top = 0 /\ top' = 0
      BY <1>e, <2>1, <2>3 DEF Mounted, RowsInv
    <3>2. moved' = moved /\ reported' = reported
      BY <2>1, <2>3, <3>1 DEF Typed
    <3>3. QED
      BY <2>1, <3>1, <3>2 DEF RowsInv
  <2>4. QED
    BY <2>2, <2>3
<1>8. ASSUME NEW t \in Type, ToggleFilter(t) PROVE RowsInv'
  <2>1. drawn' = drawn /\ Rearranged(drawn, activeFilters')
    BY <1>8 DEF ToggleFilter
  <2>2. RowsInv!2'
    BY <1>e, <2>1 DEF Rearranged, RowsInv
  <2>3. QED
    BY <2>1, <2>2 DEF Rearranged, RowsInv
<1>9. CASE LeaveTab
  BY <1>9 DEF LeaveTab, state, dom, history, RowsInv
<1>10. CASE ReturnToTab
  BY <1>10 DEF ReturnToTab, RowsInv
<1>11. CASE UNCHANGED feedVars
  BY <1>11 DEF feedVars, state, dom, history, RowsInv
<1>12. QED
  BY <1>1, <1>2, <1>3, <1>4, <1>5, <1>6, <1>7, <1>8, <1>9, <1>10, <1>11 DEF FeedNext

\* An effect compares with the rows of the one before, and one that saw another
\* autoScroll than the present one has been found out.
LEMMA EffectStep == Typed /\ EffectInv /\ [FeedNext]_feedVars => EffectInv'
<1> SUFFICES ASSUME Typed, EffectInv, [FeedNext]_feedVars PROVE EffectInv'
  OBVIOUS
<1> USE DEF EffectInv, Undisturbed, Stale
<1>1. CASE Message
  BY <1>1, Zenon DEF Message, state, dom, history
<1>2. CASE Clear
  BY <1>2, Zenon DEF Clear, state, dom, history
<1>3. CASE Commit
  <2>1. effect' = TRUE /\ closure' = autoScroll /\ autoScroll' = autoScroll
    BY <1>3 DEF Commit, state
  <2>2. QED
    BY <2>1, Zenon
<1>4. CASE Effect
  BY <1>4 DEF Effect
<1>5. CASE Frame
  <2>1. CASE nearBottom
    BY <1>5, <2>1, Zenon DEF Frame
  <2>2. CASE ~nearBottom
    <3>1. ~autoScroll'
      BY <1>5, <2>2, Zenon DEF Frame
    <3>2. QED
      BY <1>5, <2>2, <3>1, Zenon DEF Frame
  <2>3. QED
    BY <2>1, <2>2
<1>6. CASE Scroll
  BY <1>6, Zenon DEF Scroll, state
<1>7. CASE JumpToBottom
  BY <1>7, Zenon DEF JumpToBottom, Jump
<1>8. ASSUME NEW t \in Type, ToggleFilter(t) PROVE EffectInv'
  BY <1>8, Zenon DEF ToggleFilter, Rearranged
<1>9. CASE LeaveTab
  BY <1>9, Zenon DEF LeaveTab, state, dom, history
<1>10. CASE ReturnToTab
  BY <1>10 DEF ReturnToTab
<1>11. CASE UNCHANGED feedVars
  BY <1>11, Zenon DEF feedVars, state, dom, history
<1>12. QED
  BY <1>1, <1>2, <1>3, <1>4, <1>5, <1>6, <1>7, <1>8, <1>9, <1>10, <1>11 DEF FeedNext

\* An effect that should follow has rows to scroll.
LEMMA FollowerHasRows ==
  ASSUME Typed, RowsInv, Undisturbed, WillFollow
  PROVE  Mounted /\ Len(drawn) - prevLength > 0
<1>1. Len(drawn) > prevLength /\ Len(drawn) \in Nat /\ prevLength \in Nat
  BY BoundsAssumption DEF WillFollow, Undecided, Typed
<1>2. drawn # << >>
  BY <1>1
<1>3. QED
  BY <1>1, <1>2 DEF RowsInv, Undisturbed, Mounted

\* While nothing disturbs the list it stands near its end, or is about to, and
\* autoScroll says, once reported, whether its reader has left.
LEMMA FollowStep == Typed /\ RowsInv /\ EffectInv /\ FollowInv /\ [FeedNext]_feedVars => FollowInv'
<1> SUFFICES ASSUME Typed, RowsInv, EffectInv, FollowInv, [FeedNext]_feedVars PROVE FollowInv'
  OBVIOUS
<1> USE DEF Undisturbed
<1>t. /\ Len(events) \in Nat /\ Len(drawn) \in Nat /\ prevLength \in Nat /\ top \in Nat
      /\ NearRows \in Nat
      /\ \A fs : End(events, fs) \in Nat /\ End(drawn, fs) \in Nat
  BY EndBounded, BoundsAssumption DEF Typed
<1>s. ASSUME UNCHANGED << drawn, effect, closure, prevLength, top, activeFilters, reported, away,
                          moved, raced, open, autoScroll >>
      PROVE  FollowInv'
  <2>1. Below' = Below /\ WillFollow' = WillFollow
    BY <1>s, Zenon DEF Below, WillFollow, Undecided
  <2>2. QED
    BY <1>s, <2>1, Zenon DEF FollowInv
<1>1. CASE Message
  BY <1>s, <1>1, Zenon DEF Message, state, dom, history
<1>2. CASE Clear
  BY <1>s, <1>2, Zenon DEF Clear, state, dom, history
<1>3. CASE Commit
  <2> SUFFICES ASSUME Undisturbed' PROVE FollowInv!2'
    BY DEF FollowInv
  <2>1. /\ drawn' = events /\ activeFilters' = activeFilters /\ prevLength' = prevLength
        /\ effect' = TRUE /\ closure' = autoScroll /\ autoScroll' = autoScroll /\ away' = away
        /\ open' = open /\ ~effect /\ events # drawn
    BY <1>3 DEF Commit, state
  <2>2. IsPrefix(drawn, events) /\ top' = top /\ reported' = reported /\ moved' = moved
    BY <1>3 DEF Commit, Rearranged
  <2>3. ~raced /\ ~(~reported /\ End(events, activeFilters) - top > NearRows)
    BY <1>3 DEF Commit
  <2>4. Len(events) > prevLength
    BY <1>t, <2>1, <2>2, PrefixStays DEF EffectInv, Typed
  <2>5. Below' = End(events, activeFilters) - top
    BY <2>1, <2>2, Zenon DEF Below
  <2>6. Undecided' > 0
    BY <1>t, <2>1, <2>4 DEF Undecided
  <2>7. Undisturbed
    BY <2>1, <2>2, <2>3
  <2>8. CASE ~away
    <3>1. CASE reported
      BY <2>1, <2>2, <2>6, <2>7, <2>8, <3>1 DEF WillFollow, FollowInv
    <3>2. CASE ~reported
      <4>1. Below' <= NearRows
        BY <1>t, <2>3, <2>5, <3>2
      <4>2. QED
        BY <2>1, <2>2, <2>8, <3>2, <4>1
    <3>3. QED
      BY <3>1, <3>2
  <2>9. CASE away
    BY <2>1, <2>2, <2>7, <2>9 DEF FollowInv
  <2>10. QED
    BY <2>8, <2>9
<1>4. CASE Effect
  <2> SUFFICES ASSUME Undisturbed' PROVE FollowInv!2'
    BY DEF FollowInv
  <2>1. /\ UNCHANGED << drawn, activeFilters, autoScroll, closure, away, open, moved, raced >>
        /\ reported' => reported
    BY <1>4 DEF Effect
  <2>2. Undisturbed
    BY <2>1
  <2>3. Below' = End(drawn, activeFilters) - top'
    BY <2>1, Zenon DEF Below
  <2>4. CASE Len(drawn) - prevLength > 0 /\ closure /\ Mounted
    <3>1. top' = End(drawn, activeFilters)
      BY <1>4, <2>4 DEF Effect
    <3>2. Below' <= NearRows
      BY <1>t, <2>3, <3>1
    <3>3. QED
      BY <2>1, <2>2, <3>2 DEF FollowInv
  <2>5. CASE ~(Len(drawn) - prevLength > 0 /\ closure /\ Mounted)
    <3>1. top' = top
      BY <1>4, <2>5 DEF Effect
    <3>2. ~WillFollow
      BY <2>2, <2>5, FollowerHasRows DEF WillFollow
    <3>3. Below' = Below
      BY <2>3, <3>1 DEF Below
    <3>4. QED
      BY <2>1, <2>2, <3>2, <3>3 DEF FollowInv
  <2>6. QED
    BY <2>4, <2>5
<1>5. CASE Frame
  <2>1. UNCHANGED << drawn, effect, closure, prevLength, top, activeFilters, open >> /\ ~reported
    BY <1>5 DEF Frame
  <2>2. Below' = Below
    BY <2>1, Zenon DEF Below
  <2>3. CASE nearBottom
    <3>1. autoScroll' /\ ~away'
      BY <1>5, <2>3, Zenon DEF Frame
    <3>2. QED
      BY <2>2, <2>3, <3>1 DEF FollowInv, nearBottom
  <2>4. CASE ~nearBottom
    <3>1. ~autoScroll' /\ UNCHANGED << away, moved, raced >>
      BY <1>5, <2>4, Zenon DEF Frame
    <3>2. Undisturbed => away
      BY <2>1, <2>4 DEF FollowInv, nearBottom
    <3>3. QED
      BY <2>1, <3>1, <3>2 DEF FollowInv
  <2>5. QED
    BY <2>3, <2>4
<1>6. CASE Scroll
  <2>1. UNCHANGED << drawn, activeFilters >> /\ reported' = FALSE
    BY <1>6 DEF Scroll, state
  <2>2. Below' = End(drawn, activeFilters) - top'
    BY <2>1, Zenon DEF Below
  <2>3. ~away' => Below' <= NearRows
    <3>1. top' \in Int
      BY <1>6 DEF Scroll
    <3>2. ~away' => ~(End(drawn, activeFilters) - top' > NearRows)
      BY <1>6, Zenon DEF Scroll
    <3>3. QED
      BY <1>t, <2>2, <3>1, <3>2
  <2>4. QED
    BY <2>1, <2>3 DEF FollowInv
<1>7. CASE JumpToBottom
  <2>1. /\ UNCHANGED << drawn, activeFilters >> /\ top' = End(drawn, activeFilters)
        /\ away' = FALSE /\ autoScroll' = TRUE
    BY <1>7 DEF JumpToBottom, Jump
  <2>2. Below' = 0
    BY <1>t, <2>1 DEF Below
  <2>3. QED
    BY <1>t, <2>1, <2>2 DEF FollowInv
<1>8. ASSUME NEW t \in Type, ToggleFilter(t) PROVE FollowInv'
  BY <1>8, Zenon DEF ToggleFilter, Rearranged, FollowInv
<1>9. CASE LeaveTab
  BY <1>9, Zenon DEF LeaveTab, FollowInv
<1>10. CASE ReturnToTab
  BY <1>10, Zenon DEF ReturnToTab, FollowInv
<1>11. CASE UNCHANGED feedVars
  BY <1>s, <1>11, Zenon DEF feedVars, state, dom, history
<1>12. QED
  BY <1>1, <1>2, <1>3, <1>4, <1>5, <1>6, <1>7, <1>8, <1>9, <1>10, <1>11 DEF FeedNext

\* What was drawn while nothing disturbed the list is counted, or the effect that
\* is due will count it, or it will take the list to its end.
LEMMA CountStep ==
  Typed /\ NumberInv /\ RowsInv /\ EffectInv /\ CountInv /\ [FeedNext]_feedVars => CountInv'
<1> SUFFICES ASSUME Typed, NumberInv, RowsInv, EffectInv, CountInv, [FeedNext]_feedVars PROVE CountInv'
  OBVIOUS
<1> USE DEF Undisturbed
<1>t. /\ Len(events) \in Nat /\ Len(drawn) \in Nat /\ prevLength \in Nat
      /\ newCount \in Nat /\ unread \in Nat
  BY BoundsAssumption DEF Typed
<1>s. ASSUME UNCHANGED << drawn, effect, closure, prevLength, newCount, unread, moved, raced, open,
                          autoScroll >>
      PROVE  CountInv'
  <2>1. Undecided' = Undecided /\ WillFollow' = WillFollow
    BY <1>s, Zenon DEF WillFollow, Undecided
  <2>2. QED
    BY <1>s, <2>1, Zenon DEF CountInv
<1>1. CASE Message
  BY <1>s, <1>1, Zenon DEF Message, state, dom, history
<1>2. CASE Clear
  BY <1>s, <1>2, Zenon DEF Clear, state, dom, history
<1>3. CASE Commit
  <2> SUFFICES ASSUME Undisturbed' PROVE CountInv!2'
    BY DEF CountInv
  <2>1. /\ drawn' = events /\ prevLength' = prevLength /\ newCount' = newCount
        /\ effect' = TRUE /\ closure' = autoScroll /\ autoScroll' = autoScroll
        /\ open' = open /\ ~effect /\ events # drawn
        /\ unread' = unread + Cardinality(ToSet(events) \ ToSet(drawn))
    BY <1>3 DEF Commit, state
  <2>2. IsPrefix(drawn, events) /\ moved' = moved
    BY <1>3 DEF Commit, Rearranged
  <2>3. ~raced
    BY <1>3 DEF Commit
  <2>4. Undisturbed
    BY <2>1, <2>2, <2>3
  <2>5. prevLength = Len(drawn) /\ Len(events) > Len(drawn)
    BY <1>t, <2>1, <2>2, PrefixStays DEF EffectInv, Typed
  <2>6. Undecided' = Len(events) - Len(drawn) /\ Undecided' > 0
    BY <1>t, <2>1, <2>5 DEF Undecided
  <2>7. Cardinality(ToSet(events) \ ToSet(drawn)) = Len(events) - Len(drawn)
    <3>1. events \in Seq(1..MaxMessages) /\ drawn \in Seq(1..MaxMessages)
      BY DEF Typed
    <3>2. \A i, j \in DOMAIN events : i < j => events[i] < events[j]
      BY DEF NumberInv, Numbered
    <3>3. QED
      BY <2>2, <3>1, <3>2, ArrivalsCounted
  <2>8. unread = newCount /\ (autoScroll => newCount = 0)
    BY <1>t, <2>1, <2>4 DEF CountInv, WillFollow, Undecided
  <2>9. CASE autoScroll
    BY <2>1, <2>6, <2>8, <2>9 DEF WillFollow
  <2>10. CASE ~autoScroll
    <3>1. ~WillFollow'
      BY <2>1, <2>10 DEF WillFollow
    <3>2. unread' = newCount' + Undecided'
      BY <1>t, <2>1, <2>6, <2>7, <2>8
    <3>3. QED
      BY <2>1, <2>10, <3>1, <3>2
  <2>11. QED
    BY <2>9, <2>10
<1>4. CASE Effect
  <2> SUFFICES ASSUME Undisturbed' PROVE CountInv!2'
    BY DEF CountInv
  <2>1. /\ UNCHANGED << drawn, autoScroll, closure, open, moved, raced >>
        /\ effect /\ effect' = FALSE /\ prevLength' = Len(drawn)
    BY <1>4 DEF Effect
  <2>2. Undisturbed /\ ~WillFollow' /\ Undecided' = 0
    BY <2>1 DEF WillFollow, Undecided
  <2>3. CASE Len(drawn) - prevLength > 0 /\ closure /\ Mounted
    <3>1. newCount' = newCount /\ unread' = 0
      BY <1>4, <2>3 DEF Effect
    <3>2. WillFollow
      BY <1>t, <2>1, <2>3 DEF WillFollow, Undecided
    <3>3. newCount = 0
      BY <2>2, <3>2 DEF CountInv
    <3>4. QED
      BY <2>2, <3>1, <3>3
  <2>4. CASE ~(Len(drawn) - prevLength > 0 /\ closure /\ Mounted)
    <3>1. ~WillFollow
      BY <2>2, <2>4, FollowerHasRows DEF WillFollow
    <3>2. unread' = unread /\ newCount' = newCount + Undecided
      BY <1>t, <1>4, <2>1, <2>4 DEF Effect, Undecided
    <3>3. unread = newCount + Undecided /\ (autoScroll => newCount = 0)
      BY <2>2, <3>1 DEF CountInv
    <3>4. Undecided \in Nat
      BY <1>t DEF Undecided
    <3>5. autoScroll => Undecided = 0
      <4>1. autoScroll => closure
        BY <2>1, <2>2 DEF EffectInv, Stale
      <4>2. QED
        BY <2>1, <3>1, <3>4, <4>1 DEF WillFollow
    <3>6. QED
      BY <1>t, <2>1, <2>2, <3>2, <3>3, <3>4, <3>5
  <2>5. QED
    BY <2>3, <2>4
<1>5. CASE Frame
  <2>1. UNCHANGED << drawn, effect, closure, prevLength, open >>
    BY <1>5 DEF Frame
  <2>2. Undecided' = Undecided /\ WillFollow' = WillFollow
    BY <2>1, Zenon DEF Undecided, WillFollow
  <2>3. Undecided \in Nat
    BY <1>t DEF Undecided
  <2>4. CASE nearBottom
    <3>1. newCount' = 0 /\ unread' = Undecided
      BY <1>5, <2>4, Zenon DEF Frame
    <3>2. QED
      BY <2>2, <2>3, <3>1 DEF CountInv
  <2>5. CASE ~nearBottom
    <3>1. ~autoScroll' /\ UNCHANGED << newCount, unread, moved, raced >>
      BY <1>5, <2>5, Zenon DEF Frame
    <3>2. QED
      BY <2>1, <2>2, <3>1, Zenon DEF CountInv
  <2>6. QED
    BY <2>4, <2>5
<1>6. CASE Scroll
  BY <1>s, <1>6, Zenon DEF Scroll, state
<1>7. CASE JumpToBottom
  <2>1. /\ newCount' = 0 /\ unread' = 0 /\ raced' = Stale
        /\ UNCHANGED << drawn, effect, closure, prevLength >>
    BY <1>7, Zenon DEF JumpToBottom, Jump
  <2>2. ~raced' => ~effect \/ closure
    BY <2>1, Zenon DEF Stale
  <2>3. ~effect \/ closure => WillFollow' \/ Undecided' = 0
    BY <1>t, <2>1 DEF WillFollow, Undecided
  <2>4. QED
    BY <2>1, <2>2, <2>3 DEF CountInv
<1>8. ASSUME NEW t \in Type, ToggleFilter(t) PROVE CountInv'
  BY <1>8, Zenon DEF ToggleFilter, Rearranged, CountInv
<1>9. CASE LeaveTab
  BY <1>9, Zenon DEF LeaveTab, CountInv
<1>10. CASE ReturnToTab
  BY <1>10, Zenon DEF ReturnToTab, CountInv
<1>11. CASE UNCHANGED feedVars
  BY <1>s, <1>11, Zenon DEF feedVars, state, dom, history
<1>12. QED
  BY <1>1, <1>2, <1>3, <1>4, <1>5, <1>6, <1>7, <1>8, <1>9, <1>10, <1>11 DEF FeedNext

-------------------------------------------------------------------------------
(* The theorems *)

\* An empty list, drawn, near its end and with nothing to count.
LEMMA FeedStarts == FeedInit => Typed /\ NumberInv /\ RowsInv /\ EffectInv /\ FollowInv /\ CountInv
<1> SUFFICES ASSUME FeedInit PROVE NumberInv /\ RowsInv /\ EffectInv /\ FollowInv /\ CountInv
  BY TypeInit
<1>1. /\ events = << >> /\ drawn = << >> /\ ~effect /\ activeFilters = Type /\ autoScroll
      /\ newCount = 0 /\ prevLength = 0 /\ top = 0 /\ reported /\ ~away /\ unread = 0
  BY DEF FeedInit
<1>2. NumberInv /\ RowsInv /\ EffectInv
  BY <1>1 DEF NumberInv, Numbered, RowsInv, EffectInv, Stale
<1>3. Below = 0 /\ Undecided = 0 /\ ~WillFollow
  <2>1. End(<< >>, Type) = 0
    <3>1. << >> \in Seq(1..MaxMessages) /\ Len(<< >>) = 0 /\ Filtered(<< >>, Type) = {}
      BY DEF Filtered
    <3>2. Len(<< >>) <= MAX_EVENTS
      BY <3>1, BoundsAssumption
    <3>3. QED
      BY <3>1, <3>2, EndBounded
  <2>2. QED
    BY <1>1, <2>1 DEF Below, Undecided, WillFollow
<1>4. QED
  BY <1>1, <1>2, <1>3, BoundsAssumption DEF FollowInv, CountInv

\* FeedSpec => []FeedInv: whatever arrives, is drawn, scrolled, filtered or reported,
\* and in whatever order, the parts of the invariant stay true together.
THEOREM FeedInvariant == FeedSpec => []FeedInv
<1>1. FeedInit => FeedInv
  BY FeedStarts, TypedIsTypeOK DEF FeedInv
<1>2. FeedInv /\ [FeedNext]_feedVars => FeedInv'
  <2> SUFFICES ASSUME FeedInv, [FeedNext]_feedVars PROVE FeedInv'
    OBVIOUS
  <2>1. Typed /\ NumberInv /\ RowsInv /\ EffectInv /\ FollowInv /\ CountInv
    BY TypedIsTypeOK DEF FeedInv
  <2>2. Typed' => FeedTypeOK'
    BY TypedIsTypeOK, PTL
  <2>3. QED
    BY <2>1, <2>2, TypeStep, NumberStep, RowsStep, EffectStep, FollowStep, CountStep DEF FeedInv
<1>3. QED
  BY <1>1, <1>2, PTL DEF FeedSpec

\* FeedSpec => []FollowsTheTail: a list whose reader has not scrolled up stays within
\* reach of its end, however many types, events, rows and scrolls there are
\* (EventFeed.tsx:77-94).
THEOREM TailIsFollowed == FeedSpec => []FollowsTheTail
<1>1. FeedInv => FollowsTheTail
  BY DEF FeedInv, FollowInv, Undisturbed, WillFollow, FollowsTheTail, Settled, Mounted
<1>2. QED
  BY <1>1, FeedInvariant, PTL

\* FeedSpec => []TellsOfNew: a reader who has scrolled up is told of every event
\* since, and of no other (EventFeed.tsx:83-100).
THEOREM NewIsTold == FeedSpec => []TellsOfNew
<1>1. FeedInv => TellsOfNew
  <2> SUFFICES ASSUME FeedInv, Settled, away, ~moved, ~raced
               PROVE  ~autoScroll /\ newCount = unread
    BY DEF TellsOfNew
  <2>1. Undisturbed /\ ~effect /\ reported
    BY DEF Settled, Mounted, Undisturbed
  <2>2. ~WillFollow /\ Undecided = 0
    BY <2>1 DEF WillFollow, Undecided
  <2>3. newCount \in Nat
    BY DEF FeedInv, FeedTypeOK
  <2>4. QED
    BY <2>1, <2>2, <2>3 DEF FeedInv, FollowInv, CountInv
<1>2. QED
  BY <1>1, FeedInvariant, PTL

-------------------------------------------------------------------------------
(* Session *)

\* Without another digest under way the one there may be is that of the file
\* shown, and so is the hash.
PanelInv == ~mixed => digests \subseteq {file} /\ hash \in {None, file}

\* Every step of the page and of the server keeps it.
LEMMA PanelStep == PanelInv /\ [Next]_vars => PanelInv'
<1> SUFFICES ASSUME PanelInv, [Next]_vars PROVE PanelInv'
  OBVIOUS
<1> USE DEF PanelInv
<1>1. ASSUME UNCHANGED panel PROVE PanelInv'
  BY <1>1 DEF panel
<1>2. ASSUME FreshPanel PROVE PanelInv'
  BY <1>2 DEF FreshPanel
<1>3. ASSUME EndUpload PROVE PanelInv'
  BY <1>3 DEF EndUpload
<1>4. ASSUME NEW rest, NEW expired, Leave(rest, expired) PROVE PanelInv'
  BY <1>1, <1>2, <1>4 DEF Leave
<1>5. ASSUME NEW u, NEW rest, Enter(u, rest) PROVE PanelInv'
  BY <1>1, <1>5 DEF Enter
<1>6. ASSUME NEW i, Serve(i) PROVE PanelInv'
  BY <1>1, <1>6 DEF Serve
<1>7. ASSUME NEW i, Answered(i) PROVE PanelInv'
  <2> DEFINE c == calls[i]
             rest == RemoveAt(calls, i)
  <2>1. CASE MeAnswered(c, rest)
    BY <1>4, <1>5, <2>1 DEF MeAnswered
  <2>2. CASE LoginAnswered(c, rest)
    BY <1>1, <1>5, <2>2 DEF LoginAnswered
  <2>3. CASE LogoutAnswered(c, rest)
    BY <1>4, <2>3 DEF LogoutAnswered
  <2>4. CASE DataAnswered(c, rest)
    BY <1>1, <1>3, <1>4, <2>4 DEF DataAnswered
  <2>5. QED
    BY <1>7, <2>1, <2>2, <2>3, <2>4 DEF Answered
<1>8. ASSUME NEW i, Fails(i) PROVE PanelInv'
  BY <1>1, <1>3, <1>4, <1>8 DEF Fails
<1>9. CASE EndSession \/ SubmitLogin \/ Logout \/ Poll \/ Ask
  BY <1>1, <1>9 DEF EndSession, SubmitLogin, Logout, Poll, Ask
<1>10. CASE handleUpload
  BY <1>10 DEF handleUpload, StartUpload
<1>11. CASE Reload
  BY <1>2, <1>11 DEF Reload
<1>12. ASSUME NEW t, SwitchTab(t) PROVE PanelInv'
  BY <1>1, <1>12 DEF SwitchTab
<1>13. ASSUME NEW f, TakeFile(f) PROVE PanelInv'
  BY <1>13 DEF TakeFile, handleFile, Pick
<1>14. ASSUME NEW f, Digest(f) PROVE PanelInv'
  BY <1>14 DEF Digest, Digested, DigestFails
<1>15. CASE UNCHANGED vars
  BY <1>1, <1>15 DEF vars
<1>16. QED
  BY <1>6, <1>7, <1>8, <1>9, <1>10, <1>11, <1>12, <1>13, <1>14, <1>15 DEF Next

\* For every number of files, sessions, calls and faults, the hash that is shown
\* is that of the file it is shown with, unless the file was picked while another
\* one's hash was being computed (UploadPanel.tsx:39-50).
THEOREM HashAlwaysFits == Spec => []HashFitsFile
<1>1. Init => PanelInv
  BY DEF Init, PanelInit, PanelInv
<1>2. PanelInv => HashFitsFile
  BY DEF PanelInv, HashFitsFile
<1>3. QED
  BY <1>1, <1>2, PanelStep, PTL DEF Spec

-------------------------------------------------------------------------------
(* Why a page leaves *)

\* A call under way.
Record == [kind : Kinds, as : Nat, answer : {"none", "ok", "no"}]

\* What each of them has to fit, of the server, the browser and the page.
Sound(c) ==
  /\ c \in Record /\ c.as <= logins
  /\ c.answer = "ok" => c.as # Nobody
  /\ c.answer = "no" /\ c.kind # "login" => c.as \notin sessions
  /\ c.kind = "load" => InApp /\ c.as = user
  /\ c.kind = "login" => user = Nobody
  /\ c.kind = "me" <=> user = Unknown
  /\ c.kind = "me" => c.as = cookie

Sounds == {c \in Record : Sound(c)}

\* The form sends no login while there is one.
Single(s) == \A i, j \in DOMAIN s : s[i].kind = "login" /\ s[j].kind = "login" => i = j

LoginInv ==
  /\ MaxLogins \in Nat /\ logins \in Nat /\ logins <= MaxLogins /\ sessions \subseteq 1..logins
  /\ cookie \in 0..logins /\ user \in {Unknown} \cup 0..logins
  /\ InApp => cookie = user

CallsInv ==
  /\ calls \in Seq(Sounds) /\ Single(calls)
  /\ user = Unknown => Len(calls) <= 1

SessionInv == LoginInv /\ CallsInv

\* One call is taken out, and the later ones move up.
LEMMA TakenOut ==
  ASSUME NEW T, NEW s \in Seq(T), NEW i \in 1..Len(s)
  PROVE  /\ RemoveAt(s, i) \in Seq(T) /\ Len(RemoveAt(s, i)) = Len(s) - 1
         /\ \A j \in 1..(Len(s) - 1) :
              RemoveAt(s, i)[j] = s[IF j < i THEN j ELSE j + 1]
<1> DEFINE a == SubSeq(s, 1, i - 1)
           b == SubSeq(s, i + 1, Len(s))
<1>1. Len(s) \in Nat /\ i \in Nat /\ i - 1 \in 0..Len(s)
  OBVIOUS
<1>2. a \in Seq(T) /\ Len(a) = i - 1 /\ \A j \in 1..(i - 1) : a[j] = s[j]
  BY <1>1
<1>3. b \in Seq(T) /\ Len(b) = Len(s) - i /\ \A j \in 1..(Len(s) - i) : b[j] = s[i + j]
  BY <1>1
<1>4. RemoveAt(s, i) = a \o b
  BY DEF RemoveAt
<1> HIDE DEF a, b
<1>5. a \o b \in Seq(T) /\ Len(a \o b) = Len(a) + Len(b)
  BY <1>2, <1>3, ConcatProperties
<1>6. ASSUME NEW j \in 1..(Len(s) - 1)
      PROVE  (a \o b)[j] = s[IF j < i THEN j ELSE j + 1]
  <2>1. CASE j < i
    <3>1. j \in 1..Len(a) /\ j \in 1..(i - 1)
      BY <1>1, <1>2, <2>1
    <3>2. (a \o b)[j] = a[j]
      BY <1>2, <1>3, <3>1, ConcatProperties
    <3>3. QED
      BY <1>2, <2>1, <3>1, <3>2
  <2>2. CASE ~(j < i)
    <3>1. j - (i - 1) \in 1..(Len(s) - i) /\ i + (j - (i - 1)) = j + 1
      BY <1>1, <2>2
    <3>2. j \in 1 .. Len(a) + Len(b) /\ ~(j <= Len(a)) /\ j - Len(a) = j - (i - 1)
      BY <1>1, <1>2, <1>3, <2>2
    <3>3. (a \o b)[j] = b[j - Len(a)]
      BY <1>2, <1>3, <3>2, ConcatProperties
    <3>4. (a \o b)[j] = b[j - (i - 1)]
      BY <3>2, <3>3
    <3>5. QED
      BY <1>3, <2>2, <3>1, <3>4
  <2>3. QED
    BY <2>1, <2>2
<1>7. Len(a) + Len(b) = Len(s) - 1
  BY <1>1, <1>2, <1>3
<1>8. QED
  BY <1>4, <1>5, <1>6, <1>7

\* Without the loads there are only others of the same.
LEMMA NoLoads ==
  ASSUME NEW T, NEW s \in Seq(T), NEW t \in Loadless(s)
  PROVE  t \in Seq({c \in T : c.kind # "load"})
<1> DEFINE kept == {i \in DOMAIN s : s[i].kind # "load"}
           n == Cardinality(kept)
<1>1. n \in Nat
  <2>1. IsFiniteSet(1..Len(s)) /\ kept \subseteq 1..Len(s)
    BY FS_Interval
  <2>2. QED
    BY <2>1, FS_Subset, FS_CardinalityType
<1> HIDE DEF n
<1> DEFINE places == {f \in [1..n -> kept] : \A j, k \in 1..n : j < k => f[j] < f[k]}
<1>2. t \in {[k \in 1..n |-> s[at[k]]] : at \in places}
  BY Zenon DEF Loadless, n
<1>3. PICK at \in [1..n -> kept] : t = [k \in 1..n |-> s[at[k]]]
  BY <1>2
<1>4. \A k \in 1..n : s[at[k]] \in T /\ s[at[k]].kind # "load"
  BY <1>3
<1>5. QED
  BY <1>1, <1>3, <1>4

\* What stays of a dashboard: no load, and its upload as a call that shows nothing.
LEMMA WhatIsLeft ==
  ASSUME NEW T, NEW s \in Seq(T), NEW t \in Left(s)
  PROVE  t \in Seq({c \in T : c.kind # "load"}
                     \cup {[c EXCEPT !.kind = "ask"] : c \in {d \in T : d.kind = "upload"}})
<1> DEFINE A == {c \in T : c.kind # "load"}
           B == {[c EXCEPT !.kind = "ask"] : c \in {d \in T : d.kind = "upload"}}
<1>1. PICK u \in Loadless(s) : t = Orphan(u)
  BY DEF Left
<1>2. u \in Seq(A)
  BY NoLoads
<1>3. t = [i \in 1..Len(u) |-> IF u[i].kind = "upload" THEN [u[i] EXCEPT !.kind = "ask"] ELSE u[i]]
  BY <1>1, <1>2 DEF Orphan
<1>4. ASSUME NEW i \in 1..Len(u) PROVE t[i] \in A \cup B
  <2>1. u[i] \in A /\ u[i] \in T
    BY <1>2
  <2>2. QED
    BY <1>3, <2>1
<1>5. Len(u) \in Nat
  BY <1>2
<1> HIDE DEF A, B
<1>6. t \in Seq(A \cup B)
  BY <1>3, <1>4, <1>5
<1>7. QED
  BY <1>6 DEF A, B

\* A call stays sound as long as the page is the same and no session begins.
LEMMA SoundStays ==
  ASSUME LoginInv, UNCHANGED << logins, cookie, user >>, sessions' \subseteq sessions
  PROVE  Sounds \subseteq Sounds'
BY DEF Sounds, Sound, Record, InApp

\* One call gets its answer.
LEMMA Replaced ==
  ASSUME CallsInv, Sounds \subseteq Sounds', UNCHANGED user,
         NEW i \in DOMAIN calls, NEW d \in Sounds', d.kind = calls[i].kind,
         calls' = [calls EXCEPT ![i] = d]
  PROVE  CallsInv'
<1>1. calls \in Seq(Sounds') /\ i \in 1..Len(calls)
  BY DEF CallsInv
<1>2. calls' \in Seq(Sounds') /\ Len(calls') = Len(calls)
  BY <1>1, ExceptSeq
<1>3. Single(calls)'
  BY <1>1 DEF CallsInv, Single
<1>4. QED
  BY <1>2, <1>3 DEF CallsInv

\* The server answers a call.
LEMMA ServeStep == ASSUME SessionInv, NEW i \in DOMAIN calls, Serve(i) PROVE SessionInv'
<1> DEFINE c == calls[i]
<1>1. c \in Sounds /\ c \in Record /\ LoginInv /\ CallsInv
  BY DEF SessionInv, CallsInv, Sounds
<1>2. UNCHANGED << cookie, user >>
  BY DEF Serve, page
<1>3. ASSUME c.kind = "login", logins < MaxLogins, logins' = logins + 1,
             sessions' = sessions \cup {logins'},
             calls' = [calls EXCEPT ![i] = [c EXCEPT !.as = logins', !.answer = "ok"]]
      PROVE  SessionInv'
  <2> DEFINE d == [c EXCEPT !.as = logins', !.answer = "ok"]
  <2>1. LoginInv'
    BY <1>1, <1>2, <1>3 DEF LoginInv, InApp, Login
  <2>2. Sounds \subseteq Sounds'
    BY <1>1, <1>2, <1>3 DEF LoginInv, Sounds, Sound, Record, InApp
  <2>3. d \in Sounds' /\ d.kind = c.kind
    <3>1. /\ d \in Record /\ d.kind = "login" /\ d.as = logins + 1 /\ d.answer = "ok"
          /\ logins \in Nat
      <4>1. logins \in Nat /\ logins' \in Nat
        BY <1>1, <1>3 DEF LoginInv
      <4>2. d \in Record
        BY <1>1, <4>1 DEF Record
      <4>3. d.kind = "login" /\ d.as = logins' /\ d.answer = "ok"
        BY <1>1, <1>3 DEF Record
      <4>4. QED
        BY <1>3, <4>1, <4>2, <4>3
    <3>2. user' = Nobody /\ user' # Unknown
      BY <1>1, <1>2, <1>3 DEF Sounds, Sound, Nobody, Unknown
    <3> HIDE DEF d
    <3>3. QED
      BY <1>3, <3>1, <3>2 DEF Sounds, Sound, Nobody
  <2> HIDE DEF d
  <2>4. calls' = [calls EXCEPT ![i] = d]
    BY <1>3 DEF d
  <2>5. QED
    BY <1>1, <1>2, <2>1, <2>2, <2>3, <2>4, Replaced DEF SessionInv
<1>4. ASSUME NEW a \in {"ok", "no"}, calls' = [calls EXCEPT ![i].answer = a],
             UNCHANGED logins, sessions' \subseteq sessions,
             a = "ok" => c.kind # "login" /\ c.as \in sessions,
             a = "no" /\ c.kind # "login" => c.as \notin sessions
      PROVE  SessionInv'
  <2> DEFINE d == [c EXCEPT !.answer = a]
  <2>1. LoginInv'
    BY <1>1, <1>2, <1>4 DEF LoginInv, InApp
  <2>2. Sounds \subseteq Sounds'
    BY <1>1, <1>2, <1>4, SoundStays
  <2>3. d \in Sounds' /\ d.kind = c.kind
    BY <1>1, <1>2, <1>4 DEF LoginInv, Sounds, Sound, Record, InApp, Nobody
  <2>4. calls' = [calls EXCEPT ![i] = d]
    BY <1>4
  <2> HIDE DEF d
  <2>5. QED
    BY <1>1, <1>2, <2>1, <2>2, <2>3, <2>4, Replaced DEF SessionInv
<1>5. QED
  BY <1>3, <1>4 DEF Serve, server

\* What remains when one call is answered or fails.
LEMMA RestSound ==
  ASSUME CallsInv, NEW i \in DOMAIN calls
  PROVE  LET rest == RemoveAt(calls, i)
         IN /\ rest \in Seq(Sounds) /\ Single(rest)
            /\ calls[i].kind = "login" => \A j \in DOMAIN rest : rest[j].kind # "login"
            /\ user = Unknown => rest = << >>
<1> DEFINE rest == RemoveAt(calls, i)
<1>1. calls \in Seq(Sounds) /\ i \in 1..Len(calls) /\ Len(calls) \in Nat
  BY DEF CallsInv
<1>2. /\ rest \in Seq(Sounds) /\ Len(rest) = Len(calls) - 1
      /\ \A j \in 1..(Len(calls) - 1) : rest[j] = calls[IF j < i THEN j ELSE j + 1]
  BY <1>1, TakenOut
<1> HIDE DEF rest
<1>3. DOMAIN rest = 1..(Len(calls) - 1)
  BY <1>2
<1>4. ASSUME NEW j \in DOMAIN rest, rest[j].kind = "login"
      PROVE  LET k == IF j < i THEN j ELSE j + 1
             IN k \in DOMAIN calls /\ k # i /\ calls[k].kind = "login"
  BY <1>1, <1>2, <1>3, <1>4
<1>5. Single(rest)
  <2> SUFFICES ASSUME NEW j \in DOMAIN rest, NEW k \in DOMAIN rest,
                      rest[j].kind = "login", rest[k].kind = "login"
               PROVE  j = k
    BY DEF Single
  <2>1. (IF j < i THEN j ELSE j + 1) = (IF k < i THEN k ELSE k + 1)
    BY <1>4 DEF CallsInv, Single
  <2>2. QED
    BY <1>1, <1>3, <2>1
<1>6. calls[i].kind = "login" => \A j \in DOMAIN rest : rest[j].kind # "login"
  BY <1>4 DEF CallsInv, Single
<1>7. user = Unknown => rest = << >>
  BY <1>1, <1>2 DEF CallsInv
<1>8. QED
  BY <1>2, <1>5, <1>6, <1>7 DEF rest

\* An answer changes nothing else.
LEMMA RestStep ==
  ASSUME SessionInv, NEW rest \in Seq(Sounds), Single(rest), user = Unknown => rest = << >>,
         calls' = rest, UNCHANGED << sessions, logins, cookie, user >>
  PROVE  SessionInv'
<1>1. LoginInv' /\ Sounds' = Sounds
  BY DEF SessionInv, LoginInv, InApp, Sounds, Sound
<1>2. CallsInv'
  BY <1>1 DEF CallsInv, Single
<1>3. QED
  BY <1>1, <1>2 DEF SessionInv

\* The login form is shown: no load is left.
LEMMA LeaveStep ==
  ASSUME SessionInv, NEW rest \in Seq(Sounds), Single(rest), user = Unknown => rest = << >>,
         NEW expired, Leave(rest, expired),
         cookie' \in {cookie, Nobody}, UNCHANGED << sessions, logins >>
  PROVE  SessionInv'
<1>1. LoginInv /\ user' = Nobody
  BY DEF SessionInv, Leave
<1>2. LoginInv'
  BY <1>1 DEF LoginInv, InApp, Login, Nobody
<1>3. ASSUME NEW c \in Sounds, c.kind \notin {"load", "me"} PROVE c \in Sounds'
  BY <1>1, <1>3 DEF Sounds, Sound, Record, Nobody, Unknown
<1>4. CASE InApp
  <2> DEFINE A == {c \in Sounds : c.kind # "load"}
             B == {[c EXCEPT !.kind = "ask"] : c \in {d \in Sounds : d.kind = "upload"}}
  <2>1. user \in 1..MaxLogins /\ user # Unknown /\ user # Nobody
    BY <1>1, <1>4 DEF LoginInv, InApp, Login, Unknown, Nobody
  <2>2. calls' \in Left(rest)
    BY <1>4 DEF Leave
  <2>3. calls' \in Seq(A \cup B)
    BY <2>2, WhatIsLeft
  <2>4. \A c \in A : c \in Sounds' /\ c.kind # "login"
    BY <1>3, <2>1 DEF Sounds, Sound
  <2>5. \A c \in B : c \in Sounds' /\ c.kind # "login"
    <3> SUFFICES ASSUME NEW d \in Sounds, d.kind = "upload"
                 PROVE  LET c == [d EXCEPT !.kind = "ask"] IN c \in Sounds' /\ c.kind # "login"
      OBVIOUS
    <3>1. QED
      BY <1>1, <2>1 DEF Sounds, Sound, Record, Kinds, Nobody, Unknown
  <2> HIDE DEF A, B
  <2>6. calls' \in Seq(Sounds') /\ \A j \in DOMAIN calls' : calls'[j].kind # "login"
    BY <2>3, <2>4, <2>5
  <2>7. QED
    BY <1>1, <1>2, <2>6 DEF SessionInv, CallsInv, Single, Nobody, Unknown
<1>5. CASE ~InApp
  <2>1. calls' = rest
    BY <1>5 DEF Leave
  <2>2. ASSUME NEW j \in DOMAIN rest PROVE rest[j] \in Sounds'
    <3>1. rest[j] \in Sounds /\ user # Unknown
      <4>1. rest[j] \in Sounds
        OBVIOUS
      <4>2. QED
        BY <4>1
    <3>2. rest[j].kind \notin {"load", "me"}
      BY <1>5, <3>1 DEF Sounds, Sound
    <3>3. QED
      BY <1>3, <3>1, <3>2
  <2>3. rest \in Seq(Sounds')
    BY <2>2
  <2>4. QED
    BY <1>1, <1>2, <2>1, <2>3 DEF SessionInv, CallsInv, Single, Nobody, Unknown
<1>6. QED
  BY <1>4, <1>5

\* The dashboard is shown: its first load is the only one.
LEMMA EnterStep ==
  ASSUME SessionInv, ~InApp, NEW u \in 1..logins, NEW rest \in Seq(Sounds), Enter(u, rest),
         \A j \in DOMAIN rest : rest[j].kind \notin {"me", "login"},
         cookie' = u, UNCHANGED << sessions, logins >>
  PROVE  SessionInv'
<1> DEFINE d == CallAs(IF tab = "audit" THEN "load" ELSE "ask", u)
<1>1. LoginInv /\ user' = u /\ calls' = Append(rest, d)
  BY DEF SessionInv, Enter
<1>2. LoginInv'
  BY <1>1 DEF LoginInv, InApp
<1>3. InApp' /\ user' # Unknown /\ user' # Nobody
  BY <1>1 DEF LoginInv, InApp, Login, Unknown, Nobody
<1>4. d \in Sounds' /\ d.kind # "login"
  BY <1>1, <1>3 DEF LoginInv, Sounds, Sound, Record, CallAs, Kinds
<1>5. ASSUME NEW j \in DOMAIN rest PROVE rest[j] \in Sounds'
  <2>1. rest[j] \in Sounds
    OBVIOUS
  <2>2. rest[j].kind \notin {"me", "login", "load"}
    BY <2>1 DEF Sounds, Sound
  <2>3. QED
    BY <1>1, <1>3, <2>1, <2>2 DEF Sounds, Sound
<1>6. rest \in Seq(Sounds')
  BY <1>5
<1> HIDE DEF d
<1>7. calls' \in Seq(Sounds') /\ \A j \in DOMAIN calls' : calls'[j].kind # "login"
  BY <1>1, <1>4, <1>6, AppendProperties
<1>8. QED
  BY <1>2, <1>3, <1>7 DEF SessionInv, CallsInv, Single

\* A call is answered.
LEMMA AnswerStep == ASSUME SessionInv, NEW i \in DOMAIN calls, Answered(i) PROVE SessionInv'
<1> DEFINE c == calls[i]
           rest == RemoveAt(calls, i)
<1>1. LoginInv /\ CallsInv /\ c \in Sounds /\ Sound(c)
  BY DEF SessionInv, CallsInv, Sounds
<1>2. /\ rest \in Seq(Sounds) /\ Single(rest)
      /\ c.kind = "login" => \A j \in DOMAIN rest : rest[j].kind # "login"
      /\ user = Unknown => rest = << >>
  BY <1>1, RestSound
<1>3. /\ c.answer # "none" /\ UNCHANGED << sessions, logins >>
      /\ MeAnswered(c, rest) \/ LoginAnswered(c, rest) \/ LogoutAnswered(c, rest) \/ DataAnswered(c, rest)
  BY DEF Answered, server
<1> HIDE DEF c, rest
<1>4. c.answer = "ok" => c.as \in 1..logins
  BY <1>1 DEF LoginInv, Sound, Record, Nobody
<1>5. CASE MeAnswered(c, rest)
  <2>1. user = Unknown /\ rest = << >> /\ cookie = c.as /\ ~InApp
    BY <1>1, <1>2, <1>5 DEF MeAnswered, Sound, InApp, Login, Unknown, LoginInv
  <2>2. UNCHANGED cookie
    BY <1>5 DEF MeAnswered
  <2>3. CASE c.answer = "ok"
    <3>1. Enter(c.as, rest)
      BY <1>5, <2>3 DEF MeAnswered
    <3>2. \A j \in DOMAIN rest : rest[j].kind \notin {"me", "login"}
      BY <2>1
    <3>3. c.as \in 1..logins /\ cookie' = c.as
      BY <1>4, <2>1, <2>2, <2>3
    <3>4. QED
      BY <1>2, <1>3, <2>1, <3>1, <3>2, <3>3, EnterStep
  <2>4. CASE c.answer # "ok"
    <3>1. Leave(rest, sessionExpired)
      BY <1>5, <2>4 DEF MeAnswered
    <3>2. QED
      BY <1>2, <1>3, <2>2, <3>1, LeaveStep
  <2>5. QED
    BY <2>3, <2>4
<1>6. CASE LoginAnswered(c, rest)
  <2>1. user = Nobody /\ ~InApp /\ c.kind = "login"
    BY <1>1, <1>6 DEF LoginAnswered, Sound, InApp, Login, Nobody, LoginInv
  <2>2. CASE c.answer = "ok"
    <3>1. Enter(c.as, rest) /\ cookie' = c.as
      BY <1>6, <2>2 DEF LoginAnswered
    <3>2. ASSUME NEW j \in DOMAIN rest PROVE rest[j].kind \notin {"me", "login"}
      <4>1. rest[j] \in Sounds
        BY <1>2
      <4>2. QED
        BY <1>2, <2>1, <4>1 DEF Sounds, Sound, Nobody, Unknown
    <3>3. QED
      BY <1>2, <1>3, <1>4, <2>1, <2>2, <3>1, <3>2, EnterStep
  <2>3. CASE c.answer # "ok"
    <3>1. calls' = rest /\ UNCHANGED << cookie, user >>
      BY <1>6, <2>3 DEF LoginAnswered, page
    <3>2. QED
      BY <1>2, <1>3, <3>1, RestStep
  <2>4. QED
    BY <2>2, <2>3
<1>7. CASE LogoutAnswered(c, rest)
  <2>1. cookie' \in {cookie, Nobody} /\ Leave(rest, sessionExpired)
    BY <1>7 DEF LogoutAnswered
  <2>2. QED
    BY <1>2, <1>3, <2>1, LeaveStep
<1>8. CASE DataAnswered(c, rest)
  <2>1. UNCHANGED cookie
    BY <1>8 DEF DataAnswered
  <2>2. \/ Leave(rest, TRUE)
        \/ calls' = rest /\ UNCHANGED user
    BY <1>8 DEF DataAnswered, page
  <2>3. QED
    BY <1>2, <1>3, <2>1, <2>2, LeaveStep, RestStep
<1>9. QED
  BY <1>3, <1>5, <1>6, <1>7, <1>8

\* A call, or its answer, is lost.
LEMMA FailStep == ASSUME SessionInv, NEW i \in DOMAIN calls, Fails(i) PROVE SessionInv'
<1> DEFINE rest == RemoveAt(calls, i)
<1>1. rest \in Seq(Sounds) /\ Single(rest) /\ (user = Unknown => rest = << >>)
  BY RestSound DEF SessionInv
<1>2. UNCHANGED << sessions, logins, cookie >>
  BY DEF Fails, server
<1>3. \/ Leave(rest, sessionExpired)
      \/ calls' = rest /\ UNCHANGED user
  <2>1. CASE calls[i].kind \in {"me", "logout"}
    BY <2>1 DEF Fails
  <2>2. CASE calls[i].kind = "upload"
    BY <2>2 DEF Fails, page
  <2>3. CASE calls[i].kind \notin {"me", "logout", "upload"}
    BY <2>3 DEF Fails, page
  <2>4. QED
    BY <2>1, <2>2, <2>3
<1> HIDE DEF rest
<1>4. QED
  BY <1>1, <1>2, <1>3, LeaveStep, RestStep

\* A call is sent.
LEMMA SendStep ==
  ASSUME SessionInv, NEW k \in Kinds, NEW s \in Seq(Sounds), Single(s),
         calls' = Append(s, Call(k)), UNCHANGED << sessions, logins, cookie, user >>,
         k # "me", user # Unknown, k = "load" => InApp,
         k = "login" => user = Nobody /\ \A i \in DOMAIN s : s[i].kind # "login"
  PROVE  SessionInv'
<1> DEFINE d == Call(k)
<1>1. LoginInv' /\ Sounds' = Sounds
  BY DEF SessionInv, LoginInv, InApp, Sounds, Sound
<1>2. d \in Sounds /\ d.kind = k
  BY DEF SessionInv, LoginInv, Sounds, Sound, Record, Call, CallAs
<1> HIDE DEF d
<1>3. /\ Append(s, d) \in Seq(Sounds) /\ Len(Append(s, d)) = Len(s) + 1 /\ Len(s) \in Nat
      /\ \A i \in 1..Len(s) : Append(s, d)[i] = s[i]
      /\ Append(s, d)[Len(s) + 1] = d
  BY <1>2, AppendProperties
<1>4. Single(Append(s, d))
  <2>1. k # "login" => \A i \in DOMAIN Append(s, d) : Append(s, d)[i].kind = "login" => i \in DOMAIN s
    BY <1>2, <1>3
  <2>2. k = "login" => \A i \in DOMAIN Append(s, d) : Append(s, d)[i].kind = "login" => i = Len(s) + 1
    BY <1>2, <1>3
  <2>3. DOMAIN s = 1..Len(s)
    OBVIOUS
  <2>4. QED
    BY <1>3, <2>1, <2>2, <2>3 DEF Single
<1>5. calls' = Append(s, d)
  BY DEF d
<1>6. QED
  BY <1>1, <1>3, <1>4, <1>5 DEF SessionInv, CallsInv, Single

\* The page, the server and the browser keep the invariant.
LEMMA SessionStep == SessionInv /\ [Next]_vars => SessionInv'
<1> SUFFICES ASSUME SessionInv, [Next]_vars PROVE SessionInv'
  OBVIOUS
<1>1. LoginInv /\ CallsInv /\ calls \in Seq(Sounds) /\ Single(calls)
  BY DEF SessionInv, CallsInv
<1>2. InApp => user # Unknown /\ user # Nobody
  BY <1>1 DEF LoginInv, InApp, Login, Unknown, Nobody
<1>3. ASSUME UNCHANGED << logins, cookie, user, calls >>, sessions' \subseteq sessions PROVE SessionInv'
  <2>1. LoginInv'
    BY <1>1, <1>3 DEF LoginInv, InApp
  <2>2. calls \in Seq(Sounds')
    BY <1>1, <1>3, SoundStays
  <2>3. QED
    BY <1>1, <1>3, <2>1, <2>2 DEF SessionInv, CallsInv, Single
<1>4. CASE EndSession
  <2>1. UNCHANGED << logins, cookie, user, calls >> /\ sessions' \subseteq sessions
    BY <1>4 DEF EndSession, page
  <2>2. QED
    BY <1>3, <2>1
<1>5. CASE SubmitLogin
  <2>1. /\ user = Nobody /\ user # Unknown /\ calls' = Append(calls, Call("login"))
        /\ \A i \in DOMAIN calls : calls[i].kind # "login"
        /\ UNCHANGED << sessions, logins, cookie, user >>
    BY <1>5 DEF SubmitLogin, Send, Asked, server, page, Unknown, Nobody
  <2>2. QED
    BY <1>1, <2>1, SendStep DEF Kinds
<1>6. ASSUME NEW k \in {"logout", "load", "ask", "upload"}, InApp, Send(k),
             UNCHANGED << sessions, logins, cookie, user >>
      PROVE  SessionInv'
  BY <1>1, <1>2, <1>6, SendStep DEF Kinds, Send
<1>7. CASE Logout \/ Poll \/ Ask \/ handleUpload
  BY <1>6, <1>7 DEF Logout, Poll, Ask, handleUpload, server, page
<1>8. CASE Reload
  <2>1. cookie' \in 0..logins /\ UNCHANGED << sessions, logins >>
    <3>1. \A c \in Sounds : c.as \in 0..logins
      BY <1>1 DEF Sounds, Sound, Record, LoginInv
    <3>2. \A j \in DOMAIN calls : calls[j].as \in 0..logins
      BY <1>1, <3>1
    <3>3. CookiesUnderWay \subseteq 0..logins
      BY <1>1, <3>2 DEF CookiesUnderWay, Nobody, LoginInv
    <3>4. QED
      BY <1>1, <1>8, <3>3 DEF Reload, server, LoginInv
  <2> DEFINE d == CallAs("me", cookie')
  <2>2. user' = Unknown /\ calls' = << d >>
    BY <1>8 DEF Reload
  <2>3. LoginInv'
    BY <1>1, <2>1, <2>2 DEF LoginInv, InApp, Login, Unknown
  <2>4. d \in Sounds' /\ d.kind = "me"
    BY <1>1, <2>1, <2>2 DEF Sounds, Sound, Record, CallAs, Kinds, LoginInv
  <2> HIDE DEF d
  <2>5. << d >> \in Seq(Sounds') /\ Len(<< d >>) = 1 /\ Single(<< d >>)
    BY <2>4 DEF Single
  <2>6. QED
    BY <2>2, <2>3, <2>5 DEF SessionInv, CallsInv, Single
<1>9. ASSUME NEW t, SwitchTab(t) PROVE SessionInv'
  <2>1. InApp /\ UNCHANGED << sessions, logins, cookie, user >>
    BY <1>9 DEF SwitchTab, server
  <2>2. PICK s \in Loadless(calls) :
               calls' = Append(s, Call(IF t = "audit" THEN "load" ELSE "ask"))
    BY <1>9 DEF SwitchTab
  <2>3. s \in Seq({c \in Sounds : c.kind # "load"})
    BY <1>1, NoLoads
  <2>4. s \in Seq(Sounds) /\ \A j \in DOMAIN s : s[j] \in Sounds
    BY <2>3
  <2>5. Single(s)
    BY <1>2, <2>1, <2>4 DEF Single, Sounds, Sound
  <2>6. QED
    BY <1>2, <2>1, <2>2, <2>4, <2>5, SendStep DEF Kinds
<1>10. ASSUME NEW f, TakeFile(f) \/ Digest(f) PROVE SessionInv'
  BY <1>3, <1>10 DEF TakeFile, Digest, server, page
<1>11. CASE UNCHANGED vars
  BY <1>3, <1>11 DEF vars, server, page
<1>12. QED
  BY <1>4, <1>5, <1>7, <1>8, <1>9, <1>10, <1>11, ServeStep, AnswerStep, FailStep DEF Next

\* The page starts with one call, its first.
LEMMA SessionStarts == ASSUME MaxLogins \in Nat PROVE Init => SessionInv
<1> SUFFICES ASSUME Init PROVE SessionInv
  OBVIOUS
<1> DEFINE d == Call("me")
<1>1. /\ sessions = {} /\ logins = 0 /\ cookie = Nobody /\ user = Unknown /\ calls = << d >>
  BY DEF Init
<1>2. LoginInv
  BY <1>1 DEF LoginInv, InApp, Login, Unknown, Nobody
<1>3. d \in Sounds /\ d.kind = "me"
  BY <1>1 DEF Sounds, Sound, Record, Call, CallAs, Kinds, Nobody
<1> HIDE DEF d
<1>4. << d >> \in Seq(Sounds) /\ Len(<< d >>) = 1 /\ Single(<< d >>)
  BY <1>3 DEF Single
<1>5. QED
  BY <1>1, <1>2, <1>4 DEF SessionInv, CallsInv

\* For every number of logins, calls, reloads and faults: the dashboard gives way
\* to the login form only because its session has ended, a sign-out was asked
\* for, or a call of an earlier login was refused late (App.tsx:86-99).
THEOREM LeavesAreExplained ==
  ASSUME MaxLogins \in Nat
  PROVE  Spec => LeavesForAReason
<1> DEFINE Reason ==
             InApp /\ user' = Nobody =>
               \/ user \notin sessions
               \/ Asked("logout")
               \/ \E i \in DOMAIN calls :
                    /\ calls[i].kind \in {"ask", "upload"} /\ calls[i].answer = "no"
                    /\ calls[i].as # user
<1>1. Init => SessionInv
  BY SessionStarts
<1>2. ASSUME SessionInv, [Next]_vars PROVE Reason
  <2> SUFFICES ASSUME InApp, user' = Nobody, ~Asked("logout"), user \in sessions
               PROVE  \E i \in DOMAIN calls :
                        /\ calls[i].kind \in {"ask", "upload"} /\ calls[i].answer = "no"
                        /\ calls[i].as # user
    OBVIOUS
  <2>1. user # Unknown /\ user # Nobody
    BY <1>2 DEF SessionInv, LoginInv, InApp, Login, Unknown, Nobody
  <2>2. ASSUME NEW i \in DOMAIN calls PROVE Sound(calls[i]) /\ calls[i].kind \notin {"me", "login", "logout"}
    <3>1. calls[i] \in Sounds
      BY <1>2 DEF SessionInv, CallsInv
    <3>2. QED
      BY <2>1, <3>1 DEF Sounds, Sound, Asked
  <2>3. PICK i \in DOMAIN calls : Answered(i) \/ Fails(i)
    <3>1. user' # user
      BY <2>1
    <3>2. ~Reload
      BY DEF Reload, Unknown, Nobody
    <3>3. \A i \in DOMAIN calls : ~Serve(i)
      BY <3>1 DEF Serve, page
    <3>4. \A t : ~SwitchTab(t)
      BY <3>1 DEF SwitchTab
    <3>5. \A f : ~TakeFile(f) /\ ~Digest(f)
      BY <3>1 DEF TakeFile, Digest, page
    <3>6. ~(EndSession \/ SubmitLogin \/ Logout \/ Poll \/ Ask \/ handleUpload)
      BY <3>1 DEF EndSession, SubmitLogin, Logout, Poll, Ask, handleUpload, page
    <3>7. Next
      BY <1>2, <3>1 DEF vars, page
    <3>8. QED
      BY <3>2, <3>3, <3>4, <3>5, <3>6, <3>7 DEF Next
  <2>4. calls[i].kind \in {"load", "ask", "upload"}
    BY <2>2 DEF Sound, Record, Kinds
  <2>5. calls[i].answer = "no"
    <3>1. CASE Fails(i)
      <4>1. UNCHANGED user
        BY <2>4, <3>1 DEF Fails, page
      <4>2. QED
        BY <2>1, <4>1
    <3>2. CASE Answered(i)
      <4>1. calls[i].answer # "no" => UNCHANGED user
        BY <2>4, <3>2 DEF Answered, MeAnswered, LoginAnswered, LogoutAnswered, DataAnswered, page
      <4>2. QED
        BY <2>1, <4>1
    <3>3. QED
      BY <2>3, <3>1, <3>2
  <2>6. QED
    BY <2>2, <2>4, <2>5 DEF Sound
<1>3. QED
  BY <1>1, <1>2, SessionStep, PTL DEF Spec, LeavesForAReason

-------------------------------------------------------------------------------
(* The types of the session *)

\* What the page keeps besides its user.
PageTyped == PanelTypeOK /\ sessionExpired \in BOOLEAN /\ tab \in {"audit", "other"}

\* Every step of the page keeps it, and the others leave it alone.
LEMMA PageStep == PageTyped /\ [Next]_vars => PageTyped'
<1> SUFFICES ASSUME PageTyped, [Next]_vars PROVE PageTyped'
  OBVIOUS
<1>1. PanelTypeOK /\ sessionExpired \in BOOLEAN /\ tab \in {"audit", "other"}
  BY DEF PageTyped
<1>2. ASSUME UNCHANGED panel PROVE PanelTypeOK'
  BY <1>1, <1>2 DEF PanelTypeOK, panel
<1>3. ASSUME FreshPanel PROVE PanelTypeOK'
  BY <1>3 DEF FreshPanel, PanelTypeOK
<1>4. ASSUME EndUpload PROVE PanelTypeOK'
  BY <1>1, <1>4 DEF EndUpload, PanelTypeOK
<1>5. ASSUME UNCHANGED panel, UNCHANGED << sessionExpired, tab >> PROVE PageTyped'
  BY <1>1, <1>2, <1>5 DEF PageTyped
<1>6. ASSUME NEW rest, NEW expired \in BOOLEAN, Leave(rest, expired) PROVE PageTyped'
  BY <1>1, <1>2, <1>3, <1>6 DEF Leave, PageTyped
<1>7. ASSUME NEW u, NEW rest, Enter(u, rest), sessionExpired' \in BOOLEAN PROVE PageTyped'
  BY <1>1, <1>2, <1>7 DEF Enter, PageTyped
<1>8. ASSUME EndUpload, UNCHANGED page PROVE PageTyped'
  BY <1>1, <1>4, <1>8 DEF page, PageTyped
<1>9. ASSUME NEW i, Serve(i) PROVE PageTyped'
  BY <1>5, <1>9 DEF Serve, page
<1>10. ASSUME NEW i, Answered(i) PROVE PageTyped'
  <2> DEFINE c == calls[i]
             rest == RemoveAt(calls, i)
  <2>1. CASE MeAnswered(c, rest)
    BY <1>1, <1>6, <1>7, <2>1 DEF MeAnswered
  <2>2. CASE LoginAnswered(c, rest)
    BY <1>5, <1>7, <2>2 DEF LoginAnswered, page
  <2>3. CASE LogoutAnswered(c, rest)
    BY <1>1, <1>6, <2>3 DEF LogoutAnswered
  <2>4. CASE DataAnswered(c, rest)
    BY <1>5, <1>6, <1>8, <2>4 DEF DataAnswered, page
  <2>5. QED
    BY <1>10, <2>1, <2>2, <2>3, <2>4 DEF Answered
<1>11. ASSUME NEW i, Fails(i) PROVE PageTyped'
  BY <1>1, <1>5, <1>6, <1>8, <1>11 DEF Fails, page
<1>12. CASE EndSession \/ SubmitLogin \/ Logout \/ Poll \/ Ask
  BY <1>5, <1>12 DEF EndSession, SubmitLogin, Logout, Poll, Ask, page
<1>13. CASE handleUpload
  <2>1. StartUpload /\ UNCHANGED page
    BY <1>13 DEF handleUpload
  <2>2. QED
    BY <1>1, <2>1 DEF StartUpload, PanelTypeOK, PageTyped, page
<1>14. CASE Reload
  <2>1. FreshPanel /\ sessionExpired' = FALSE /\ tab' = "audit"
    BY <1>14 DEF Reload
  <2>2. QED
    BY <1>3, <2>1 DEF PageTyped
<1>15. ASSUME NEW t \in {"audit", "other"}, SwitchTab(t) PROVE PageTyped'
  <2>1. tab' = t /\ UNCHANGED << sessionExpired, panel >>
    BY <1>15 DEF SwitchTab
  <2>2. QED
    BY <1>1, <1>2, <1>15, <2>1 DEF PageTyped
<1>16. ASSUME NEW f \in File, TakeFile(f) \/ Digest(f) PROVE PageTyped'
  <2>1. UNCHANGED << sessionExpired, tab >>
    BY <1>16 DEF TakeFile, Digest, page
  <2>2. CASE TakeFile(f)
    BY <1>1, <2>1, <2>2 DEF TakeFile, handleFile, Pick, PanelTypeOK, PageTyped
  <2>3. CASE Digest(f)
    BY <1>1, <2>1, <2>3 DEF Digest, Digested, DigestFails, PanelTypeOK, PageTyped
  <2>4. QED
    BY <1>16, <2>2, <2>3
<1>17. CASE UNCHANGED vars
  BY <1>5, <1>17 DEF vars, page
<1>18. QED
  BY <1>9, <1>10, <1>11, <1>12, <1>13, <1>14, <1>15, <1>16, <1>17 DEF Next

\* For every number of files, logins, calls, reloads and faults, every variable of
\* the session keeps its type: in particular no call is ever sent under, and no
\* page shows, a session that was never made (App.tsx:59-99).
THEOREM SessionTypeCorrect ==
  ASSUME MaxLogins \in Nat
  PROVE  Spec => []TypeOK
<1>1. Init => PageTyped
  BY DEF Init, PanelInit, PanelTypeOK, PageTyped
<1>2. SessionInv /\ PageTyped => TypeOK
  <2> SUFFICES ASSUME SessionInv, PageTyped PROVE TypeOK
    OBVIOUS
  <2> DEFINE Rec == [kind : Kinds, as : {Nobody} \cup Login, answer : {"none", "ok", "no"}]
  <2>1. LoginInv /\ calls \in Seq(Sounds)
    BY DEF SessionInv, CallsInv
  <2>2. logins \in 0..MaxLogins /\ 0..logins \subseteq {Nobody} \cup Login /\ 1..logins \subseteq Login
    BY <2>1 DEF LoginInv, Nobody, Login
  <2>3. Sounds \subseteq Rec
    <3> SUFFICES ASSUME NEW c \in Sounds PROVE c \in Rec
      OBVIOUS
    <3>1. c \in Record /\ c.as \in 0..logins
      BY <2>1 DEF Sounds, Sound, Record, LoginInv
    <3>2. QED
      BY <2>2, <3>1 DEF Record
  <2> HIDE DEF Rec
  <2>4. calls \in Seq(Rec)
    BY <2>1, <2>3
  <2>5. sessions \subseteq Login /\ cookie \in {Nobody} \cup Login /\ user \in {Unknown, Nobody} \cup Login
    BY <2>1, <2>2 DEF LoginInv
  <2>6. QED
    BY <2>2, <2>4, <2>5 DEF TypeOK, PageTyped, Rec
<1>3. QED
  BY <1>1, <1>2, SessionStarts, SessionStep, PageStep, PTL DEF Spec
===============================================================================
