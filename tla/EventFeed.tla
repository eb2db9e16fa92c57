------------------------------ MODULE EventFeed ------------------------------
(***************************************************************************)
(* The list of live events (frontend/src/components/EventFeed.tsx) in a    *)
(* browser.  A message changes the page's state; the rows are drawn later  *)
(* (Commit); the component's effect, which scrolls or counts, runs later   *)
(* still (Effect); and the browser reports where the list stands in its    *)
(* next frame (Frame), whoever has moved it.                               *)
(*                                                                         *)
(* Events are numbered as they arrive.  The list has a window of one row;  *)
(* its position is the number of rows above the window.  React and the     *)
(* browser are external: no commit before the effect of the last one, one  *)
(* report a frame.                                                         *)
(***************************************************************************)
EXTENDS Integers, Sequences, FiniteSets, SequencesExt

CONSTANTS
  Type,         \* event types, each with a chip
  TypeOf,       \* the type of each event
  MAX_EVENTS,   \* how many events the page keeps
  NearRows,     \* how many rows are less than 40 pixels high together
  MaxMessages,  \* bound: events
  MaxMoves      \* bound: scrolls, chips, changes of tab and uploads

ASSUME TypesKnown == TypeOf \in [1..MaxMessages -> Type]
ASSUME BoundsAssumption == {MAX_EVENTS, NearRows, MaxMessages, MaxMoves} \subseteq Nat

VARIABLES
  events,       \* App: sampleEvents or monitorEvents
  drawn,        \* the events of the last commit
  effect,       \* the effect of that commit is due
  closure,      \* autoScroll as that commit saw it
  open,         \* the list's tab is the active one
  activeFilters, autoScroll, newCount, prevLength,
  top,          \* listRef.current.scrollTop
  reported,     \* FALSE: the browser has a new position to report
  away,         \* history: the reader has scrolled up
  moved,        \* history: something else than an arrival changed the rows
  raced,        \* history: rows drawn before a move was reported, or counted after it
  unread,       \* history: events drawn since the list last stood at its end
  messages, moves

state == << activeFilters, autoScroll, newCount, prevLength >>
dom == << drawn, effect, closure, top, reported >>
history == << away, moved, raced, unread >>
feedVars == << events, open, state, dom, history, messages, moves >>

FeedTypeOK ==
  /\ {events, drawn} \subseteq Seq(1..MaxMessages)
  /\ Len(events) <= MAX_EVENTS /\ Len(drawn) <= MAX_EVENTS
  /\ {effect, closure, open, autoScroll, reported, away, moved, raced} \subseteq BOOLEAN
  /\ activeFilters \subseteq Type
  /\ {newCount, unread} \subseteq Nat
  /\ {prevLength, top} \subseteq 0..MAX_EVENTS
  /\ messages \in 0..MaxMessages /\ moves \in 0..MaxMoves

\* the rows that are shown, as positions in the list of events
Filtered(es, fs) == {i \in DOMAIN es : TypeOf[es[i]] \in fs}

\* the position at which the last row is in the window
End(es, fs) == LET n == Cardinality(Filtered(es, fs)) IN IF n = 0 THEN 0 ELSE n - 1

\* without rows a sentence takes the place of the list
Mounted == open /\ Filtered(drawn, activeFilters) # {}

Below == End(drawn, activeFilters) - top

\* Mutant: the list must stand exactly at its end
nearBottom_Exact == Below = 0
nearBottom == Below <= NearRows

Move == moves < MaxMoves /\ moves' = moves + 1

FeedInit ==
  /\ events = << >> /\ drawn = << >> /\ effect = FALSE /\ closure = TRUE
  /\ open = TRUE
  /\ activeFilters = Type /\ autoScroll = TRUE /\ newCount = 0 /\ prevLength = 0
  /\ top = 0 /\ reported = TRUE
  /\ away = FALSE /\ moved = FALSE /\ raced = FALSE /\ unread = 0
  /\ messages = 0 /\ moves = 0

-------------------------------------------------------------------------------
(* The page's events *)

\* applyLiveEvent, applyMonitorEvent: [...events, msg.data].slice(-MAX_EVENTS)
Message ==
  /\ messages < MaxMessages /\ messages' = messages + 1
  /\ LET longer == Append(events, messages')
     IN events' = IF Len(longer) > MAX_EVENTS THEN Tail(longer) ELSE longer
  /\ UNCHANGED << open, state, dom, history, moves >>

\* onUploadStart
Clear ==
  /\ events # << >> /\ Move
  /\ events' = << >>
  /\ UNCHANGED << open, state, dom, history, messages >>

-------------------------------------------------------------------------------
(* Drawing *)

\* Where rows come or go above the window, the browser moves the list or not
\* (scroll anchoring); without rows there is no position to report.
Rearranged(es, fs) ==
  /\ top' \in 0..End(es, fs)
  /\ reported' = ((reported /\ top' = top) \/ Filtered(es, fs) = {})
  /\ moved' = TRUE

\* below the rows drawn already, new ones move nothing
Commit ==
  /\ open /\ ~effect /\ events # drawn
  /\ drawn' = events /\ effect' = TRUE /\ closure' = autoScroll
  /\ unread' = unread + Cardinality(ToSet(events) \ ToSet(drawn))
  /\ IF IsPrefix(drawn, events) THEN UNCHANGED << top, reported, moved >>
     ELSE Rearranged(events, activeFilters)
  /\ raced' = (raced \/ (~reported /\ End(events, activeFilters) - top > NearRows))
  /\ UNCHANGED << events, open, state, away, messages, moves >>

\* useEffect on [events, autoScroll]: follow, or count
Effect ==
  /\ effect /\ effect' = FALSE
  /\ prevLength' = Len(drawn)
  /\ LET added == Len(drawn) - prevLength
     IN IF added > 0 /\ closure /\ Mounted
        THEN /\ top' = End(drawn, activeFilters)
             /\ reported' = (reported /\ top' = top)
             /\ unread' = 0
             /\ UNCHANGED newCount
        ELSE /\ newCount' = IF added > 0 THEN newCount + added ELSE newCount
             /\ UNCHANGED << top, reported, unread >>
  /\ UNCHANGED << events, open, activeFilters, autoScroll, drawn, closure, away, moved, raced,
                  messages, moves >>

\* rows drawn whose effect is still to run
Undecided == IF effect /\ Len(drawn) > prevLength THEN Len(drawn) - prevLength ELSE 0

\* the effect that is due will count, as if the reader were still away
Stale == effect /\ ~closure

\* handleScroll
Frame ==
  /\ ~reported /\ reported' = TRUE
  /\ autoScroll' = nearBottom
  /\ IF nearBottom
     THEN /\ newCount' = 0 /\ unread' = Undecided
          /\ away' = FALSE /\ moved' = FALSE /\ raced' = Stale
     ELSE UNCHANGED << newCount, unread, away, moved, raced >>
  /\ UNCHANGED << events, open, activeFilters, prevLength, drawn, effect, closure, top,
                  messages, moves >>

-------------------------------------------------------------------------------
(* The reader *)

Scroll ==
  /\ Mounted /\ Move
  /\ top' \in (0..End(drawn, activeFilters)) \ {top}
  /\ reported' = FALSE
  /\ away' = (End(drawn, activeFilters) - top' > NearRows)
  /\ UNCHANGED << events, open, state, drawn, effect, closure, moved, raced, unread, messages >>

\* scrollTo has nothing to move while no row is shown
Jump(count) ==
  /\ open /\ ~autoScroll /\ newCount > 0
  /\ top' = End(drawn, activeFilters) /\ reported' = (reported /\ top' = top)
  /\ autoScroll' = TRUE /\ newCount' = count
  /\ unread' = 0 /\ away' = FALSE /\ moved' = (moved /\ ~Mounted) /\ raced' = Stale
  /\ UNCHANGED << events, open, activeFilters, prevLength, drawn, effect, closure,
                  messages, moves >>

\* Mutant: the count is kept
JumpToBottom_KeepsCount == Jump(newCount)

\* the pill "n new events"
JumpToBottom == Jump(0)

toggleFilter(t) == IF t \in activeFilters THEN activeFilters \ {t} ELSE activeFilters \cup {t}

\* a chip
ToggleFilter(t) ==
  /\ open /\ Move
  /\ activeFilters' = toggleFilter(t)
  /\ Rearranged(drawn, activeFilters')
  /\ UNCHANGED << events, open, autoScroll, newCount, prevLength, drawn, effect, closure,
                  away, raced, unread, messages >>

\* TabPanel renders nothing of a tab that is not active
LeaveTab ==
  /\ open /\ Move
  /\ open' = FALSE
  /\ UNCHANGED << events, state, dom, history, messages >>

\* a list mounted anew stands at its top
ReturnToTab ==
  /\ ~open
  /\ open' = TRUE /\ drawn' = events /\ effect' = FALSE /\ closure' = TRUE
  /\ activeFilters' = Type /\ autoScroll' = TRUE /\ newCount' = 0 /\ prevLength' = Len(events)
  /\ top' = 0 /\ reported' = TRUE
  /\ away' = FALSE /\ moved' = TRUE /\ raced' = FALSE /\ unread' = 0
  /\ UNCHANGED << events, messages, moves >>

FeedNext ==
  \/ Message \/ Clear \/ Commit \/ Effect \/ Frame
  \/ Scroll \/ JumpToBottom \/ \E t \in Type : ToggleFilter(t) \/ LeaveTab \/ ReturnToTab

FeedSpec == FeedInit /\ [][FeedNext]_feedVars

-------------------------------------------------------------------------------
(* Properties *)

Settled == Mounted /\ events = drawn /\ ~effect /\ reported

\* A list whose reader has not scrolled up stays within reach of its end, unless
\* rows changed otherwise than by arrivals below the ones shown, or more rows
\* were drawn before the browser had reported a scroll (EventFeed.tsx:77-94).
FollowsTheTail == Settled /\ ~away /\ ~moved /\ ~raced => Below <= NearRows

\* A reader who has scrolled up is told of every event since, and of no other
\* (EventFeed.tsx:83-100).
TellsOfNew == Settled /\ away /\ ~moved /\ ~raced => ~autoScroll /\ newCount = unread
===============================================================================
