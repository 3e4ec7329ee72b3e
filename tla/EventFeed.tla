----------------------------- MODULE EventFeed -----------------------------
(***************************************************************************)
(* The events octomancer-sync has for the menu-bar application: the ring   *)
(* events_ of Control (src/src/control.cc) and the application's polling   *)
(* of it (src/ui/main.mm).                                                 *)
(*                                                                         *)
(* The application captures its cursor on the main thread, asks its        *)
(* questions later on a serial queue, and moves the cursor when the answer *)
(* is back on the main thread.  A refresh is started every two seconds and *)
(* at the end of every command, whether or not the last one is back, and   *)
(* a command that is being watched holds the serial queue up.              *)
(***************************************************************************)
EXTENDS Naturals, Sequences

CONSTANTS
    MaxEvents,    \* kMaxEvents
    MaxEmits,     \* how many events there are
    MaxPolls      \* how many refreshes may be under way

ASSUME EventFeedAssumption ==
    /\ MaxEvents \in Nat \ {0}
    /\ MaxEmits \in Nat
    /\ MaxPolls \in Nat

VARIABLES
    events,     \* the numbers of the events in events_
    nextSeq,    \* next_event_seq_
    cursor,     \* _eventCursor
    primed,     \* _eventCursorPrimed
    polls,      \* refreshes on the serial queue: the cursor each captured
    replies,    \* their results on the way to the main thread
    seen        \* events the application was given, announced or adopted

feedVars == <<events, nextSeq, cursor, primed, polls, replies, seen>>

-----------------------------------------------------------------------------
(* The daemon.                                                             *)

\* emit(): push_back, and pop_front while there are more than kMaxEvents.
emit ==
    /\ nextSeq <= MaxEmits
    /\ events' = {e \in events \cup {nextSeq} : nextSeq < e + MaxEvents}
    /\ nextSeq' = nextSeq + 1
    /\ UNCHANGED <<cursor, primed, polls, replies, seen>>

\* Mutant: the exclusive test the code once had.
picked_Exclusive(since) == {e \in events : e > since}

\* "events since=": inclusive, because `next` is the number the next event
\* will be given.
picked(since) == {e \in events : e >= since}

-----------------------------------------------------------------------------
(* The application.                                                        *)

refresh ==
    /\ Len(polls) + Len(replies) < MaxPolls
    /\ polls' = Append(polls, cursor)
    /\ UNCHANGED <<events, nextSeq, cursor, primed, replies, seen>>

\* "status" and "events" are both answered.
Fetch ==
    /\ polls # <<>>
    /\ polls' = Tail(polls)
    /\ replies' = Append(replies, [next |-> nextSeq, events |-> picked(Head(polls))])
    /\ UNCHANGED <<events, nextSeq, cursor, primed, seen>>

\* Mutant: the cursor moves on although the events were not answered.
FetchHalf_Ahead ==
    /\ polls # <<>>
    /\ polls' = Tail(polls)
    /\ replies' = Append(replies, [next |-> nextSeq, events |-> {}])
    /\ UNCHANGED <<events, nextSeq, cursor, primed, seen>>

\* "status" is answered and "events" is not: the captured cursor is handed on.
FetchHalf ==
    /\ polls # <<>>
    /\ polls' = Tail(polls)
    /\ replies' = Append(replies, [next |-> Head(polls), events |-> {}])
    /\ UNCHANGED <<events, nextSeq, cursor, primed, seen>>

\* "status" is not answered: the cursor is left alone.
FetchNothing ==
    /\ polls # <<>>
    /\ polls' = Tail(polls)
    /\ UNCHANGED <<events, nextSeq, cursor, primed, replies, seen>>

\* The first answer adopts the cursor without announcing anything.
consumeEvents ==
    /\ replies # <<>>
    /\ replies' = Tail(replies)
    /\ cursor' = Head(replies).next
    /\ primed' = TRUE
    /\ seen' = seen \cup Head(replies).events
    /\ UNCHANGED <<events, nextSeq, polls>>

-----------------------------------------------------------------------------
FeedInit ==
    /\ events = {}
    /\ nextSeq = 1
    /\ cursor = 0
    /\ primed = FALSE
    /\ polls = <<>>
    /\ replies = <<>>
    /\ seen = {}

FeedNext ==
    \/ emit
    \/ refresh
    \/ Fetch
    \/ FetchHalf
    \/ FetchNothing
    \/ consumeEvents

\* The timer goes on, the serial queue and the main thread run what they are
\* given, and a daemon that is asked again and again answers now and then.
FeedFairness ==
    /\ WF_feedVars(refresh)
    /\ SF_feedVars(Fetch)
    /\ WF_feedVars(Fetch \/ FetchHalf \/ FetchNothing)
    /\ WF_feedVars(consumeEvents)

FeedSpec == FeedInit /\ [][FeedNext]_feedVars /\ FeedFairness

-----------------------------------------------------------------------------
(* Properties.                                                             *)

\* Every variable holds what its declaration allows, and no cursor is ahead of
\* the daemon's own count.
FeedTypeOK ==
    /\ nextSeq \in Nat \ {0}
    /\ events \subseteq 1..(nextSeq - 1)
    /\ cursor \in 0..nextSeq
    /\ primed \in BOOLEAN
    /\ polls \in Seq(0..nextSeq)
    /\ replies \in Seq([next : 0..nextSeq, events : SUBSET (1..(nextSeq - 1))])
    /\ seen \subseteq 1..(nextSeq - 1)

\* The comment at "events" in control.cc: a cursor that moves past an event
\* that was never handed over loses it "permanently".  However refreshes
\* overlap, and whichever of them fail, no event still in the ring and behind
\* the cursor was withheld from the application.
NoEventSkipped == \A e \in events : e < cursor => e \in seen

\* The same of the cursors that are still on their way: what a refresh was
\* asked to skip has been seen, and what its answer will skip has been seen or
\* comes with it.
NoneSkippedLater ==
    /\ \A i \in 1..Len(polls) : \A e \in events : e < polls[i] => e \in seen
    /\ \A i \in 1..Len(replies) : \A e \in events :
          e < replies[i].next => e \in seen \cup replies[i].events
=============================================================================
