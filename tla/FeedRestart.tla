---------------------------- MODULE FeedRestart ----------------------------
(***************************************************************************)
(* EventFeed, and the daemon killed and started again under an application *)
(* that goes on running: events_ is empty, next_event_seq_ is one again    *)
(* (src/src/control.h), and the cursor the application keeps, the ones its *)
(* refreshes captured and the answers on their way are of the daemon that  *)
(* is gone (src/ui/main.mm).                                               *)
(***************************************************************************)
EXTENDS EventFeed

CONSTANT MaxRestarts    \* bound: restarts

ASSUME FeedRestartAssumption == MaxRestarts \in Nat

VARIABLES
    mine,      \* whether the cursor was handed out by the daemon that runs
    ptag,      \* the same of each refresh's cursor
    rtag,      \* and of each answer's
    safe,      \* events emitted when all of them were
    restarts

restartVars == <<feedVars, mine, ptag, rtag, safe, restarts>>

AllMine ==
    /\ mine
    /\ \A i \in DOMAIN ptag : ptag[i]
    /\ \A i \in DOMAIN rtag : rtag[i]

\* Zero asks for everything of any daemon.
Restart ==
    /\ restarts < MaxRestarts /\ restarts' = restarts + 1
    /\ events' = {} /\ nextSeq' = 1 /\ seen' = {} /\ safe' = {}
    /\ mine' = (cursor = 0)
    /\ ptag' = [i \in DOMAIN polls |-> polls[i] = 0]
    /\ rtag' = [i \in DOMAIN replies |-> FALSE]
    /\ UNCHANGED <<cursor, primed, polls, replies>>

RestartNext ==
    \/ /\ emit
       /\ safe' = IF AllMine THEN safe \cup {nextSeq} ELSE safe
       /\ UNCHANGED <<mine, ptag, rtag, restarts>>
    \/ /\ refresh
       /\ ptag' = Append(ptag, mine)
       /\ UNCHANGED <<mine, rtag, safe, restarts>>
    \/ /\ \/ Fetch /\ rtag' = Append(rtag, TRUE)
          \/ FetchHalf /\ rtag' = Append(rtag, Head(ptag))
          \/ FetchNothing /\ rtag' = rtag
       /\ ptag' = Tail(ptag)
       /\ UNCHANGED <<mine, safe, restarts>>
    \/ /\ consumeEvents
       /\ mine' = Head(rtag) /\ rtag' = Tail(rtag)
       /\ UNCHANGED <<ptag, safe, restarts>>
    \/ Restart

RestartInit ==
    /\ FeedInit
    /\ mine = TRUE /\ ptag = <<>> /\ rtag = <<>> /\ safe = {} /\ restarts = 0

-----------------------------------------------------------------------------
(* Properties.                                                             *)

\* The comment at "events" in control.cc, with the daemon killed and started
\* again at any moment: no event in the ring that was emitted once every cursor
\* and answer was the running daemon's is passed over, however refreshes
\* overlap and whichever of them fail.  (The ones emitted before that are lost:
\* they have low numbers, and the application asks from a high one.)
NoEventSkippedAfterRestart == \A e \in events \cap safe : e < cursor => e \in seen

\* Each of those reaches the application unless the ring overflows or the
\* daemon starts again first.
EventsArrive ==
    \A e \in 1..MaxEmits : e \in events \cap safe ~> e \in seen \/ e \notin events
=============================================================================
