----------------------------- MODULE ScanBridge -----------------------------
(***************************************************************************)
(* The hand-over from the radio's thread to the loop's (src/scanbridge.cc): *)
(* a bounded queue under a lock, and a pipe that holds a byte when the      *)
(* loop is owed a wake-up.  push() takes the lock, lets it go and then      *)
(* writes the byte; drain() empties the pipe, then takes the lock.          *)
(***************************************************************************)
EXTENDS Integers, Sequences

CONSTANTS
    MaxQueued,   \* kMaxQueued
    MaxPushes    \* a bound: how many events the radio delivers

VARIABLES
    queue, signalled, alive,
    pipe,       \* bytes in it
    pusher,     \* where the radio's thread is: "idle", or "poke": about to write
    drainer,    \* where the loop's thread is: "idle" or "swap": about to take the queue
    pushed,     \* how many events were pushed
    got         \* the events the handlers were called with

bridgeVars == <<queue, signalled, alive, pipe, pusher, drainer, pushed, got>>

BridgeInit ==
    /\ queue = <<>> /\ signalled = FALSE /\ alive = TRUE
    /\ pipe = 0
    /\ pusher = "idle" /\ drainer = "idle"
    /\ pushed = 0
    /\ got = <<>>

\* The oldest makes room: the newest is what says something about now.
Queued(e) == IF Len(queue) >= MaxQueued THEN Append(Tail(queue), e) ELSE Append(queue, e)

push ==
    /\ pusher = "idle" /\ pushed < MaxPushes
    /\ pushed' = pushed + 1
    /\ IF ~alive THEN UNCHANGED <<queue, signalled, pusher>>
       ELSE /\ queue' = Queued(pushed + 1)
            /\ signalled' = TRUE
            /\ pusher' = IF signalled THEN "idle" ELSE "poke"
    /\ UNCHANGED <<alive, pipe, drainer, got>>

Poke ==
    /\ pusher = "poke"
    /\ pipe' = pipe + 1
    /\ pusher' = "idle"
    /\ UNCHANGED <<queue, signalled, alive, drainer, pushed, got>>

\* drain(): the loop found the pipe readable, or octomancerd calls it by hand.
drain ==
    /\ alive /\ drainer = "idle"
    /\ pipe' = 0
    /\ drainer' = "swap"
    /\ UNCHANGED <<queue, signalled, alive, pusher, pushed, got>>

\* Leaves the flag set.
Swap_StillSignalled ==
    /\ drainer = "swap"
    /\ got' = got \o queue
    /\ queue' = <<>>
    /\ drainer' = "idle"
    /\ UNCHANGED <<signalled, alive, pipe, pusher, pushed>>

\* The lock: the whole queue is taken, and the handlers run without it.
Swap ==
    /\ drainer = "swap"
    /\ got' = got \o queue
    /\ queue' = <<>> /\ signalled' = FALSE
    /\ drainer' = "idle"
    /\ UNCHANGED <<alive, pipe, pusher, pushed>>

\* ~ScanBridge(): the radio may go on calling.
Destroy ==
    /\ alive /\ drainer = "idle"
    /\ alive' = FALSE /\ queue' = <<>>
    /\ UNCHANGED <<signalled, pipe, pusher, drainer, pushed, got>>

BridgeNext == push \/ Poke \/ drain \/ Swap \/ Destroy

\* The loop serves a readable pipe, and threads get to run.
BridgeFairness == WF_bridgeVars(Poke) /\ WF_bridgeVars(pipe > 0 /\ drain) /\ WF_bridgeVars(Swap)

-----------------------------------------------------------------------------
\* No event is left in the queue with nobody owing the loop a wake-up: what the
\* radio heard last reaches the handlers, or the bridge is gone.
WakeupsAreOwed == (queue # <<>>) ~> (queue = <<>> \/ ~alive)

\* The handlers see events in the order they were pushed, once, and never
\* miss one because a newer one was refused.
NewestIsKept ==
    /\ \A i, j \in DOMAIN got : i < j => got[i] < got[j]
    /\ alive /\ pushed > 0 => pushed \in {(got \o queue)[i] : i \in DOMAIN (got \o queue)}

\* What the radio's thread heard reaches the loop's thread: in order, the
\* newest first to be kept, and without waiting for the next thing heard.
HeardIsDelivered == []NewestIsKept /\ WakeupsAreOwed
=============================================================================
