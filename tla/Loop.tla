-------------------------------- MODULE Loop --------------------------------
(***************************************************************************)
(* The event loop every process of the program waits in (src/loop.cc) over *)
(* its two backends, poll(2) (src/loop_posix.cc) and k_poll()              *)
(* (firmware/src/loop_zephyr.cc).  Handlers are the callers': while one    *)
(* runs it may arm and cancel timers, add, change and remove sources, and  *)
(* stop the loop, and time may pass.  Other threads may only wake it.      *)
(*                                                                         *)
(* timers_ and sources_ are vectors that grow at the end and are erased    *)
(* from in place, so their order is the order of the identifiers and the   *)
(* model keeps them as functions of the identifier.  need_sweep_ is set    *)
(* exactly when something dead is still held, so it is not a variable.     *)
(***************************************************************************)
EXTENDS Integers, FiniteSets, FiniteSetsExt

CONSTANTS
    MaxTimers,   \* how many timers are ever armed
    MaxSources,  \* how many sources are ever added
    MaxTime,     \* where the clock stops
    Delays,      \* what callers pass to at() and after()
    Periods,     \* what callers pass to every()
    MaxWaits,    \* what callers pass to tick(); -1 is no limit
    Interests,   \* what callers pass to add_source() and set_interest()
    Happens      \* what the handle of a source may come to report

ASSUME LoopAssumption ==
    /\ MaxTimers \in Nat /\ MaxSources \in Nat /\ MaxTime \in Nat
    /\ Delays \subseteq Nat
    /\ Periods \subseteq Nat \ {0}
    /\ MaxWaits \subseteq Int
    /\ Interests \subseteq SUBSET {"read", "write"}
    /\ Happens \subseteq {"in", "out", "hup", "err"}

VARIABLES
    clock,     \* monotonic time
    running,   \* running_
    timers,    \* timers_: id -> [state, deadline, period]
    sources,   \* sources_: id -> [state, interest]
    events,    \* what the handle of each source has to report
    woken,     \* a byte in the self-pipe, or the wake signal raised
    phase,     \* where tick() is: idle, waiting, sources (the handlers), timers (the batch)
    until,     \* when the wait gives up, -1 for never
    ready,     \* sources to call with what fired, failed sources, and the due batch
    failed,
    due,
    handler    \* the handler on the stack

vars == <<clock, running, timers, sources, events, woken, phase, until, ready, failed, due, handler>>

TimerId == 1..MaxTimers
SourceId == 1..MaxSources
Event == {"in", "out", "hup", "err"}
Interest == {"read", "write"}

Timer == [state : {"unused", "live", "dead", "swept"}, deadline : Nat, period : Nat]
Source == [state : {"unused", "live", "dead", "swept"}, interest : SUBSET Interest]
Handler == [kind : {"none", "source", "error", "timer"}, id : Nat, period : Nat, firedFor : Nat]
Due == [deadline : Nat, id : TimerId]
Ready == [id : SourceId, interest : SUBSET (Interest \cup {"hangup"})]

NoHandler == [kind |-> "none", id |-> 0, period |-> 0, firedFor |-> 0]

TypeOK ==
    /\ clock \in Nat
    /\ running \in BOOLEAN
    /\ timers \in [TimerId -> Timer]
    /\ sources \in [SourceId -> Source]
    /\ events \in [SourceId -> SUBSET Event]
    /\ woken \in BOOLEAN
    /\ phase \in {"idle", "waiting", "sources", "timers"}
    /\ until \in Nat \cup {-1}
    /\ ready \subseteq Ready
    /\ failed \subseteq SourceId
    /\ due \subseteq Due
    /\ handler \in Handler

Init ==
    /\ clock = 0
    /\ running = TRUE
    /\ timers = [i \in TimerId |-> [state |-> "unused", deadline |-> 0, period |-> 0]]
    /\ sources = [s \in SourceId |-> [state |-> "unused", interest |-> {}]]
    /\ events = [s \in SourceId |-> {}]
    /\ woken = FALSE
    /\ phase = "idle"
    /\ until = -1
    /\ ready = {} /\ failed = {} /\ due = {}
    /\ handler = NoHandler

-----------------------------------------------------------------------------
(* What callers do, on the loop's own thread: before run() or in a handler. *)

OnThread == phase = "idle" \/ handler # NoHandler

Live(i) == timers[i].state = "live"
LiveSource(s) == sources[s].state = "live"

\* sweep(): what was marked dead during a dispatch is erased after it.
Swept(held) ==
    [x \in DOMAIN held |-> IF held[x].state = "dead" THEN [held[x] EXCEPT !.state = "swept"] ELSE held[x]]

\* Marked dead; erased at once when no handler is on the stack (depth_ == 0).
Retired(held, x) ==
    LET marked == [held EXCEPT ![x].state = IF @ = "live" THEN "dead" ELSE @]
    IN  IF handler = NoHandler THEN Swept(marked) ELSE marked

\* The next identifier of a counter that only goes up.
NextOf(held) == {x \in DOMAIN held : held[x].state = "unused" /\ \A y \in DOMAIN held : y < x => held[y].state # "unused"}

Quiet == UNCHANGED <<clock, woken, phase, until, ready, failed, due, handler>>

\* at(), after() and every(): a zero period is a one-shot.
at(delay, period) ==
    /\ OnThread
    /\ \E i \in NextOf(timers) :
          timers' = [timers EXCEPT ![i] = [state |-> "live", deadline |-> clock + delay, period |-> period]]
    /\ Quiet /\ UNCHANGED <<running, sources, events>>

cancel(i) ==
    /\ OnThread
    /\ Live(i)
    /\ timers' = Retired(timers, i)
    /\ Quiet /\ UNCHANGED <<running, sources, events>>

add_source(interest) ==
    /\ OnThread
    /\ \E s \in NextOf(sources) : sources' = [sources EXCEPT ![s] = [state |-> "live", interest |-> interest]]
    /\ Quiet /\ UNCHANGED <<running, timers, events>>

set_interest(s, interest) ==
    /\ OnThread
    /\ LiveSource(s) /\ sources[s].interest # interest
    /\ sources' = [sources EXCEPT ![s].interest = interest]
    /\ Quiet /\ UNCHANGED <<running, timers, events>>

remove_source(s) ==
    /\ OnThread
    /\ LiveSource(s)
    /\ sources' = Retired(sources, s)
    /\ Quiet /\ UNCHANGED <<running, timers, events>>

stop ==
    /\ OnThread
    /\ running
    /\ running' = FALSE
    /\ Quiet /\ UNCHANGED <<timers, sources, events>>

\* A handler reads or writes until its source has nothing to report; a hangup
\* and an error stay.
Serve ==
    /\ handler.kind = "source"
    /\ events[handler.id] \cap {"in", "out"} # {}
    /\ events' = [events EXCEPT ![handler.id] = @ \ {"in", "out"}]
    /\ Quiet /\ UNCHANGED <<running, timers, sources>>

-----------------------------------------------------------------------------
(* tick() *)

\* next_deadline(): the earliest live timer, or -1.
next_deadline ==
    LET deadlines == {timers[i].deadline : i \in {j \in TimerId : Live(j)}}
    IN  IF deadlines = {} THEN -1 ELSE Min(deadlines)

\* The caller's limit alone.
Budget_NoTimers(max_wait) == IF max_wait < 0 THEN -1 ELSE clock + max_wait

\* How long to wait: what the caller allowed, cut short by the earliest timer.
Budget(max_wait) ==
    LET d == next_deadline
        limit == IF max_wait < 0 THEN -1 ELSE clock + max_wait
        soonest == IF d < clock THEN clock ELSE d
    IN  IF d < 0 THEN limit
        ELSE IF limit < 0 \/ soonest < limit THEN soonest ELSE limit

tick(max_wait) ==
    /\ phase = "idle"
    /\ running
    /\ phase' = "waiting"
    /\ until' = Budget(max_wait)
    /\ UNCHANGED <<clock, running, timers, sources, events, woken, ready, failed, due, handler>>

\* The sources a backend watches, and what it reports of each.  An error is
\* reported whatever was asked for, and instead of anything else; a hangup is
\* reported with a read, because what the peer sent is still to be read.
Watched == {s \in SourceId : LiveSource(s) /\ sources[s].interest # {}}

Fired(s) ==
       (IF "in" \in events[s] /\ "read" \in sources[s].interest THEN {"read"} ELSE {})
    \cup (IF "out" \in events[s] /\ "write" \in sources[s].interest THEN {"write"} ELSE {})
    \cup (IF "hup" \in events[s] THEN {"read", "hangup"} ELSE {})

Failing == {s \in Watched : "err" \in events[s]}
Reporting == {s \in Watched \ Failing : Fired(s) # {}}

\* A hangup taken for a failure.
wait_HangupFails ==
    /\ phase = "waiting"
    /\ woken \/ Failing \cup Reporting # {} \/ (until >= 0 /\ clock >= until)
    /\ woken' = FALSE
    /\ failed' = Failing \cup {s \in Reporting : "hup" \in events[s]}
    /\ ready' = {[id |-> s, interest |-> Fired(s)] : s \in {x \in Reporting : "hup" \notin events[x]}}
    /\ phase' = "sources"
    /\ until' = -1
    /\ UNCHANGED <<clock, running, timers, sources, events, due, handler>>

\* wait(): returns for a source, a wake or the deadline.  The deadline is
\* rounded up, so it may return late but not early; the wake is drained here.
wait ==
    /\ phase = "waiting"
    /\ \/ woken
       \/ Failing \cup Reporting # {}
       \/ until >= 0 /\ clock >= until
    /\ woken' = FALSE
    /\ failed' = Failing
    /\ ready' = {[id |-> s, interest |-> Fired(s)] : s \in Reporting}
    /\ phase' = "sources"
    /\ until' = -1
    /\ UNCHANGED <<clock, running, timers, sources, events, due, handler>>

Idle == handler = NoHandler

\* The ready sources in order, looked up again each time: an earlier handler may
\* have removed this one.
CallReady ==
    /\ phase = "sources" /\ Idle /\ ready # {}
    /\ LET r == CHOOSE x \in ready : \A y \in ready : x.id <= y.id
       IN  /\ ready' = ready \ {r}
           /\ handler' = IF LiveSource(r.id) THEN [NoHandler EXCEPT !.kind = "source", !.id = r.id] ELSE NoHandler
    /\ UNCHANGED <<clock, running, timers, sources, events, woken, phase, until, failed, due>>

CallFailed ==
    /\ phase = "sources" /\ Idle /\ ready = {} /\ failed # {}
    /\ LET s == Min(failed)
       IN  /\ failed' = failed \ {s}
           /\ handler' = IF LiveSource(s) THEN [NoHandler EXCEPT !.kind = "error", !.id = s] ELSE NoHandler
    /\ UNCHANGED <<clock, running, timers, sources, events, woken, phase, until, ready, due>>

\* The due set is fixed before any of it runs, so that what a handler posts with
\* after(0) belongs to the next tick.
SnapshotDue ==
    /\ phase = "sources" /\ Idle /\ ready = {} /\ failed = {}
    /\ phase' = "timers"
    /\ due' = {[deadline |-> timers[i].deadline, id |-> i] :
                  i \in {j \in TimerId : Live(j) /\ timers[j].deadline <= clock}}
    /\ UNCHANGED <<clock, running, timers, sources, events, woken, until, ready, failed, handler>>

Earlier(a, b) == a.deadline < b.deadline \/ (a.deadline = b.deadline /\ a.id <= b.id)

\* The key is used without looking whether the timer still lives.
CallTimer_NoRefind ==
    /\ phase = "timers" /\ Idle /\ due # {}
    /\ LET key == CHOOSE x \in due : \A y \in due : Earlier(x, y)
           t == timers[key.id]
       IN  /\ due' = due \ {key}
           /\ handler' = [kind |-> "timer", id |-> key.id, period |-> t.period, firedFor |-> t.deadline]
           /\ timers' = [timers EXCEPT ![key.id].state = IF t.period = 0 THEN "dead" ELSE @]
    /\ UNCHANGED <<clock, running, sources, events, woken, phase, until, ready, failed>>

\* The due timers, earliest first, looked up again each time; a one-shot is
\* dead before its handler runs.
CallTimer ==
    /\ phase = "timers" /\ Idle /\ due # {}
    /\ LET key == CHOOSE x \in due : \A y \in due : Earlier(x, y)
           t == timers[key.id]
       IN  /\ due' = due \ {key}
           /\ IF Live(key.id)
              THEN /\ handler' = [kind |-> "timer", id |-> key.id, period |-> t.period, firedFor |-> t.deadline]
                   /\ timers' = [timers EXCEPT ![key.id].state = IF t.period = 0 THEN "dead" ELSE @]
              ELSE UNCHANGED <<handler, timers>>
    /\ UNCHANGED <<clock, running, sources, events, woken, phase, until, ready, failed>>

\* Missed periods are owed.
Realign_Owed(firedFor, period) == firedFor + period

\* A repeating timer is re-armed to its next time to come, counted from the
\* deadline it fired for.
Realign(firedFor, period) ==
    IF firedFor + period <= clock
    THEN firedFor + (((clock - firedFor) \div period) + 1) * period
    ELSE firedFor + period

\* A handler returns.  A repeating timer it did not cancel is re-armed.
Return ==
    /\ handler # NoHandler
    /\ handler' = NoHandler
    /\ timers' = IF handler.period > 0 /\ Live(handler.id)
                 THEN [timers EXCEPT ![handler.id].deadline = Realign(handler.firedFor, handler.period)]
                 ELSE timers
    /\ UNCHANGED <<clock, running, sources, events, woken, phase, until, ready, failed, due>>

EndTick ==
    /\ phase = "timers" /\ Idle /\ due = {}
    /\ phase' = "idle"
    /\ timers' = Swept(timers)
    /\ sources' = Swept(sources)
    /\ UNCHANGED <<clock, running, events, woken, until, ready, failed, due, handler>>

-----------------------------------------------------------------------------
(* The world *)

Pass ==
    /\ clock < MaxTime
    /\ clock' = clock + 1
    /\ UNCHANGED <<running, timers, sources, events, woken, phase, until, ready, failed, due, handler>>

\* wake(), from any thread or an interrupt; one that is pending is enough.
wake ==
    /\ ~woken
    /\ woken' = TRUE
    /\ UNCHANGED <<clock, running, timers, sources, events, phase, until, ready, failed, due, handler>>

Arrive(s) ==
    /\ LiveSource(s)
    /\ \E e \in Happens \ events[s] : events' = [events EXCEPT ![s] = @ \cup {e}]
    /\ UNCHANGED <<clock, running, timers, sources, woken, phase, until, ready, failed, due, handler>>

Dispatch == CallReady \/ CallFailed \/ SnapshotDue \/ CallTimer \/ Return \/ EndTick

Next ==
    \/ \E d \in Delays : at(d, 0)
    \/ \E p \in Periods : at(p, p)
    \/ \E i \in TimerId : cancel(i)
    \/ \E interest \in Interests : add_source(interest)
    \/ \E s \in SourceId : remove_source(s)
    \/ \E s \in SourceId, interest \in Interests : set_interest(s, interest)
    \/ stop
    \/ Serve
    \/ \E w \in MaxWaits : tick(w)
    \/ wait
    \/ Dispatch
    \/ Pass
    \/ wake
    \/ \E s \in SourceId : Arrive(s)

\* The loop goes round (run() calls tick() again), handlers return -- nothing
\* here blocks, which is the rule the design turns on -- and serve the source
\* they were called for, and time passes.
Fairness ==
    /\ WF_vars(\E w \in MaxWaits : tick(w))
    /\ WF_vars(wait)
    /\ WF_vars(Dispatch)
    /\ WF_vars(Pass)

Spec == Init /\ [][Next]_vars /\ Fairness

-----------------------------------------------------------------------------
(* Properties *)

\* What the loop holds, seen as the timers of loop.h.
Armed == [i \in TimerId |-> IF Live(i) THEN [deadline |-> timers[i].deadline, period |-> timers[i].period]
                            ELSE [deadline |-> 0, period |-> -1]]
Used == {i \in TimerId : timers[i].state # "unused"}
Firing == IF handler.kind = "timer"
          THEN [id |-> handler.id, period |-> handler.period, firedFor |-> handler.firedFor]
          ELSE [id |-> 0, period |-> 0, firedFor |-> 0]

T == INSTANCE Timers WITH armed <- Armed, used <- Used, firing <- Firing, now <- clock

\* Timers are what src/loop.h promises: never early, never after cancel(), a
\* one-shot once, and missed periods are not owed (loop.h:105).
TimersKeepTheirPromise == T!Spec

\* A batch of timers only shrinks while it runs, so a handler that posts itself
\* again with after(0) cannot keep tick() from returning.
BatchOnlyShrinks == [][phase = "timers" => due' \subseteq due]_vars

\* A due timer is run, or cancelled by somebody else's handler, unless the loop
\* is stopped: one that came due during a dispatch is found by the next tick.
DueTimersFire ==
    BatchOnlyShrinks /\ \A i \in TimerId : (Live(i) /\ timers[i].deadline <= clock)
                           ~> (~Live(i) \/ timers[i].deadline > clock \/ ~running)

\* What a peer sent before it hung up is offered to the source's reader as long
\* as the source is watched: its handler is called for it, unless an error is
\* reported or the loop is stopped.
SentBytesAreOffered ==
    \A s \in SourceId : ("in" \in events[s] /\ s \in Watched)
                            ~> (\/ handler.kind = "source" /\ handler.id = s
                                \/ s \notin Watched
                                \/ "in" \notin events[s]
                                \/ "read" \notin sources[s].interest
                                \/ "err" \in events[s]
                                \/ ~running)
=============================================================================
