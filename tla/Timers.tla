------------------------------- MODULE Timers -------------------------------
(***************************************************************************)
(* What src/loop.h promises about timers, without saying how: a timer      *)
(* fires no earlier than it was asked to, a one-shot fires at most once, a *)
(* cancelled timer never fires, and a repeating timer whose handler has    *)
(* returned is due at the first multiple of its period that is still to    *)
(* come, so missed periods are not owed.  Identifiers are never reused.    *)
(***************************************************************************)
EXTENDS Integers

CONSTANT TimerId     \* the identifiers there are, all positive

VARIABLES
    armed,   \* armed[i]: the deadline and period of a timer that will fire, or Off
    used,    \* identifiers handed out so far
    firing,  \* the timer whose handler is running: its id, period and deadline
    now      \* monotonic time

vars == <<armed, used, firing, now>>

Off == [deadline |-> 0, period |-> -1]
Nobody == [id |-> 0, period |-> 0, firedFor |-> 0]

\* Handlers are one thread: at most one timer is being run.
Init ==
    /\ armed = [i \in TimerId |-> Off]
    /\ used = {}
    /\ firing = Nobody
    /\ now = 0

Arm(i) ==
    /\ i \notin used
    /\ used' = used \cup {i}
    /\ armed'[i] # Off
    /\ \A j \in TimerId \ {i} : armed'[j] = armed[j]
    /\ UNCHANGED <<firing, now>>

Cancel(i) ==
    /\ armed[i] # Off
    /\ armed' = [armed EXCEPT ![i] = Off]
    /\ UNCHANGED <<used, firing, now>>

\* A one-shot is gone when it fires; a repeating one stays armed while its
\* handler runs, so that the handler can cancel it.
Fire(i) ==
    /\ firing = Nobody
    /\ armed[i] # Off
    /\ armed[i].deadline <= now
    /\ firing' = [id |-> i, period |-> armed[i].period, firedFor |-> armed[i].deadline]
    /\ armed' = [armed EXCEPT ![i] = IF @.period = 0 THEN Off ELSE @]
    /\ UNCHANGED <<used, now>>

\* The handler returns.  A repeating timer that nobody cancelled is due next at
\* the earliest time in its own series that has not passed.
Returned ==
    /\ firing # Nobody
    /\ firing' = Nobody
    /\ IF firing.period = 0 \/ armed[firing.id] = Off
       THEN armed' = armed
       ELSE LET next == armed'[firing.id].deadline
            IN  /\ next > now
                /\ next - firing.period \in {firing.firedFor} \cup 0..now
                /\ (next - firing.firedFor) % firing.period = 0
                /\ armed' = [armed EXCEPT ![firing.id] = [deadline |-> next, period |-> firing.period]]
    /\ UNCHANGED <<used, now>>

Pass ==
    /\ now' > now
    /\ UNCHANGED <<armed, used, firing>>

Next ==
    \/ \E i \in TimerId : Arm(i) \/ Cancel(i) \/ Fire(i)
    \/ Returned
    \/ Pass

Spec == Init /\ [][Next]_vars
=============================================================================
