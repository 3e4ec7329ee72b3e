--------------------------- MODULE Firmware_proofs ---------------------------
(***************************************************************************)
(* The event loop, and the box's firmware that runs on it.                 *)
(*                                                                         *)
(* The event loop keeps src/loop.h's promise about timers: every step of   *)
(* Loop is a step of Timers or changes nothing that Timers speaks of.  Time *)
(* is unbounded, and so are the timers, the sources and what callers ask.  *)
(*                                                                         *)
(* Each of the firmware's parts that Box puts side by side, but for the    *)
(* scanner, has an invariant that its own steps keep, for images, rings,   *)
(* consoles and hosts of any number and size; the safety halves of what    *)
(* Box promises follow.                                                    *)
(***************************************************************************)
EXTENDS Loop, Box, FiniteSetTheorems, SequenceTheorems, WellFoundedInduction, TLAPS

-----------------------------------------------------------------------------
(* The inductive invariant                                                 *)

\* The timer whose handler runs is one that was handed out, was due, and is the
\* timer it was when it fired for as long as nobody cancels it.
FiringIsHeld ==
    /\ handler.kind = "none" => handler = NoHandler
    /\ handler.kind # "timer" => handler.period = 0
    /\ handler.kind = "timer" =>
          /\ handler.id \in TimerId
          /\ timers[handler.id].state # "unused"
          /\ handler.firedFor <= clock
          /\ Live(handler.id) => timers[handler.id].period = handler.period

\* What is left of the batch is due, each timer of it is in it once, and has not
\* been armed again since; the one that is running is no longer in it.
DueIsHeld ==
    \A k \in due :
        /\ timers[k.id].state # "unused"
        /\ k.deadline <= clock
        /\ Live(k.id) => timers[k.id].deadline = k.deadline
        /\ handler.kind = "timer" => k.id # handler.id
        /\ \A other \in due : other.id = k.id => other = k

LoopInv == TypeOK /\ FiringIsHeld /\ DueIsHeld

-----------------------------------------------------------------------------
(* Least elements                                                          *)

LessThan == {ss \in Nat \X Nat : ss[1] < ss[2]}

LEMMA LeastNatural == ASSUME NEW S, S \subseteq Nat, S # {} PROVE \E x \in S : \A y \in S : x <= y
<1>1. IsWellFoundedOn(LessThan, Nat)
  BY NatLessThanWellFounded, Zenon DEF OpToRel, LessThan
<1>2. PICK x \in S : \A y \in S : ~(<<y, x>> \in LessThan)
  BY <1>1, WFMin, Zenon
<1>3. \A y \in S : ~(y < x)
  BY <1>2 DEF LessThan
<1> QED BY <1>3

LEMMA MinIsIn == ASSUME NEW S, S \subseteq Nat, S # {} PROVE Min(S) \in S
<1>1. \E x \in S : \A y \in S : x <= y
  BY LeastNatural, Zenon
<1> QED BY <1>1 DEF Min

\* The batch has an earliest timer.
LEMMA EarliestIsIn ==
    ASSUME NEW S, S \subseteq Due, S # {}
    PROVE  (CHOOSE x \in S : \A y \in S : Earlier(x, y)) \in S
<1> DEFINE D == {x.deadline : x \in S}
<1>1. D \subseteq Nat /\ D # {}
  BY DEF Due
<1>2. PICK d \in D : \A e \in D : d <= e
  <2> HIDE DEF D
  <2> QED BY <1>1, LeastNatural, Zenon
<1> DEFINE I == {x.id : x \in {y \in S : y.deadline = d}}
<1>3. I \subseteq Nat /\ I # {}
  BY <1>2 DEF Due, TimerId
<1>4. PICK i \in I : \A j \in I : i <= j
  <2> HIDE DEF I
  <2> QED BY <1>3, LeastNatural, Zenon
<1>5. PICK x \in S : x.deadline = d /\ x.id = i
  BY <1>4
<1>6. ASSUME NEW y \in S PROVE Earlier(x, y)
  <2>1. d <= y.deadline /\ (y.deadline = d => i <= y.id)
    BY <1>2, <1>4
  <2>2. y.deadline \in Nat /\ d \in Nat
    BY <1>1
  <2> QED BY <1>5, <2>1, <2>2 DEF Earlier
<1>7. \E z \in S : \A y \in S : Earlier(z, y)
  BY <1>6
<1> QED BY <1>7

\* The sources to be called have a first one.
LEMMA FirstIsIn ==
    ASSUME NEW S, S \subseteq Ready, S # {}
    PROVE  (CHOOSE x \in S : \A y \in S : x.id <= y.id) \in S
<1> DEFINE I == {x.id : x \in S}
<1>1. I \subseteq Nat /\ I # {}
  BY DEF Ready, SourceId
<1>2. PICK i \in I : \A j \in I : i <= j
  <2> HIDE DEF I
  <2> QED BY <1>1, LeastNatural, Zenon
<1>3. PICK x \in S : x.id = i
  BY <1>2
<1>4. \A y \in S : x.id <= y.id
  BY <1>2, <1>3
<1> QED BY <1>4

-----------------------------------------------------------------------------
(* The vectors of timers and sources                                       *)

\* A timer is dead or gone, with everything else about it as it was.
LEMMA RetiredTimers ==
    ASSUME TypeOK, NEW i \in TimerId
    PROVE  /\ Retired(timers, i) \in [TimerId -> Timer]
           /\ \A j \in TimerId : /\ Retired(timers, i)[j].deadline = timers[j].deadline
                                 /\ Retired(timers, i)[j].period = timers[j].period
                                 /\ Retired(timers, i)[j].state = "unused" <=> timers[j].state = "unused"
                                 /\ Retired(timers, i)[j].state = "live" <=> j # i /\ Live(j)
<1> DEFINE marked == [timers EXCEPT ![i].state = IF @ = "live" THEN "dead" ELSE @]
<1>1. timers \in [TimerId -> Timer]
  BY DEF TypeOK
<1>2. marked \in [TimerId -> Timer]
  BY <1>1 DEF Timer
<1>3. \A j \in TimerId : /\ marked[j].deadline = timers[j].deadline
                         /\ marked[j].period = timers[j].period
                         /\ marked[j].state = "unused" <=> timers[j].state = "unused"
                         /\ marked[j].state = "live" <=> j # i /\ Live(j)
  BY <1>1 DEF Timer, Live
<1>4. Retired(timers, i) = IF handler = NoHandler THEN Swept(marked) ELSE marked
  BY DEF Retired
<1> HIDE DEF marked
<1>5. /\ Swept(marked) \in [TimerId -> Timer]
      /\ \A j \in TimerId : /\ Swept(marked)[j].deadline = marked[j].deadline
                            /\ Swept(marked)[j].period = marked[j].period
                            /\ Swept(marked)[j].state = "unused" <=> marked[j].state = "unused"
                            /\ Swept(marked)[j].state = "live" <=> marked[j].state = "live"
  BY <1>2 DEF Swept, Timer
<1> QED BY <1>2, <1>3, <1>4, <1>5

LEMMA SweptTimers ==
    ASSUME TypeOK
    PROVE  /\ Swept(timers) \in [TimerId -> Timer]
           /\ \A j \in TimerId : /\ Swept(timers)[j].deadline = timers[j].deadline
                                 /\ Swept(timers)[j].period = timers[j].period
                                 /\ Swept(timers)[j].state = "unused" <=> timers[j].state = "unused"
                                 /\ Swept(timers)[j].state = "live" <=> Live(j)
<1>1. timers \in [TimerId -> Timer]
  BY DEF TypeOK
<1> QED BY <1>1 DEF Swept, Timer, Live

LEMMA SweptSources ==
    ASSUME TypeOK PROVE Swept(sources) \in [SourceId -> Source]
<1>1. sources \in [SourceId -> Source]
  BY DEF TypeOK
<1> QED BY <1>1 DEF Swept, Source

LEMMA RetiredSources ==
    ASSUME TypeOK, NEW s \in SourceId PROVE Retired(sources, s) \in [SourceId -> Source]
<1> DEFINE marked == [sources EXCEPT ![s].state = IF @ = "live" THEN "dead" ELSE @]
<1>1. sources \in [SourceId -> Source]
  BY DEF TypeOK
<1>2. marked \in [SourceId -> Source]
  BY <1>1 DEF Source
<1>3. Retired(sources, s) = IF handler = NoHandler THEN Swept(marked) ELSE marked
  BY DEF Retired
<1> HIDE DEF marked
<1>4. Swept(marked) \in [SourceId -> Source]
  BY <1>2 DEF Swept, Source
<1> QED BY <1>2, <1>3, <1>4

\* A repeating timer is next due at the first time of its own series that is to
\* come: missed periods are not owed.
LEMMA RealignIsNext ==
    ASSUME NEW f \in Nat, NEW p \in Nat \ {0}, clock \in Nat, f <= clock
    PROVE  /\ Realign(f, p) \in Nat
           /\ Realign(f, p) > clock
           /\ Realign(f, p) - p \in {f} \cup 0..clock
           /\ (Realign(f, p) - f) % p = 0
<1>1. CASE f + p > clock
  <2>1. Realign(f, p) = f + p
    BY <1>1 DEF Realign
  <2>2. p % p = 0
    OBVIOUS
  <2> QED BY <1>1, <2>1, <2>2
<1>2. CASE f + p <= clock
  <2> DEFINE q == (clock - f) \div p
             m == (q + 1) * p
  <2>1. Realign(f, p) = f + m
    BY <1>2 DEF Realign
  <2>2. clock - f \in Nat
    OBVIOUS
  <2>3. q \in Nat /\ clock - f = p * q + ((clock - f) % p) /\ (clock - f) % p \in 0..(p - 1)
    BY <2>2
  <2>4. (q + 1) \in Nat
    BY <2>3
  <2>5. m \in Nat /\ m % p = 0 /\ m = p * q + p
    <3> HIDE DEF q
    <3> QED BY <2>3, <2>4
  <2>6. p * q \in Nat
    BY <2>3
  <2> HIDE DEF q, m
  <2>7. m > clock - f /\ m - p <= clock - f /\ m - p \in Nat
    BY <2>3, <2>5, <2>6
  <2>8. f + m \in Nat /\ f + m > clock /\ f + m - p \in 0..clock /\ f + m - f = m
    BY <2>5, <2>7
  <2> QED BY <2>1, <2>5, <2>8
<1> QED BY <1>1, <1>2

-----------------------------------------------------------------------------
(* Type correctness                                                        *)

LEMMA InitTyped == Init => LoopInv
<1> SUFFICES ASSUME Init PROVE LoopInv
  OBVIOUS
<1>1. [state |-> "unused", deadline |-> 0, period |-> 0] \in Timer /\ [state |-> "unused", interest |-> {}] \in Source
  BY DEF Timer, Source
<1>2. timers \in [TimerId -> Timer] /\ sources \in [SourceId -> Source] /\ events \in [SourceId -> SUBSET Event]
  BY <1>1 DEF Init
<1>3. NoHandler \in Handler
  BY DEF NoHandler, Handler
<1>4. TypeOK
  BY <1>2, <1>3 DEF Init, TypeOK
<1>5. FiringIsHeld /\ DueIsHeld
  BY DEF Init, FiringIsHeld, DueIsHeld, NoHandler
<1> QED BY <1>4, <1>5 DEF LoopInv

\* When the wait gives up is a time to come, or never.
LEMMA BudgetTyped == ASSUME TypeOK, NEW w \in Int PROVE Budget(w) \in Nat \cup {-1}
<1> DEFINE deadlines == {timers[i].deadline : i \in {j \in TimerId : Live(j)}}
<1>1. deadlines \subseteq Nat /\ clock \in Nat
  BY DEF TypeOK, Timer
<1>2. next_deadline = IF deadlines = {} THEN -1 ELSE Min(deadlines)
  BY DEF next_deadline
<1> HIDE DEF deadlines
<1>3. next_deadline \in Nat \cup {-1}
  BY <1>1, <1>2, MinIsIn
<1> HIDE DEF next_deadline
<1> QED BY <1>1, <1>3 DEF Budget

\* What a tick does to timers, sources and the rest, where no type is at risk.
LEMMA WaitTyped == ASSUME TypeOK, wait PROVE TypeOK'
<1>1. \A s \in SourceId : Fired(s) \subseteq Interest \cup {"hangup"}
  BY DEF Fired, Interest
<1>2. Reporting \subseteq SourceId /\ Failing \subseteq SourceId
  BY DEF Reporting, Failing, Watched
<1>3. ready' \subseteq Ready /\ failed' \subseteq SourceId
  BY <1>1, <1>2 DEF wait, Ready
<1> QED BY <1>3 DEF wait, TypeOK

LEMMA CallReadyTyped == ASSUME TypeOK, CallReady PROVE TypeOK'
<1> DEFINE r == CHOOSE x \in ready : \A y \in ready : x.id <= y.id
<1>1. r \in ready /\ r.id \in SourceId
  <2>1. r \in ready
    BY FirstIsIn DEF CallReady, TypeOK
  <2> HIDE DEF r
  <2> QED BY <2>1 DEF TypeOK, Ready
<1>2. /\ ready' = ready \ {r}
      /\ handler' = IF LiveSource(r.id) THEN [NoHandler EXCEPT !.kind = "source", !.id = r.id] ELSE NoHandler
  BY DEF CallReady
<1> HIDE DEF r
<1>3. r.id \in Nat
  BY <1>1 DEF SourceId
<1>4. handler' \in Handler
  BY <1>2, <1>3 DEF NoHandler, Handler
<1> QED BY <1>2, <1>4 DEF CallReady, TypeOK

LEMMA CallFailedTyped == ASSUME TypeOK, CallFailed PROVE TypeOK'
<1> DEFINE s == Min(failed)
<1>1. s \in failed
  BY MinIsIn DEF CallFailed, TypeOK, SourceId
<1>2. /\ failed' = failed \ {s}
      /\ handler' = IF LiveSource(s) THEN [NoHandler EXCEPT !.kind = "error", !.id = s] ELSE NoHandler
  BY DEF CallFailed
<1> HIDE DEF s
<1>3. s \in Nat
  BY <1>1 DEF TypeOK, SourceId
<1>4. handler' \in Handler
  BY <1>2, <1>3 DEF NoHandler, Handler
<1> QED BY <1>2, <1>4 DEF CallFailed, TypeOK

\* The earliest of the batch, and what is made of it.
LEMMA CallTimerFacts ==
    ASSUME LoopInv, CallTimer
    PROVE  \E key \in due :
              /\ key.id \in TimerId /\ key.deadline \in Nat /\ timers[key.id] \in Timer
              /\ due' = due \ {key}
              /\ handler = NoHandler
              /\ IF Live(key.id)
                 THEN /\ handler' = [kind |-> "timer", id |-> key.id, period |-> timers[key.id].period,
                                     firedFor |-> timers[key.id].deadline]
                      /\ timers' = [timers EXCEPT ![key.id].state = IF timers[key.id].period = 0 THEN "dead" ELSE @]
                 ELSE UNCHANGED <<handler, timers>>
              /\ UNCHANGED <<clock, running, sources, events, woken, phase, until, ready, failed>>
<1> DEFINE key == CHOOSE x \in due : \A y \in due : Earlier(x, y)
<1>1. key \in due
  BY EarliestIsIn DEF CallTimer, LoopInv, TypeOK
<1>2. /\ due' = due \ {key}
      /\ handler = NoHandler
      /\ IF Live(key.id)
         THEN /\ handler' = [kind |-> "timer", id |-> key.id, period |-> timers[key.id].period,
                             firedFor |-> timers[key.id].deadline]
              /\ timers' = [timers EXCEPT ![key.id].state = IF timers[key.id].period = 0 THEN "dead" ELSE @]
         ELSE UNCHANGED <<handler, timers>>
      /\ UNCHANGED <<clock, running, sources, events, woken, phase, until, ready, failed>>
  BY DEF CallTimer, Idle
<1> HIDE DEF key
<1>3. key.id \in TimerId /\ key.deadline \in Nat /\ timers[key.id] \in Timer
  BY <1>1 DEF LoopInv, TypeOK, Due
<1> QED BY <1>1, <1>2, <1>3

LEMMA CallTimerTyped == ASSUME LoopInv, CallTimer PROVE TypeOK'
<1> PICK key \in due :
              /\ key.id \in TimerId /\ key.deadline \in Nat /\ timers[key.id] \in Timer
              /\ due' = due \ {key}
              /\ handler = NoHandler
              /\ IF Live(key.id)
                 THEN /\ handler' = [kind |-> "timer", id |-> key.id, period |-> timers[key.id].period,
                                     firedFor |-> timers[key.id].deadline]
                      /\ timers' = [timers EXCEPT ![key.id].state = IF timers[key.id].period = 0 THEN "dead" ELSE @]
                 ELSE UNCHANGED <<handler, timers>>
              /\ UNCHANGED <<clock, running, sources, events, woken, phase, until, ready, failed>>
  BY CallTimerFacts
<1>1. key.id \in Nat
  BY DEF TimerId
<1>2. handler' \in Handler
  <2>1. handler \in Handler
    BY DEF LoopInv, TypeOK
  <2> QED BY <1>1, <2>1 DEF Handler, Timer
<1>3. timers' \in [TimerId -> Timer]
  BY DEF LoopInv, TypeOK, Timer
<1> QED BY <1>2, <1>3 DEF LoopInv, TypeOK

\* A handler returns: a repeating timer that still lives is armed again.
LEMMA ReturnFacts ==
    ASSUME LoopInv, Return
    PROVE  IF handler.period > 0 /\ Live(handler.id)
           THEN /\ handler.kind = "timer" /\ handler.id \in TimerId
                /\ handler.firedFor \in Nat /\ handler.period \in Nat \ {0}
                /\ handler.firedFor <= clock /\ clock \in Nat
                /\ timers[handler.id].period = handler.period
                /\ Realign(handler.firedFor, handler.period) \in Nat
                /\ timers' = [timers EXCEPT ![handler.id].deadline = Realign(handler.firedFor, handler.period)]
           ELSE timers' = timers
<1>1. handler \in Handler /\ clock \in Nat
  BY DEF LoopInv, TypeOK
<1>2. CASE handler.period > 0 /\ Live(handler.id)
  <2>1. /\ handler.kind = "timer" /\ handler.id \in TimerId
        /\ handler.firedFor \in Nat /\ handler.period \in Nat \ {0}
        /\ handler.firedFor <= clock
        /\ timers[handler.id].period = handler.period
    BY <1>1, <1>2 DEF LoopInv, FiringIsHeld, Handler
  <2>2. Realign(handler.firedFor, handler.period) \in Nat
    BY <1>1, <2>1, RealignIsNext
  <2> QED BY <1>1, <1>2, <2>1, <2>2 DEF Return
<1>3. CASE ~(handler.period > 0 /\ Live(handler.id))
  BY <1>3 DEF Return
<1> QED BY <1>2, <1>3

LEMMA ReturnTyped == ASSUME LoopInv, Return PROVE TypeOK'
<1>1. timers' \in [TimerId -> Timer]
  BY ReturnFacts DEF LoopInv, TypeOK, Timer
<1>2. NoHandler \in Handler
  BY DEF NoHandler, Handler
<1> QED BY <1>1, <1>2 DEF Return, LoopInv, TypeOK

LEMMA TypeStep == LoopInv /\ Next => TypeOK'
<1> SUFFICES ASSUME LoopInv, Next PROVE TypeOK'
  OBVIOUS
<1> USE LoopAssumption
<1>0. TypeOK
  BY DEF LoopInv
<1>1. ASSUME NEW d \in Nat, NEW p \in Nat, at(d, p) PROVE TypeOK'
  <2> PICK i \in NextOf(timers) :
          timers' = [timers EXCEPT ![i] = [state |-> "live", deadline |-> clock + d, period |-> p]]
    BY <1>1 DEF at
  <2>1. [state |-> "live", deadline |-> clock + d, period |-> p] \in Timer
    BY <1>0 DEF Timer, TypeOK
  <2>2. timers' \in [TimerId -> Timer]
    BY <1>0, <2>1 DEF TypeOK
  <2> QED BY <1>0, <1>1, <2>2 DEF at, Quiet, TypeOK
<1>2. ASSUME NEW i \in TimerId, cancel(i) PROVE TypeOK'
  BY <1>0, <1>2, RetiredTimers DEF cancel, Quiet, TypeOK
<1>3. ASSUME NEW interest \in Interests, add_source(interest) PROVE TypeOK'
  <2> PICK s \in NextOf(sources) : sources' = [sources EXCEPT ![s] = [state |-> "live", interest |-> interest]]
    BY <1>3 DEF add_source
  <2>1. interest \subseteq Interest
    BY DEF LoopAssumption, Interest
  <2>2. [state |-> "live", interest |-> interest] \in Source
    BY <2>1 DEF Source
  <2>3. sources' \in [SourceId -> Source]
    BY <1>0, <2>2 DEF TypeOK
  <2> QED BY <1>0, <1>3, <2>3 DEF add_source, Quiet, TypeOK
<1>4. ASSUME NEW s \in SourceId, remove_source(s) PROVE TypeOK'
  BY <1>0, <1>4, RetiredSources DEF remove_source, Quiet, TypeOK
<1>5. ASSUME NEW s \in SourceId, NEW interest \in Interests, set_interest(s, interest) PROVE TypeOK'
  <2>1. interest \subseteq Interest
    BY DEF LoopAssumption, Interest
  <2>2. sources' \in [SourceId -> Source]
    BY <1>0, <1>5, <2>1 DEF set_interest, TypeOK, Source
  <2> QED BY <1>0, <1>5, <2>2 DEF set_interest, Quiet, TypeOK
<1>6. CASE stop
  BY <1>0, <1>6 DEF stop, Quiet, TypeOK
<1>7. CASE Serve
  BY <1>0, <1>7 DEF Serve, Quiet, TypeOK
<1>8. ASSUME NEW w \in MaxWaits, tick(w) PROVE TypeOK'
  <2>1. w \in Int
    BY DEF LoopAssumption
  <2>2. Budget(w) \in Nat \cup {-1}
    BY <1>0, <2>1, BudgetTyped
  <2> QED BY <1>0, <1>8, <2>2 DEF tick, TypeOK
<1>9. CASE wait
  BY <1>0, <1>9, WaitTyped
<1>10. CASE Dispatch
  <2>1. CASE CallReady
    BY <1>0, <2>1, CallReadyTyped
  <2>2. CASE CallFailed
    BY <1>0, <2>2, CallFailedTyped
  <2>3. CASE SnapshotDue
    <3>1. \A i \in TimerId : timers[i].deadline \in Nat
      BY <1>0 DEF TypeOK, Timer
    <3>2. due' \subseteq Due
      BY <2>3, <3>1 DEF SnapshotDue, Due
    <3> QED BY <1>0, <2>3, <3>2 DEF SnapshotDue, TypeOK
  <2>4. CASE CallTimer
    BY <2>4, CallTimerTyped
  <2>5. CASE Return
    BY <2>5, ReturnTyped
  <2>6. CASE EndTick
    BY <1>0, <2>6, SweptTimers, SweptSources DEF EndTick, TypeOK
  <2> QED BY <1>10, <2>1, <2>2, <2>3, <2>4, <2>5, <2>6 DEF Dispatch
<1>11. CASE Pass
  BY <1>0, <1>11 DEF Pass, TypeOK
<1>12. CASE wake
  BY <1>0, <1>12 DEF wake, TypeOK
<1>13. ASSUME NEW s \in SourceId, Arrive(s) PROVE TypeOK'
  BY <1>0, <1>13 DEF Arrive, TypeOK, LoopAssumption, Event
<1>14. \A d \in Delays : d \in Nat
  BY DEF LoopAssumption
<1>15. \A p \in Periods : p \in Nat
  BY DEF LoopAssumption
<1>16. ASSUME NEW d \in Delays, at(d, 0) PROVE TypeOK'
  BY <1>1, <1>14, <1>16
<1>17. ASSUME NEW p \in Periods, at(p, p) PROVE TypeOK'
  BY <1>1, <1>15, <1>17
<1> QED BY <1>2, <1>3, <1>4, <1>5, <1>6, <1>7, <1>8, <1>9, <1>10, <1>11, <1>12, <1>13, <1>16, <1>17 DEF Next

-----------------------------------------------------------------------------
(* The running timer and the batch                                         *)

\* Timers whose deadline, period and being handed out a step leaves alone, and
\* none of which it brings back: the invariant does not notice.
LEMMA TimersLeftAlone ==
    ASSUME LoopInv, TypeOK',
           \A i \in TimerId : timers[i].state # "unused" =>
               /\ timers'[i].state # "unused"
               /\ timers'[i].deadline = timers[i].deadline
               /\ timers'[i].period = timers[i].period
               /\ Live(i)' => Live(i),
           handler' = handler, due' = due, clock' >= clock
    PROVE  FiringIsHeld' /\ DueIsHeld'
<1> USE DEF LoopInv, TypeOK
<1>1. clock \in Nat /\ clock' \in Nat /\ handler \in Handler /\ due \subseteq Due
  OBVIOUS
<1>2. FiringIsHeld'
  BY <1>1 DEF FiringIsHeld, Handler, NoHandler, Live
<1>3. ASSUME NEW k \in due
      PROVE  /\ timers'[k.id].state # "unused"
             /\ k.deadline <= clock'
             /\ Live(k.id)' => timers'[k.id].deadline = k.deadline
             /\ handler.kind = "timer" => k.id # handler.id
             /\ \A other \in due : other.id = k.id => other = k
  <2>1. k.id \in TimerId /\ k.deadline \in Nat /\ k.deadline <= clock
    BY <1>1 DEF Due, DueIsHeld
  <2> QED BY <1>1, <2>1 DEF DueIsHeld
<1>4. DueIsHeld'
  BY <1>3 DEF DueIsHeld
<1> QED BY <1>2, <1>4

\* A handler of a source or of an error, or none.
LEMMA OtherHandler ==
    ASSUME LoopInv, timers' = timers, due' = due, clock' = clock,
           handler'.kind # "timer", handler'.period = 0, handler'.kind = "none" => handler' = NoHandler
    PROVE  FiringIsHeld' /\ DueIsHeld'
BY DEF LoopInv, FiringIsHeld, DueIsHeld, Live

LEMMA ReturnHeld == ASSUME LoopInv, Return PROVE FiringIsHeld' /\ DueIsHeld'
<1>1. handler' = NoHandler /\ due' = due /\ clock' = clock
  BY DEF Return
<1>2. FiringIsHeld'
  BY <1>1 DEF FiringIsHeld, NoHandler
<1>3. timers \in [TimerId -> Timer] /\ due \subseteq Due
  BY DEF LoopInv, TypeOK
<1>4. ASSUME NEW k \in due
      PROVE  timers'[k.id].state # "unused" /\ (Live(k.id)' => timers'[k.id].deadline = k.deadline)
  <2>1. k.id \in TimerId /\ timers[k.id].state # "unused" /\ (Live(k.id) => timers[k.id].deadline = k.deadline)
        /\ (handler.kind = "timer" => k.id # handler.id)
    BY <1>3 DEF Due, LoopInv, DueIsHeld
  <2> QED BY <1>3, <2>1, ReturnFacts DEF Live
<1>5. DueIsHeld'
  BY <1>1, <1>4 DEF LoopInv, DueIsHeld, NoHandler
<1> QED BY <1>2, <1>5

LEMMA CallTimerHeld == ASSUME LoopInv, CallTimer PROVE FiringIsHeld' /\ DueIsHeld'
<1> PICK key \in due :
              /\ key.id \in TimerId /\ key.deadline \in Nat /\ timers[key.id] \in Timer
              /\ due' = due \ {key}
              /\ handler = NoHandler
              /\ IF Live(key.id)
                 THEN /\ handler' = [kind |-> "timer", id |-> key.id, period |-> timers[key.id].period,
                                     firedFor |-> timers[key.id].deadline]
                      /\ timers' = [timers EXCEPT ![key.id].state = IF timers[key.id].period = 0 THEN "dead" ELSE @]
                 ELSE UNCHANGED <<handler, timers>>
              /\ UNCHANGED <<clock, running, sources, events, woken, phase, until, ready, failed>>
  BY CallTimerFacts
<1>1. timers \in [TimerId -> Timer] /\ due \subseteq Due /\ clock \in Nat
  BY DEF LoopInv, TypeOK
<1>2. timers[key.id].state # "unused" /\ key.deadline <= clock /\ (Live(key.id) => timers[key.id].deadline = key.deadline)
  BY DEF LoopInv, DueIsHeld
<1>3. \A i \in TimerId : /\ timers'[i].deadline = timers[i].deadline
                         /\ timers'[i].period = timers[i].period
                         /\ timers[i].state # "unused" => timers'[i].state # "unused"
                         /\ Live(i)' => Live(i)
  BY <1>1 DEF Live, Timer
<1>4. FiringIsHeld'
  BY <1>2, <1>3 DEF LoopInv, FiringIsHeld, Live, NoHandler
<1>5. ASSUME NEW k \in due' PROVE k \in due /\ k.id # key.id /\ k.id \in TimerId
  BY <1>1 DEF LoopInv, DueIsHeld, Due
<1>6. handler'.kind = "timer" => handler'.id = key.id
  BY DEF NoHandler
<1>7. ASSUME NEW k \in due'
      PROVE  /\ timers'[k.id].state # "unused"
             /\ k.deadline <= clock'
             /\ Live(k.id)' => timers'[k.id].deadline = k.deadline
             /\ handler'.kind = "timer" => k.id # handler'.id
             /\ \A other \in due' : other.id = k.id => other = k
  BY <1>3, <1>5, <1>6 DEF LoopInv, DueIsHeld
<1>8. DueIsHeld'
  BY <1>7 DEF DueIsHeld
<1> QED BY <1>4, <1>8

LEMMA SnapshotHeld == ASSUME LoopInv, SnapshotDue PROVE FiringIsHeld' /\ DueIsHeld'
<1>1. handler' = NoHandler /\ handler = NoHandler /\ timers' = timers /\ clock' = clock
  BY DEF SnapshotDue, Idle
<1>2. FiringIsHeld'
  BY <1>1 DEF FiringIsHeld, NoHandler
<1>3. ASSUME NEW k \in due'
      PROVE  /\ k.id \in TimerId /\ Live(k.id) /\ timers[k.id].deadline <= clock
             /\ k = [deadline |-> timers[k.id].deadline, id |-> k.id]
  BY DEF SnapshotDue
<1>4. DueIsHeld'
  BY <1>1, <1>3 DEF DueIsHeld, Live, NoHandler
<1> QED BY <1>2, <1>4

LEMMA CalledIsNotATimer ==
    ASSUME CallReady \/ CallFailed
    PROVE  handler'.kind # "timer" /\ handler'.period = 0 /\ (handler'.kind = "none" => handler' = NoHandler)
<1>1. \E what \in {"source", "error"} : \E n : handler' = NoHandler \/ handler' = [NoHandler EXCEPT !.kind = what, !.id = n]
  <2>1. CASE CallReady
    <3> DEFINE r == CHOOSE x \in ready : \A y \in ready : x.id <= y.id
    <3>1. handler' = IF LiveSource(r.id) THEN [NoHandler EXCEPT !.kind = "source", !.id = r.id] ELSE NoHandler
      BY <2>1 DEF CallReady
    <3> QED BY <3>1
  <2>2. CASE CallFailed
    <3> DEFINE s == Min(failed)
    <3>1. handler' = IF LiveSource(s) THEN [NoHandler EXCEPT !.kind = "error", !.id = s] ELSE NoHandler
      BY <2>2 DEF CallFailed
    <3> QED BY <3>1
  <2> QED BY <2>1, <2>2
<1>2. PICK what \in {"source", "error"} : \E n : handler' = NoHandler \/ handler' = [NoHandler EXCEPT !.kind = what, !.id = n]
  BY <1>1
<1>3. PICK n : handler' = NoHandler \/ handler' = [NoHandler EXCEPT !.kind = what, !.id = n]
  BY <1>2
<1>4. CASE handler' = NoHandler
  BY <1>4 DEF NoHandler
<1>5. CASE handler' = [NoHandler EXCEPT !.kind = what, !.id = n]
  BY <1>5 DEF NoHandler
<1> QED BY <1>3, <1>4, <1>5

LEMMA HeldStep == LoopInv /\ Next /\ TypeOK' => FiringIsHeld' /\ DueIsHeld'
<1> SUFFICES ASSUME LoopInv, Next, TypeOK' PROVE FiringIsHeld' /\ DueIsHeld'
  OBVIOUS
<1>0. clock \in Nat /\ timers \in [TimerId -> Timer] /\ TypeOK
  BY DEF LoopInv, TypeOK
<1>1. ASSUME NEW d, NEW p, at(d, p) PROVE FiringIsHeld' /\ DueIsHeld'
  <2> PICK i \in NextOf(timers) :
          timers' = [timers EXCEPT ![i] = [state |-> "live", deadline |-> clock + d, period |-> p]]
    BY <1>1 DEF at
  <2>1. timers[i].state = "unused"
    BY DEF NextOf
  <2>2. handler' = handler /\ due' = due /\ clock' = clock
    BY <1>1 DEF at, Quiet
  <2> QED BY <1>0, <2>1, <2>2, TimersLeftAlone DEF Live
<1>2. ASSUME NEW i \in TimerId, cancel(i) PROVE FiringIsHeld' /\ DueIsHeld'
  <2>1. timers' = Retired(timers, i) /\ handler' = handler /\ due' = due /\ clock' = clock
    BY <1>2 DEF cancel, Quiet
  <2> QED BY <1>0, <2>1, RetiredTimers, TimersLeftAlone DEF Live
<1>3. CASE EndTick
  <2>1. timers' = Swept(timers) /\ handler' = handler /\ due' = due /\ clock' = clock
    BY <1>3 DEF EndTick
  <2> QED BY <1>0, <2>1, SweptTimers, TimersLeftAlone DEF Live
<1>4. CASE CallReady \/ CallFailed
  <2>1. timers' = timers /\ due' = due /\ clock' = clock
    BY <1>4 DEF CallReady, CallFailed
  <2>2. handler'.kind # "timer" /\ handler'.period = 0 /\ (handler'.kind = "none" => handler' = NoHandler)
    BY <1>4, CalledIsNotATimer
  <2> QED BY <2>1, <2>2, OtherHandler
<1>5. CASE SnapshotDue
  BY <1>5, SnapshotHeld
<1>6. CASE CallTimer
  BY <1>6, CallTimerHeld
<1>7. CASE Return
  BY <1>7, ReturnHeld
<1>8. ASSUME timers' = timers, handler' = handler, due' = due, clock' >= clock PROVE FiringIsHeld' /\ DueIsHeld'
  BY <1>0, <1>8, TimersLeftAlone DEF Live
<1>9. CASE Pass
  BY <1>0, <1>8, <1>9 DEF Pass
<1>10. CASE stop \/ Serve \/ wait \/ wake
  BY <1>0, <1>8, <1>10 DEF stop, Serve, wait, wake, Quiet
<1>11. ASSUME NEW w, tick(w) PROVE FiringIsHeld' /\ DueIsHeld'
  BY <1>0, <1>8, <1>11 DEF tick
<1>12. ASSUME NEW interest, add_source(interest) PROVE FiringIsHeld' /\ DueIsHeld'
  BY <1>0, <1>8, <1>12 DEF add_source, Quiet
<1>13. ASSUME NEW s, NEW interest, set_interest(s, interest) PROVE FiringIsHeld' /\ DueIsHeld'
  BY <1>0, <1>8, <1>13 DEF set_interest, Quiet
<1>14. ASSUME NEW s, remove_source(s) \/ Arrive(s) PROVE FiringIsHeld' /\ DueIsHeld'
  BY <1>0, <1>8, <1>14 DEF remove_source, Arrive, Quiet
<1>15. Dispatch => FiringIsHeld' /\ DueIsHeld'
  BY <1>3, <1>4, <1>5, <1>6, <1>7 DEF Dispatch
<1> QED BY <1>1, <1>2, <1>9, <1>10, <1>11, <1>12, <1>13, <1>14, <1>15 DEF Next

LEMMA LoopStep == LoopInv /\ [Next]_vars => LoopInv'
<1> SUFFICES ASSUME LoopInv, [Next]_vars PROVE LoopInv'
  OBVIOUS
<1>1. CASE Next
  BY <1>1, TypeStep, HeldStep DEF LoopInv
<1>2. CASE UNCHANGED vars
  BY <1>2 DEF vars, LoopInv, TypeOK, FiringIsHeld, DueIsHeld, Live
<1> QED BY <1>1, <1>2

\* The loop is type correct: in particular the batch holds timers that exist, and
\* the handler on the stack is one.
THEOREM LoopTypeCorrect == Spec => []TypeOK
<1>1. LoopInv => TypeOK
  BY DEF LoopInv
<1> QED BY InitTyped, LoopStep, <1>1, PTL DEF Spec

-----------------------------------------------------------------------------
(* The refinement                                                          *)

LEMMA OnIsNotOff == ASSUME NEW d, NEW n \in Nat PROVE [deadline |-> d, period |-> n] # T!Off
<1>1. n # -1
  OBVIOUS
<1>2. [deadline |-> d, period |-> n].period = n /\ T!Off.period = -1
  BY DEF T!Off
<1> QED BY <1>1, <1>2

\* What Timers sees of a timer.
LEMMA ArmedIs ==
    ASSUME TypeOK
    PROVE  \A i \in TimerId :
              /\ Live(i) => Armed[i] = [deadline |-> timers[i].deadline, period |-> timers[i].period]
              /\ ~Live(i) => Armed[i] = [deadline |-> 0, period |-> -1]
              /\ Live(i) <=> Armed[i] # T!Off
              /\ i \in Used <=> timers[i].state # "unused"
<1>1. \A i \in TimerId : timers[i].period \in Nat
  BY DEF TypeOK, Timer
<1>2. \A i \in TimerId : Armed[i] = IF Live(i) THEN [deadline |-> timers[i].deadline, period |-> timers[i].period]
                                    ELSE [deadline |-> 0, period |-> -1]
  BY DEF Armed
<1>3. \A i \in TimerId : Live(i) <=> Armed[i] # T!Off
  <2>1. \A i \in TimerId : [deadline |-> timers[i].deadline, period |-> timers[i].period] # T!Off
    BY <1>1, OnIsNotOff
  <2> QED BY <1>2, <2>1 DEF T!Off
<1> QED BY <1>2, <1>3 DEF Used

\* Two states in which Timers sees the same.
LEMMA SameView ==
    ASSUME TypeOK, TypeOK',
           \A i \in TimerId : /\ timers'[i].state = "unused" <=> timers[i].state = "unused"
                              /\ Live(i)' <=> Live(i)
                              /\ Live(i) => /\ timers'[i].deadline = timers[i].deadline
                                            /\ timers'[i].period = timers[i].period
    PROVE  Armed' = Armed /\ Used' = Used
<1>1. ASSUME NEW i \in TimerId
      PROVE (IF Live(i)' THEN [deadline |-> timers'[i].deadline, period |-> timers'[i].period]
             ELSE [deadline |-> 0, period |-> -1])
          = (IF Live(i) THEN [deadline |-> timers[i].deadline, period |-> timers[i].period]
             ELSE [deadline |-> 0, period |-> -1])
  OBVIOUS
<1> QED BY <1>1 DEF Armed, Used

LEMMA InitRefines == Init => T!Init
<1> SUFFICES ASSUME Init PROVE T!Init
  OBVIOUS
<1>1. \A i \in TimerId : ~Live(i) /\ timers[i].state = "unused"
  BY DEF Init, Live
<1>2. Armed = [i \in TimerId |-> [deadline |-> 0, period |-> -1]]
  BY <1>1 DEF Armed
<1>3. Used = {}
  BY <1>1 DEF Used
<1>4. Firing = [id |-> 0, period |-> 0, firedFor |-> 0] /\ clock = 0
  BY DEF Init, Firing, NoHandler
<1> QED BY <1>2, <1>3, <1>4 DEF T!Init, T!Off, T!Nobody

\* A timer is handed out.
LEMMA AtRefines == ASSUME LoopInv, TypeOK', NEW d, NEW p, at(d, p) PROVE T!Next
<1> PICK i \in NextOf(timers) :
        timers' = [timers EXCEPT ![i] = [state |-> "live", deadline |-> clock + d, period |-> p]]
  BY DEF at
<1>0. TypeOK /\ timers \in [TimerId -> Timer]
  BY DEF LoopInv, TypeOK
<1>1. i \in TimerId /\ timers[i].state = "unused"
  BY <1>0 DEF NextOf
<1>2. timers'[i].state = "live" /\ \A j \in TimerId \ {i} : timers'[j] = timers[j]
  BY <1>0, <1>1
<1>3. i \notin Used /\ Used' = Used \cup {i}
  BY <1>1, <1>2 DEF Used
<1>4. Armed'[i] # T!Off
  <2>1. timers' \in [TimerId -> Timer]
    BY DEF TypeOK
  <2>2. timers'[i].period \in Nat
    BY <1>1, <2>1 DEF Timer
  <2>3. Armed'[i] = [deadline |-> timers'[i].deadline, period |-> timers'[i].period]
    BY <1>1, <1>2 DEF Armed, Live
  <2> QED BY <2>2, <2>3, OnIsNotOff
<1>5. \A j \in TimerId \ {i} : Armed'[j] = Armed[j]
  BY <1>2 DEF Armed, Live
<1>6. Firing' = Firing /\ clock' = clock
  BY DEF at, Quiet, Firing
<1>7. T!Arm(i)
  BY <1>3, <1>4, <1>5, <1>6 DEF T!Arm
<1> QED BY <1>1, <1>7 DEF T!Next

LEMMA CancelRefines == ASSUME LoopInv, TypeOK', NEW i \in TimerId, cancel(i) PROVE T!Next
<1>0. TypeOK
  BY DEF LoopInv
<1>1. timers' = Retired(timers, i) /\ Live(i) /\ handler' = handler /\ clock' = clock
  BY DEF cancel, Quiet
<1>2. Armed' = [Armed EXCEPT ![i] = T!Off]
  <2>1. \A j \in TimerId : /\ timers'[j].deadline = timers[j].deadline
                           /\ timers'[j].period = timers[j].period
                           /\ Live(j)' <=> j # i /\ Live(j)
    BY <1>0, <1>1, RetiredTimers DEF Live
  <2>2. \A j \in TimerId : Armed'[j] = IF j = i THEN T!Off ELSE Armed[j]
    BY <2>1 DEF Armed, T!Off
  <2>3. Armed' = [j \in TimerId |-> Armed'[j]] /\ Armed = [j \in TimerId |-> Armed[j]]
    BY DEF Armed
  <2> QED BY <2>2, <2>3
<1>3. Used' = Used
  BY <1>0, <1>1, RetiredTimers DEF Used
<1>4. Armed[i] # T!Off
  BY <1>0, <1>1, ArmedIs
<1>5. Firing' = Firing
  BY <1>1 DEF Firing
<1>6. T!Cancel(i)
  BY <1>1, <1>2, <1>3, <1>4, <1>5 DEF T!Cancel
<1> QED BY <1>6 DEF T!Next

\* The earliest timer of the batch fires, or has been cancelled since.
LEMMA CallTimerRefines == ASSUME LoopInv, TypeOK', CallTimer PROVE [T!Next]_(T!vars)
<1> PICK key \in due :
              /\ key.id \in TimerId /\ key.deadline \in Nat /\ timers[key.id] \in Timer
              /\ due' = due \ {key}
              /\ handler = NoHandler
              /\ IF Live(key.id)
                 THEN /\ handler' = [kind |-> "timer", id |-> key.id, period |-> timers[key.id].period,
                                     firedFor |-> timers[key.id].deadline]
                      /\ timers' = [timers EXCEPT ![key.id].state = IF timers[key.id].period = 0 THEN "dead" ELSE @]
                 ELSE UNCHANGED <<handler, timers>>
              /\ UNCHANGED <<clock, running, sources, events, woken, phase, until, ready, failed>>
  BY CallTimerFacts
<1> DEFINE i == key.id
           t == timers[i]
<1>0. TypeOK /\ timers \in [TimerId -> Timer]
  BY DEF LoopInv, TypeOK
<1>1. CASE ~Live(i)
  <2>1. Armed' = Armed /\ Used' = Used
    BY <1>1 DEF Armed, Used, Live
  <2>2. Firing' = Firing /\ clock' = clock
    BY <1>1 DEF Firing
  <2> QED BY <2>1, <2>2 DEF T!vars
<1>2. CASE Live(i)
  <2>1. Firing = T!Nobody
    BY DEF Firing, T!Nobody, NoHandler
  <2>2. Armed[i] = [deadline |-> t.deadline, period |-> t.period] /\ Armed[i] # T!Off
    BY <1>0, <1>2, ArmedIs
  <2>3. Armed[i].deadline <= clock
    BY <1>2, <2>2 DEF LoopInv, DueIsHeld
  <2>4. Firing' = [id |-> i, period |-> Armed[i].period, firedFor |-> Armed[i].deadline]
    BY <1>2, <2>2 DEF Firing
  <2>5. /\ \A j \in TimerId : timers'[j].deadline = timers[j].deadline /\ timers'[j].period = timers[j].period
        /\ \A j \in TimerId : timers'[j].state = IF j = i /\ t.period = 0 THEN "dead" ELSE timers[j].state
    BY <1>0, <1>2 DEF Timer
  <2>6. \A j \in TimerId : Armed'[j] = IF j = i /\ t.period = 0 THEN T!Off ELSE Armed[j]
    BY <2>5 DEF Armed, Live, T!Off
  <2>7. Armed' = [Armed EXCEPT ![i] = IF @.period = 0 THEN T!Off ELSE @]
    <3>1. Armed' = [j \in TimerId |-> Armed'[j]] /\ Armed = [j \in TimerId |-> Armed[j]]
      BY DEF Armed
    <3>2. Armed[i].period = t.period
      BY <2>2
    <3> QED BY <2>6, <3>1, <3>2
  <2>8. Used' = Used
    <3>1. t.state # "unused"
      BY <1>2 DEF Live
    <3> QED BY <2>5, <3>1 DEF Used
  <2>9. T!Fire(i)
    BY <2>1, <2>2, <2>3, <2>4, <2>7, <2>8 DEF T!Fire
  <2> QED BY <2>9 DEF T!Next
<1> QED BY <1>1, <1>2

\* A handler returns.
LEMMA ReturnRefines == ASSUME LoopInv, TypeOK', Return PROVE [T!Next]_(T!vars)
<1>0. TypeOK /\ timers \in [TimerId -> Timer] /\ handler \in Handler
  BY DEF LoopInv, TypeOK
<1>1. handler # NoHandler /\ handler' = NoHandler /\ clock' = clock
  BY DEF Return
<1>2. Firing' = T!Nobody
  BY <1>1 DEF Firing, T!Nobody, NoHandler
<1>3. CASE handler.kind # "timer"
  <2>1. Firing = T!Nobody
    BY <1>3 DEF Firing, T!Nobody
  <2>2. timers' = timers
    BY <1>3, ReturnFacts
  <2>3. Armed' = Armed /\ Used' = Used
    BY <2>2 DEF Armed, Used, Live
  <2> QED BY <1>1, <1>2, <2>1, <2>3 DEF T!vars
<1>4. CASE handler.kind = "timer"
  <2> DEFINE i == handler.id
             next == Realign(handler.firedFor, handler.period)
  <2>1. Firing = [id |-> i, period |-> handler.period, firedFor |-> handler.firedFor]
    BY <1>4 DEF Firing
  <2>2. i \in TimerId /\ i # 0
    BY <1>4 DEF LoopInv, FiringIsHeld, TimerId
  <2>3. Firing # T!Nobody
    <3>1. Firing.id = i /\ T!Nobody.id = 0
      BY <2>1 DEF T!Nobody
    <3> QED BY <2>2, <3>1
  <2>4. Live(i) <=> Armed[i] # T!Off
    BY <1>0, <2>2, ArmedIs
  <2>5. Firing.period = handler.period /\ Firing.id = i /\ Firing.firedFor = handler.firedFor
    BY <2>1
  <2>6. handler.period \in Nat
    BY <1>0 DEF Handler
  <2>7. CASE ~(handler.period > 0 /\ Live(i))
    <3>1. timers' = timers
      BY <2>7, ReturnFacts
    <3>2. Armed' = Armed /\ Used' = Used
      BY <3>1 DEF Armed, Used, Live
    <3>3. Firing.period = 0 \/ Armed[Firing.id] = T!Off
      BY <2>4, <2>5, <2>6, <2>7
    <3>4. T!Returned
      BY <1>1, <1>2, <2>3, <3>2, <3>3 DEF T!Returned
    <3> QED BY <3>4 DEF T!Next
  <2>8. CASE handler.period > 0 /\ Live(i)
    <3>1. /\ handler.firedFor \in Nat /\ handler.period \in Nat \ {0}
          /\ handler.firedFor <= clock /\ clock \in Nat
          /\ timers[i].period = handler.period
          /\ timers' = [timers EXCEPT ![i].deadline = next]
      BY <2>8, ReturnFacts
    <3>2. next > clock /\ next - handler.period \in {handler.firedFor} \cup 0..clock
          /\ (next - handler.firedFor) % handler.period = 0
      BY <3>1, RealignIsNext
    <3>3. /\ \A j \in TimerId : timers'[j].period = timers[j].period /\ timers'[j].state = timers[j].state
          /\ \A j \in TimerId : timers'[j].deadline = IF j = i THEN next ELSE timers[j].deadline
      BY <1>0, <3>1 DEF Timer
    <3>4. Used' = Used
      BY <3>3 DEF Used
    <3>5. \A j \in TimerId : Armed'[j] = IF j = i THEN [deadline |-> next, period |-> handler.period] ELSE Armed[j]
      <4> HIDE DEF next
      <4> QED BY <2>8, <3>1, <3>3 DEF Armed, Live
    <3>6. Armed'[i].deadline = next
      BY <2>2, <3>5
    <3>7. Armed' = [Armed EXCEPT ![i] = [deadline |-> next, period |-> handler.period]]
      <4>1. Armed' = [j \in TimerId |-> Armed'[j]] /\ Armed = [j \in TimerId |-> Armed[j]]
        BY DEF Armed
      <4> HIDE DEF next
      <4> QED BY <3>5, <4>1
    <3>8. ~(Firing.period = 0 \/ Armed[Firing.id] = T!Off)
      BY <2>4, <2>5, <2>6, <2>8
    <3> HIDE DEF next
    <3>9. T!Returned
      BY <1>1, <1>2, <2>3, <2>5, <3>2, <3>4, <3>6, <3>7, <3>8 DEF T!Returned
    <3> QED BY <3>9 DEF T!Next
  <2> QED BY <2>7, <2>8
<1> QED BY <1>3, <1>4

LEMMA StepRefines == LoopInv /\ TypeOK' /\ [Next]_vars => [T!Next]_(T!vars)
<1> SUFFICES ASSUME LoopInv, TypeOK', [Next]_vars PROVE [T!Next]_(T!vars)
  OBVIOUS
<1>0. TypeOK
  BY DEF LoopInv
<1>1. ASSUME NEW d, NEW p, at(d, p) PROVE [T!Next]_(T!vars)
  BY <1>1, AtRefines
<1>2. ASSUME NEW i \in TimerId, cancel(i) PROVE [T!Next]_(T!vars)
  BY <1>2, CancelRefines
<1>3. CASE CallTimer
  BY <1>3, CallTimerRefines
<1>4. CASE Return
  BY <1>4, ReturnRefines
<1>5. CASE Pass
  <2>1. clock' > clock
    BY <1>0, <1>5 DEF Pass, TypeOK
  <2>2. Armed' = Armed /\ Used' = Used /\ Firing' = Firing
    BY <1>5 DEF Pass, Armed, Used, Firing, Live
  <2>3. T!Pass
    BY <2>1, <2>2 DEF T!Pass
  <2> QED BY <2>3 DEF T!Next
<1>6. ASSUME Armed' = Armed, Used' = Used, handler'.kind # "timer", handler.kind # "timer", clock' = clock
      PROVE  [T!Next]_(T!vars)
  BY <1>6 DEF T!vars, Firing
<1>7. ASSUME timers' = timers, handler' = handler, clock' = clock PROVE [T!Next]_(T!vars)
  BY <1>7 DEF T!vars, Firing, Armed, Used, Live
<1>8. CASE EndTick
  <2>1. \A i \in TimerId : /\ timers'[i].state = "unused" <=> timers[i].state = "unused"
                           /\ Live(i)' <=> Live(i)
                           /\ timers'[i].deadline = timers[i].deadline
                           /\ timers'[i].period = timers[i].period
    BY <1>0, <1>8, SweptTimers DEF EndTick, Live
  <2>2. Armed' = Armed /\ Used' = Used
    BY <1>0, <2>1, SameView
  <2>3. Firing' = Firing /\ clock' = clock
    BY <1>8 DEF EndTick, Firing
  <2> QED BY <2>2, <2>3 DEF T!vars
<1>9. CASE CallReady \/ CallFailed
  <2>1. timers' = timers /\ clock' = clock /\ handler = NoHandler
    BY <1>9 DEF CallReady, CallFailed, Idle
  <2>2. handler'.kind # "timer"
    BY <1>9, CalledIsNotATimer
  <2>3. handler.kind # "timer"
    BY <2>1 DEF NoHandler
  <2> QED BY <1>6, <2>1, <2>2, <2>3 DEF Armed, Used, Live
<1>10. CASE SnapshotDue
  BY <1>7, <1>10 DEF SnapshotDue
<1>11. CASE stop \/ Serve \/ wait \/ wake
  BY <1>7, <1>11 DEF stop, Serve, wait, wake, Quiet
<1>12. ASSUME NEW w, tick(w) PROVE [T!Next]_(T!vars)
  BY <1>7, <1>12 DEF tick
<1>13. ASSUME NEW interest, add_source(interest) PROVE [T!Next]_(T!vars)
  BY <1>7, <1>13 DEF add_source, Quiet
<1>14. ASSUME NEW s, NEW interest, set_interest(s, interest) PROVE [T!Next]_(T!vars)
  BY <1>7, <1>14 DEF set_interest, Quiet
<1>15. ASSUME NEW s, remove_source(s) \/ Arrive(s) PROVE [T!Next]_(T!vars)
  BY <1>7, <1>15 DEF remove_source, Arrive, Quiet
<1>16. CASE UNCHANGED vars
  BY <1>7, <1>16 DEF vars
<1>17. Dispatch => [T!Next]_(T!vars)
  BY <1>3, <1>4, <1>8, <1>9, <1>10 DEF Dispatch
<1>18. Next => [T!Next]_(T!vars)
  BY <1>1, <1>2, <1>5, <1>11, <1>12, <1>13, <1>14, <1>15, <1>17 DEF Next
<1> QED BY <1>16, <1>18

\* The loop implements the timers that loop.h promises: whatever handlers do and
\* however late the loop is, none fires early or after it was cancelled, a one-shot
\* fires once, and a repeating timer keeps its series without owing missed periods.
THEOREM LoopKeepsTimers == Spec => TimersKeepTheirPromise
<1>1. LoopInv => TypeOK
  BY DEF LoopInv
<1>2. Spec => []LoopInv
  BY InitTyped, LoopStep, PTL DEF Spec
<1>3. Spec => T!Spec
  BY InitRefines, StepRefines, <1>1, <1>2, PTL DEF Spec, T!Spec
<1> QED BY <1>3 DEF TimersKeepTheirPromise

-----------------------------------------------------------------------------
(* The boot guard *)

Stage == {"off", "guard", "drivers", "main", "quiet", "safe", "bringup", "working", "dfu"}

\* The stages a box gets to after the guard has counted, and those after the
\* note about the last run was taken.
Counting == {"drivers", "main", "quiet", "safe", "bringup"}
NotedAt == {"quiet", "safe", "bringup", "working"}

BootTypeOK ==
    /\ image \in Flaw
    /\ stage \in Stage
    /\ retained \in [boots : {"unset", "set"}, attempts : Nat, fault : BOOLEAN, count : Nat,
                     starved : {"unset", "ok", "wire"}]
    /\ cause \in BOOLEAN /\ safe \in BOOLEAN /\ unsettled \in BOOLEAN
    /\ stuck \in {"none", "loop", "wire"}
    /\ probe \in [started : BOOLEAN, waiting : BOOLEAN, since : Nat]
    /\ ended \in {"power", "dfu", "fault", "loop", "wire"}
    /\ failures \in Nat

\* The count in the kept memory is the number of starts in a row that failed,
\* and one more from the guard until the run has settled.
AttemptsAreFailures ==
    /\ stage = "off" => retained.boots = "unset" /\ failures = 0
    /\ stage = "guard" => /\ failures <= MaxBootAttempts
                          /\ retained.boots = "set" => retained.attempts = failures
                          /\ retained.boots = "unset" => failures = 0
    /\ stage \in Counting \/ (stage = "working" /\ unsettled) =>
          retained.boots = "set" /\ retained.attempts = failures + 1 /\ failures < MaxBootAttempts
    /\ stage = "working" => failures = 0 /\ retained.boots = "set"
    /\ stage = "working" /\ ~unsettled => retained.attempts = 0
    /\ stage = "dfu" => retained.boots = "set" /\ retained.attempts = 0

\* A run that was noted was noted for what ended the one before it.
NotedRightly ==
    stage \in NotedAt =>
        /\ ended \in {"power", "dfu"} => said = <<>>
        /\ ended = "fault" => said = <<"fault">>
        /\ ended = "wire" => said = <<"watchdog", "wire">>
        /\ ended = "loop" => said \in {<<"watchdog", "ok">>, <<"watchdog", "unset">>}

\* Safe mode is for a start after one that failed.
SafeAfterFailure ==
    /\ stage = "quiet" => (safe <=> failures > 0)
    /\ stage = "safe" => failures > 0
    /\ stage = "bringup" => failures = 0
    /\ stage = "dfu" => ended = "dfu" \/ failures >= MaxBootAttempts

\* Until the note is taken the hardware and the record between them tell what
\* ended the last run.  The watchdog can only have ended one that was working,
\* so its word is never older than the fault beside it.
RecordTellsTheEnd ==
    /\ stage \in {"off", "guard", "drivers", "main", "dfu"} =>
          /\ cause <=> ended \in {"loop", "wire"}
          /\ retained.fault <=> ended = "fault"
          /\ ended = "wire" => retained.starved = "wire"
          /\ ended = "loop" => retained.starved # "wire"
          /\ cause => failures < 2 /\ image # "drivers" /\ stage # "dfu"
    /\ stage \in NotedAt => ~cause /\ ~retained.fault
    /\ stage \in NotedAt \cup {"main"} => image # "drivers"
    /\ stage \in {"quiet", "safe", "bringup"} => retained.starved = "unset"
    /\ stage = "working" => (retained.starved = "wire" <=> Unanswered(probe))

BootInv == BootTypeOK /\ AttemptsAreFailures /\ SafeAfterFailure /\ RecordTellsTheEnd /\ NotedRightly

LEMMA BootStarts == ASSUME BootInit PROVE BootInv
<1> USE BootGuardAssumption DEF BootInv, Stage, Counting, NotedAt
<1>1. BootTypeOK
  BY DEF BootTypeOK, BootInit, Lost, NoProbe, Check
<1>2. AttemptsAreFailures
  BY DEF BootTypeOK, AttemptsAreFailures, SafeAfterFailure, BootInit, Lost, NoProbe, Check
<1>3. SafeAfterFailure
  BY DEF BootTypeOK, AttemptsAreFailures, SafeAfterFailure, BootInit, Lost, NoProbe, Check
<1>4. RecordTellsTheEnd
  BY DEF BootTypeOK, AttemptsAreFailures, RecordTellsTheEnd, Unanswered, BootInit, Lost, NoProbe, Check
<1>5. NotedRightly
  BY DEF BootTypeOK, RecordTellsTheEnd, NotedRightly, BootInit, Lost, NoProbe, Check
<1> QED
  BY <1>1, <1>2, <1>3, <1>4, <1>5

LEMMA PowerOnKeeps == ASSUME BootInv, PowerOn PROVE BootInv'
<1> USE BootGuardAssumption DEF BootInv, Stage, Counting, NotedAt
<1>1. BootTypeOK'
  BY DEF BootTypeOK, PowerOn
<1>2. AttemptsAreFailures'
  BY DEF BootTypeOK, AttemptsAreFailures, SafeAfterFailure, PowerOn
<1>3. SafeAfterFailure'
  BY DEF BootTypeOK, AttemptsAreFailures, SafeAfterFailure, PowerOn
<1>4. RecordTellsTheEnd'
  BY DEF BootTypeOK, AttemptsAreFailures, RecordTellsTheEnd, Unanswered, PowerOn
<1>5. NotedRightly'
  BY DEF BootTypeOK, RecordTellsTheEnd, NotedRightly, PowerOn
<1> QED
  BY <1>1, <1>2, <1>3, <1>4, <1>5

LEMMA GuardKeeps == ASSUME BootInv, octo_boot_guard PROVE BootInv'
<1> USE BootGuardAssumption DEF BootInv, Stage, Counting, NotedAt
<1> DEFINE n == IF retained.boots = "set" THEN retained.attempts + 1 ELSE 1
           kept == IF n > MaxBootAttempts THEN 0 ELSE n
<1>0. n \in Nat /\ kept \in Nat /\ retained' = [retained EXCEPT !.boots = "set", !.attempts = kept]
  BY DEF BootTypeOK, octo_boot_guard
<1>1. BootTypeOK'
  <2> HIDE DEF n, kept
  <2>1. retained'.boots = "set" /\ retained'.attempts = kept /\ retained'.fault = retained.fault
        /\ retained'.count = retained.count /\ retained'.starved = retained.starved
    BY <1>0 DEF BootTypeOK
  <2>2. retained' \in [boots : {"unset", "set"}, attempts : Nat, fault : BOOLEAN, count : Nat,
                       starved : {"unset", "ok", "wire"}]
    BY <1>0 DEF BootTypeOK
  <2> QED
    BY <2>2 DEF BootTypeOK, octo_boot_guard
<1>2. AttemptsAreFailures'
  BY DEF BootTypeOK, AttemptsAreFailures, SafeAfterFailure, octo_boot_guard
<1>3. SafeAfterFailure'
  BY DEF BootTypeOK, AttemptsAreFailures, SafeAfterFailure, octo_boot_guard
<1>4. RecordTellsTheEnd'
  BY DEF BootTypeOK, AttemptsAreFailures, RecordTellsTheEnd, Unanswered, octo_boot_guard
<1>5. NotedRightly'
  BY DEF BootTypeOK, RecordTellsTheEnd, NotedRightly, octo_boot_guard
<1> QED
  BY <1>1, <1>2, <1>3, <1>4, <1>5

LEMMA DriversKeep == ASSUME BootInv, Drivers PROVE BootInv'
<1> USE BootGuardAssumption DEF BootInv, Stage, Counting, NotedAt
<1>1. BootTypeOK'
  BY DEF BootTypeOK, Drivers
<1>2. AttemptsAreFailures'
  BY DEF BootTypeOK, AttemptsAreFailures, SafeAfterFailure, Drivers
<1>3. SafeAfterFailure'
  BY DEF BootTypeOK, AttemptsAreFailures, SafeAfterFailure, Drivers
<1>4. RecordTellsTheEnd'
  BY DEF BootTypeOK, AttemptsAreFailures, RecordTellsTheEnd, Unanswered, Drivers
<1>5. NotedRightly'
  BY DEF BootTypeOK, RecordTellsTheEnd, NotedRightly, Drivers
<1> QED
  BY <1>1, <1>2, <1>3, <1>4, <1>5

LEMMA MainKeeps == ASSUME BootInv, Main PROVE BootInv'
<1> USE BootGuardAssumption DEF BootInv, Stage, Counting, NotedAt
<1> DEFINE kept == IF retained.fault THEN retained.count ELSE 0
<1>0. /\ kept \in Nat
      /\ retained' = [retained EXCEPT !.starved = "unset", !.fault = FALSE, !.count = kept]
      /\ safe' <=> retained.attempts > 1
      /\ safe' \in BOOLEAN
  <2>1. /\ kept \in Nat
        /\ retained' = [retained EXCEPT !.starved = "unset", !.fault = FALSE, !.count = kept]
    BY DEF BootTypeOK, Main
  <2>2. safe' = (retained.attempts > 1)
    BY DEF Main
  <2>3. (retained.attempts > 1) \in BOOLEAN
    OBVIOUS
  <2>4. safe' \in BOOLEAN
    BY <2>2, <2>3
  <2>5. safe' <=> retained.attempts > 1
    BY <2>2
  <2> QED
    BY <2>1, <2>4, <2>5
<1>1. BootTypeOK'
  <2> HIDE DEF kept
  <2>2. retained' \in [boots : {"unset", "set"}, attempts : Nat, fault : BOOLEAN, count : Nat,
                       starved : {"unset", "ok", "wire"}]
    BY <1>0 DEF BootTypeOK
  <2> QED
    BY <1>0, <2>2 DEF BootTypeOK, Main
<1>2. AttemptsAreFailures'
  BY DEF BootTypeOK, AttemptsAreFailures, SafeAfterFailure, Main, Described
<1>3. SafeAfterFailure'
  <2>1. stage = "main" /\ stage' = "quiet" /\ failures' = failures
    BY DEF Main
  <2>2. retained.attempts = failures + 1 /\ failures \in Nat
    BY <2>1 DEF AttemptsAreFailures, BootTypeOK
  <2>3. safe' <=> failures' > 0
    BY <1>0, <2>1, <2>2
  <2> QED
    BY <2>1, <2>3 DEF SafeAfterFailure
<1>4. RecordTellsTheEnd'
  BY DEF BootTypeOK, AttemptsAreFailures, RecordTellsTheEnd, Unanswered, Main, Described
<1>5. NotedRightly'
  BY DEF BootTypeOK, RecordTellsTheEnd, NotedRightly, Main, Described
<1> QED
  BY <1>1, <1>2, <1>3, <1>4, <1>5

LEMMA BringUpKeeps == ASSUME BootInv, BringUp PROVE BootInv'
<1> USE BootGuardAssumption DEF BootInv, Stage, Counting, NotedAt
<1>1. BootTypeOK'
  BY DEF BootTypeOK, BringUp
<1>2. AttemptsAreFailures'
  BY DEF BootTypeOK, AttemptsAreFailures, SafeAfterFailure, BringUp
<1>3. SafeAfterFailure'
  BY DEF BootTypeOK, AttemptsAreFailures, SafeAfterFailure, BringUp
<1>4. RecordTellsTheEnd'
  BY DEF BootTypeOK, AttemptsAreFailures, RecordTellsTheEnd, Unanswered, BringUp
<1>5. NotedRightly'
  BY DEF BootTypeOK, RecordTellsTheEnd, NotedRightly, BringUp
<1> QED
  BY <1>1, <1>2, <1>3, <1>4, <1>5

LEMMA WorkingKeeps == ASSUME BootInv, Working PROVE BootInv'
<1> USE BootGuardAssumption DEF BootInv, Stage, Counting, NotedAt
<1>1. BootTypeOK'
  BY DEF BootTypeOK, Working, NoProbe
<1>2. AttemptsAreFailures'
  BY DEF BootTypeOK, AttemptsAreFailures, SafeAfterFailure, Working, NoProbe
<1>3. SafeAfterFailure'
  BY DEF BootTypeOK, AttemptsAreFailures, SafeAfterFailure, Working, NoProbe
<1>4. RecordTellsTheEnd'
  BY DEF BootTypeOK, AttemptsAreFailures, RecordTellsTheEnd, Unanswered, Working, NoProbe
<1>5. NotedRightly'
  BY DEF BootTypeOK, RecordTellsTheEnd, NotedRightly, Working, NoProbe
<1> QED
  BY <1>1, <1>2, <1>3, <1>4, <1>5

LEMMA SettledKeeps == ASSUME BootInv, mark_run_settled PROVE BootInv'
<1> USE BootGuardAssumption DEF BootInv, Stage, Counting, NotedAt
<1>1. BootTypeOK'
  BY DEF BootTypeOK, mark_run_settled
<1>2. AttemptsAreFailures'
  BY DEF BootTypeOK, AttemptsAreFailures, SafeAfterFailure, mark_run_settled
<1>3. SafeAfterFailure'
  BY DEF BootTypeOK, AttemptsAreFailures, SafeAfterFailure, mark_run_settled
<1>4. RecordTellsTheEnd'
  BY DEF BootTypeOK, AttemptsAreFailures, RecordTellsTheEnd, Unanswered, mark_run_settled
<1>5. NotedRightly'
  BY DEF BootTypeOK, RecordTellsTheEnd, NotedRightly, mark_run_settled
<1> QED
  BY <1>1, <1>2, <1>3, <1>4, <1>5

LEMMA FaultKeeps == ASSUME BootInv, Fault, stage \in Counting \cup {"working"}, ~cause, image' = image PROVE BootInv'
<1> USE BootGuardAssumption DEF BootInv, Stage, Counting, NotedAt
<1> DEFINE more == IF retained.count > 3 THEN retained.count ELSE retained.count + 1
<1>0. more \in Nat /\ retained' = [retained EXCEPT !.fault = TRUE, !.count = more]
  BY DEF BootTypeOK, Fault
<1>1. BootTypeOK'
  <2> HIDE DEF more
  <2>2. retained' \in [boots : {"unset", "set"}, attempts : Nat, fault : BOOLEAN, count : Nat,
                       starved : {"unset", "ok", "wire"}]
    BY <1>0 DEF BootTypeOK
  <2>3. failures' \in Nat
    BY DEF BootTypeOK, Fault, Reset
  <2> QED
    BY <2>2, <2>3 DEF BootTypeOK, Fault, Reset, NoProbe
<1>2. AttemptsAreFailures'
  BY DEF BootTypeOK, AttemptsAreFailures, SafeAfterFailure, Fault, Reset, NoProbe
<1>3. SafeAfterFailure'
  BY DEF BootTypeOK, AttemptsAreFailures, SafeAfterFailure, Fault, Reset, NoProbe
<1>4. RecordTellsTheEnd'
  BY DEF BootTypeOK, AttemptsAreFailures, RecordTellsTheEnd, Unanswered, Fault, Reset, NoProbe
<1>5. NotedRightly'
  BY DEF BootTypeOK, RecordTellsTheEnd, NotedRightly, Fault, Reset, NoProbe
<1> QED
  BY <1>1, <1>2, <1>3, <1>4, <1>5

LEMMA PollIs ==
    ASSUME NEW p \in [started : BOOLEAN, waiting : BOOLEAN, since : Nat], NEW answered \in BOOLEAN
    PROVE  /\ poll(p, answered).p \in [started : BOOLEAN, waiting : BOOLEAN, since : Nat]
           /\ poll(p, answered).ok \in BOOLEAN
           /\ poll(p, answered).ok <=> ~Unanswered(poll(p, answered).p)
<1> USE BootGuardAssumption
<1> DEFINE longer == IF p.since > Patience THEN p.since ELSE p.since + 1
<1>1. longer \in Nat /\ (longer > Patience <=> ~(p.since + 1 <= Patience))
  OBVIOUS
<1>2. CASE ~p.started
  BY <1>2 DEF poll, Unanswered
<1>3. CASE p.started /\ p.waiting /\ answered
  BY <1>3 DEF poll, Unanswered
<1>4. CASE p.started /\ p.waiting /\ ~answered
  <2>1. poll(p, answered) = [ok |-> p.since + 1 <= Patience, p |-> [p EXCEPT !.since = longer]]
    BY <1>4 DEF poll
  <2> HIDE DEF longer
  <2> QED
    BY <1>1, <1>4, <2>1 DEF Unanswered
<1>5. CASE p.started /\ ~p.waiting
  <2>1. poll(p, answered) = [ok |-> TRUE, p |-> [p EXCEPT !.waiting = TRUE, !.since = 0]]
    BY <1>5 DEF poll
  <2> DEFINE asking == [p EXCEPT !.waiting = TRUE, !.since = 0]
  <2>2. asking \in [started : BOOLEAN, waiting : BOOLEAN, since : Nat] /\ asking.since = 0
    OBVIOUS
  <2>3. poll(p, answered).p = asking /\ poll(p, answered).ok = TRUE
    BY <2>1
  <2> HIDE DEF asking
  <2>4. ~(asking.since > Patience)
    BY <2>2
  <2>5. ~Unanswered(asking)
    BY <2>4 DEF Unanswered
  <2> QED
    BY <2>2, <2>3, <2>5
<1> QED
  BY <1>2, <1>3, <1>4, <1>5

\* What a turn of the loop writes down.
LEMMA NotedIs ==
    ASSUME BootTypeOK, NEW ok \in BOOLEAN
    PROVE  /\ Noted(retained, ok) \in [boots : {"unset", "set"}, attempts : Nat, fault : BOOLEAN, count : Nat,
                                       starved : {"unset", "ok", "wire"}]
           /\ Noted(retained, ok).boots = retained.boots /\ Noted(retained, ok).attempts = retained.attempts
           /\ Noted(retained, ok).fault = retained.fault
           /\ Noted(retained, ok).starved = (IF ok THEN "ok" ELSE "wire")
<1> DEFINE word == IF ok THEN "ok" ELSE "wire"
<1>1. word \in {"ok", "wire"} /\ Noted(retained, ok) = [retained EXCEPT !.starved = word]
  BY DEF Noted
<1> HIDE DEF word
<1>2. /\ Noted(retained, ok) \in [boots : {"unset", "set"}, attempts : Nat, fault : BOOLEAN, count : Nat,
                                  starved : {"unset", "ok", "wire"}]
      /\ Noted(retained, ok).boots = retained.boots /\ Noted(retained, ok).attempts = retained.attempts
      /\ Noted(retained, ok).fault = retained.fault
      /\ Noted(retained, ok).starved = word
  BY <1>1 DEF BootTypeOK
<1> QED
  BY <1>2 DEF word

LEMMA TickKeeps == ASSUME BootInv, Tick PROVE BootInv'
<1> USE BootGuardAssumption DEF BootInv, Stage, Counting, NotedAt
<1> DEFINE asked == poll(probe, stuck # "wire")
           fed == IF stuck = "loop" THEN {} ELSE IF asked.ok THEN Check ELSE {"loop"}
           now == [c \in Check |-> IF c \in fed THEN Timeout ELSE left[c] - 1]
           note == Noted(retained, asked.ok)
           why == IF stuck = "loop" /\ ~Unanswered(probe) THEN "loop" ELSE "wire"
<1>1. /\ asked.p \in [started : BOOLEAN, waiting : BOOLEAN, since : Nat]
      /\ asked.ok \in BOOLEAN
      /\ asked.ok <=> ~Unanswered(asked.p)
  BY PollIs DEF BootTypeOK
<1>2. /\ note \in [boots : {"unset", "set"}, attempts : Nat, fault : BOOLEAN, count : Nat,
                   starved : {"unset", "ok", "wire"}]
      /\ note.boots = retained.boots /\ note.attempts = retained.attempts /\ note.fault = retained.fault
      /\ note.starved = IF asked.ok THEN "ok" ELSE "wire"
  BY <1>1, NotedIs
<1>3. /\ stage = "working" /\ failures = 0 /\ retained.boots = "set"
      /\ retained.attempts = IF unsettled THEN 1 ELSE 0
      /\ ~cause /\ ~retained.fault /\ image # "drivers"
      /\ retained.starved = "wire" <=> Unanswered(probe)
  BY DEF Tick, BootTypeOK, AttemptsAreFailures, RecordTellsTheEnd
<1>4. retained' = IF stuck = "loop" THEN retained ELSE note
  BY DEF Tick
<1>5. image' = image /\ said' = said
  BY DEF Tick
<1>6. /\ retained' \in [boots : {"unset", "set"}, attempts : Nat, fault : BOOLEAN, count : Nat,
                        starved : {"unset", "ok", "wire"}]
      /\ retained'.boots = "set" /\ retained'.attempts = IF unsettled THEN 1 ELSE 0
      /\ ~retained'.fault
  <2> HIDE DEF note
  <2> QED
    BY <1>2, <1>3, <1>4 DEF BootTypeOK
<1>7. CASE \E c \in Check : now[c] = 0
  <2>1. cause' = TRUE /\ Reset(why)
    BY <1>7 DEF Tick
  <2>2. why \in {"loop", "wire"}
    OBVIOUS
  <2>3. why = "loop" => retained'.starved # "wire"
    BY <1>3, <1>4
  <2>4. why = "wire" => retained'.starved = "wire"
    <3>1. CASE stuck = "loop"
      BY <1>3, <1>4, <3>1
    <3>2. CASE stuck # "loop"
      <4>1. PICK c \in Check : now[c] = 0
        BY <1>7
      <4>2. c \notin fed
        BY <4>1
      <4>3. ~asked.ok
        BY <3>2, <4>2
      <4> QED
        BY <1>2, <1>4, <3>2, <4>3
    <3> QED
      BY <3>1, <3>2
  <2>5. /\ stage' = "guard" /\ ended' = why /\ failures' = IF unsettled THEN 1 ELSE 0
        /\ safe' = FALSE /\ unsettled' = FALSE /\ stuck' = "none" /\ probe' = NoProbe
    BY <1>3, <2>1 DEF Reset, BootTypeOK
  <2> HIDE DEF why
  <2>6. BootTypeOK'
    BY <1>5, <1>6, <2>1, <2>2, <2>5 DEF BootTypeOK, NoProbe
  <2>7. AttemptsAreFailures'
    BY <1>6, <2>5 DEF AttemptsAreFailures, BootTypeOK
  <2>8. SafeAfterFailure' /\ NotedRightly'
    BY <2>5 DEF SafeAfterFailure, NotedRightly
  <2>9. RecordTellsTheEnd'
    <3>1. failures' < 2
      BY <2>5 DEF BootTypeOK
    <3> QED
      BY <1>3, <1>5, <1>6, <2>1, <2>2, <2>3, <2>4, <2>5, <3>1 DEF RecordTellsTheEnd
  <2> QED
    BY <2>6, <2>7, <2>8, <2>9
<1>8. CASE ~\E c \in Check : now[c] = 0
  <2>1. /\ probe' = IF stuck = "loop" THEN probe ELSE asked.p
        /\ UNCHANGED <<stage, cause, safe, unsettled, stuck, ended, failures>>
    BY <1>8 DEF Tick
  <2>2. probe' \in [started : BOOLEAN, waiting : BOOLEAN, since : Nat]
    BY <1>1, <2>1 DEF BootTypeOK
  <2>3. retained'.starved = "wire" <=> Unanswered(probe')
    <3>1. CASE stuck = "loop"
      BY <1>3, <1>4, <2>1, <3>1
    <3>2. CASE stuck # "loop"
      <4>1. probe' = asked.p /\ retained' = note
        BY <1>4, <2>1, <3>2
      <4> QED
        BY <1>1, <1>2, <4>1
    <3> QED
      BY <3>1, <3>2
  <2> HIDE DEF asked, note
  <2>4. BootTypeOK'
    BY <1>5, <1>6, <2>1, <2>2 DEF BootTypeOK
  <2>5. AttemptsAreFailures'
    BY <1>3, <1>6, <2>1 DEF AttemptsAreFailures, BootTypeOK
  <2>6. SafeAfterFailure' /\ NotedRightly'
    BY <1>3, <1>5, <2>1 DEF SafeAfterFailure, NotedRightly
  <2>7. RecordTellsTheEnd'
    BY <1>3, <1>5, <1>6, <2>1, <2>3 DEF RecordTellsTheEnd, Unanswered
  <2> QED
    BY <2>4, <2>5, <2>6, <2>7
<1> QED
  BY <1>7, <1>8

LEMMA DfuKeeps == ASSUME BootInv, dfu PROVE BootInv'
<1> USE BootGuardAssumption DEF BootInv, Stage, Counting, NotedAt
<1>1. BootTypeOK'
  BY DEF BootTypeOK, dfu
<1>2. AttemptsAreFailures'
  BY DEF BootTypeOK, AttemptsAreFailures, SafeAfterFailure, dfu
<1>3. SafeAfterFailure'
  BY DEF BootTypeOK, AttemptsAreFailures, SafeAfterFailure, dfu
<1>4. RecordTellsTheEnd'
  BY DEF BootTypeOK, AttemptsAreFailures, RecordTellsTheEnd, Unanswered, dfu
<1>5. NotedRightly'
  BY DEF BootTypeOK, RecordTellsTheEnd, NotedRightly, dfu
<1> QED
  BY <1>1, <1>2, <1>3, <1>4, <1>5

LEMMA FlashKeeps == ASSUME BootInv, Flash PROVE BootInv'
<1> USE BootGuardAssumption DEF BootInv, Stage, Counting, NotedAt
<1>1. BootTypeOK'
  BY DEF BootTypeOK, Flash
<1>2. AttemptsAreFailures'
  BY DEF BootTypeOK, AttemptsAreFailures, SafeAfterFailure, Flash
<1>3. SafeAfterFailure'
  BY DEF BootTypeOK, AttemptsAreFailures, SafeAfterFailure, Flash
<1>4. RecordTellsTheEnd'
  BY DEF BootTypeOK, AttemptsAreFailures, RecordTellsTheEnd, Unanswered, Flash
<1>5. NotedRightly'
  BY DEF BootTypeOK, RecordTellsTheEnd, NotedRightly, Flash
<1> QED
  BY <1>1, <1>2, <1>3, <1>4, <1>5

LEMMA UnplugKeeps == ASSUME BootInv, Unplug PROVE BootInv'
<1> USE BootGuardAssumption DEF BootInv, Stage, Counting, NotedAt
<1>1. BootTypeOK'
  BY DEF BootTypeOK, Unplug, Lost, NoProbe
<1>2. AttemptsAreFailures'
  BY DEF BootTypeOK, AttemptsAreFailures, SafeAfterFailure, Unplug, Lost, NoProbe
<1>3. SafeAfterFailure'
  BY DEF BootTypeOK, AttemptsAreFailures, SafeAfterFailure, Unplug, Lost, NoProbe
<1>4. RecordTellsTheEnd'
  BY DEF BootTypeOK, AttemptsAreFailures, RecordTellsTheEnd, Unanswered, Unplug, Lost, NoProbe
<1>5. NotedRightly'
  BY DEF BootTypeOK, RecordTellsTheEnd, NotedRightly, Unplug, Lost, NoProbe
<1> QED
  BY <1>1, <1>2, <1>3, <1>4, <1>5

\* A watchdog feed, a person or a fault: whatever happens to a box.
LEMMA BootStepKeeps == ASSUME BootInv, [BootNext]_bootVars PROVE BootInv'
<1>1. CASE PowerOn
  BY <1>1, PowerOnKeeps
<1>2. CASE octo_boot_guard
  BY <1>2, GuardKeeps
<1>3. CASE Drivers
  BY <1>3, DriversKeep
<1>4. CASE Main
  BY <1>4, MainKeeps
<1>5. CASE BringUp
  BY <1>5, BringUpKeeps
<1>6. CASE Working
  BY <1>6, WorkingKeeps
<1>7. CASE mark_run_settled
  BY <1>7, SettledKeeps
<1>8. CASE Dies
  <2>1. stage \in Counting \cup {"working"}
    BY <1>8, BootGuardAssumption DEF Dies, BootInv, BootTypeOK, Stage, Counting
  <2>2. ~cause
    <3>1. stage = image /\ stage \in {"drivers", "quiet", "safe", "bringup", "working"}
      BY <1>8, BootGuardAssumption DEF Dies, BootInv, BootTypeOK, Stage
    <3>2. CASE stage = "drivers"
      BY <3>1, <3>2 DEF BootInv, RecordTellsTheEnd
    <3>3. CASE stage \in NotedAt
      BY <3>3 DEF BootInv, RecordTellsTheEnd
    <3> QED
      BY <3>1, <3>2, <3>3 DEF NotedAt
  <2>3. Fault /\ image' = image
    BY <1>8 DEF Dies, Fault
  <2> QED
    BY <2>1, <2>2, <2>3, FaultKeeps
<1>9. CASE Glitch
  <2>1. CASE Fault
    <3>1. stage \in Counting \cup {"working"} /\ ~cause
      BY <1>9 DEF Glitch, BootInv, RecordTellsTheEnd, Counting, NotedAt
    <3> QED
      BY <2>1, <3>1, FaultKeeps DEF Fault
  <2>2. CASE ~Fault
    <3>1. /\ stuck' \in Check
          /\ UNCHANGED <<image, stage, retained, cause, safe, said, unsettled, left, probe, ended, failures, cycles>>
      BY <1>9, <2>2 DEF Glitch
    <3> QED
      BY <3>1 DEF Check, BootInv, BootTypeOK, AttemptsAreFailures, SafeAfterFailure, RecordTellsTheEnd, NotedRightly
  <2> QED
    BY <2>1, <2>2
<1>10. CASE Recovers
  BY <1>10 DEF Recovers, BootInv, BootTypeOK, AttemptsAreFailures, SafeAfterFailure, RecordTellsTheEnd, NotedRightly
<1>11. CASE Tick
  BY <1>11, TickKeeps
<1>12. CASE dfu
  BY <1>12, DfuKeeps
<1>13. CASE Flash
  BY <1>13, FlashKeeps
<1>14. CASE Unplug
  BY <1>14, UnplugKeeps
<1>15. CASE UNCHANGED bootVars
  BY <1>15 DEF bootVars, BootInv, BootTypeOK, AttemptsAreFailures, SafeAfterFailure, RecordTellsTheEnd, NotedRightly
<1> QED
  BY <1>1, <1>2, <1>3, <1>4, <1>5, <1>6, <1>7, <1>8, <1>9, <1>10, <1>11, <1>12, <1>13, <1>14, <1>15 DEF BootNext

LEMMA BootIsSafe == ASSUME BootInv PROVE RiskIsNotRepeated /\ BlameIsRight
<1>1. RiskIsNotRepeated
  BY DEF BootInv, SafeAfterFailure, RiskIsNotRepeated
<1>2. BlameIsRight
  <2>1. ended \in {"power", "dfu", "fault", "loop", "wire"}
    BY DEF BootInv, BootTypeOK
  <2> QED
    BY <2>1 DEF BootInv, NotedRightly, NotedAt, BlameIsRight
<1> QED
  BY <1>1, <1>2

-----------------------------------------------------------------------------
(* What is left of a list *)

RemainsOr(kept, c, gone) == IF c \in gone THEN kept ELSE Append(kept, c)
Remains(list, gone, n, f) ==
    f = [k \in 0..n |-> IF k = 0 THEN <<>> ELSE RemainsOr(f[k - 1], list[k], gone)]

LEMMA RemainingOn ==
    ASSUME NEW list, NEW gone, NEW n \in Nat, NEW f, Remains(list, gone, n, f)
    PROVE  \E g : Remains(list, gone, n + 1, g)
<1> DEFINE last == RemainsOr(f[n], list[n + 1], gone)
           g == [k \in 0..(n + 1) |-> IF k <= n THEN f[k] ELSE last]
<1>1. ASSUME NEW k \in 0..(n + 1)
      PROVE  g[k] = IF k = 0 THEN <<>> ELSE RemainsOr(g[k - 1], list[k], gone)
  <2>1. CASE k = 0
    <3>1. f[0] = <<>>
      BY DEF Remains
    <3> QED BY <2>1, <3>1
  <2>2. CASE k \in 1..n
    <3>1. f[k] = RemainsOr(f[k - 1], list[k], gone)
      BY <2>2 DEF Remains
    <3>2. g[k] = f[k] /\ g[k - 1] = f[k - 1] /\ k # 0
      BY <2>2
    <3> HIDE DEF g
    <3> QED BY <3>1, <3>2
  <2>3. CASE k = n + 1
    BY <2>3
  <2> QED BY <2>1, <2>2, <2>3
<1>2. g = [k \in 0..(n + 1) |-> g[k]]
  OBVIOUS
<1> HIDE DEF g
<1>3. Remains(list, gone, n + 1, g)
  BY <1>1, <1>2 DEF Remains
<1> QED BY <1>3

LEMMA ThereIsARemainder ==
    ASSUME NEW list, NEW gone, NEW n \in Nat PROVE \E f : Remains(list, gone, n, f)
<1> DEFINE not == {k \in Nat : ~\E f : Remains(list, gone, k, f)}
<1> SUFFICES ASSUME not # {} PROVE FALSE
  OBVIOUS
<1>1. PICK k \in not : \A j \in not : k <= j
  BY LeastNatural
<1>2. Remains(list, gone, 0, [i \in 0..0 |-> <<>>])
  BY DEF Remains
<1>3. k - 1 \in Nat /\ k - 1 \notin not
  BY <1>1, <1>2
<1>4. PICK f : Remains(list, gone, k - 1, f)
  BY <1>3
<1>5. \E g : Remains(list, gone, (k - 1) + 1, g)
  BY <1>3, <1>4, RemainingOn
<1>6. (k - 1) + 1 = k
  BY <1>1
<1> QED BY <1>1, <1>5, <1>6

\* A list that names nobody twice.
Once(list) == \A i, j \in DOMAIN list : list[i] = list[j] => i = j

\* t is what the gone leave of the first n of the list.
RemainderOf(t, list, gone, n) ==
    /\ t \in Seq(Console)
    /\ \A k \in DOMAIN t : \E j \in 1..n : t[k] = list[j] /\ list[j] \notin gone
    /\ \A j \in 1..n : list[j] \notin gone => \E k \in DOMAIN t : t[k] = list[j]
    /\ Once(t)

LEMMA OneMore ==
    ASSUME NEW list \in Seq(Console), Once(list), NEW gone, NEW n \in 1..Len(list),
           NEW t, RemainderOf(t, list, gone, n - 1)
    PROVE  RemainderOf(RemainsOr(t, list[n], gone), list, gone, n)
<1>1. Len(list) \in Nat /\ DOMAIN list = 1..Len(list) /\ t \in Seq(Console) /\ list[n] \in Console
  BY DEF RemainderOf
<1>2. /\ \A k \in DOMAIN t : \E j \in 1..(n - 1) : t[k] = list[j] /\ list[j] \notin gone
      /\ \A j \in 1..(n - 1) : list[j] \notin gone => \E k \in DOMAIN t : t[k] = list[j]
      /\ Once(t)
  BY DEF RemainderOf
<1>3. \A j \in 1..n : j \in 1..(n - 1) \/ j = n
  BY <1>1
<1>4. \A j \in 1..(n - 1) : j \in 1..n /\ j \in DOMAIN list /\ j # n
  BY <1>1
<1>5. n \in 1..n /\ n \in DOMAIN list
  BY <1>1
<1>6. CASE list[n] \in gone
  <2>1. RemainsOr(t, list[n], gone) = t
    BY <1>6 DEF RemainsOr
  <2> QED BY <1>1, <1>2, <1>3, <1>4, <1>6, <2>1 DEF RemainderOf
<1>7. CASE list[n] \notin gone
  <2> DEFINE u == Append(t, list[n])
  <2>1. RemainsOr(t, list[n], gone) = u
    BY <1>7 DEF RemainsOr
  <2>2. /\ u \in Seq(Console) /\ Len(t) \in Nat /\ DOMAIN u = 1..(Len(t) + 1)
        /\ \A k \in DOMAIN t : u[k] = t[k] /\ k \in DOMAIN u /\ k # Len(t) + 1
        /\ u[Len(t) + 1] = list[n] /\ Len(t) + 1 \in DOMAIN u
        /\ \A k \in DOMAIN u : k \in DOMAIN t \/ k = Len(t) + 1
    BY <1>1
  <2> HIDE DEF u
  <2>3. ASSUME NEW k \in DOMAIN u PROVE \E j \in 1..n : u[k] = list[j] /\ list[j] \notin gone
    <3>1. CASE k \in DOMAIN t
      BY <1>2, <1>4, <2>2, <3>1
    <3>2. CASE k = Len(t) + 1
      BY <1>5, <1>7, <2>2, <3>2
    <3> QED BY <2>2, <3>1, <3>2
  <2>4. ASSUME NEW j \in 1..n, list[j] \notin gone PROVE \E k \in DOMAIN u : u[k] = list[j]
    <3>1. CASE j \in 1..(n - 1)
      BY <1>2, <2>2, <2>4, <3>1
    <3>2. CASE j = n
      BY <2>2, <3>2
    <3> QED BY <1>3, <3>1, <3>2
  <2>5. ASSUME NEW k \in DOMAIN t PROVE t[k] # list[n]
    <3>1. PICK j \in 1..(n - 1) : t[k] = list[j]
      BY <1>2
    <3> QED BY <1>4, <1>5, <3>1 DEF Once
  <2>6. Once(u)
    BY <1>2, <2>2, <2>5 DEF Once
  <2> QED BY <2>1, <2>2, <2>3, <2>4, <2>6 DEF RemainderOf
<1> QED BY <1>6, <1>7

LEMMA RemainingIs ==
    ASSUME NEW list \in Seq(Console), Once(list), NEW gone
    PROVE  RemainderOf(Remaining(list, gone), list, gone, Len(list))
<1> DEFINE f == CHOOSE f : Remains(list, gone, Len(list), f)
           not == {k \in 0..Len(list) : ~RemainderOf(f[k], list, gone, k)}
<1>1. Len(list) \in Nat
  OBVIOUS
<1>2. Remains(list, gone, Len(list), f)
  BY <1>1, ThereIsARemainder
<1>3. Remaining(list, gone) = f[Len(list)]
  BY DEF Remaining, Remains, RemainsOr
<1> HIDE DEF f
<1>4. RemainderOf(f[0], list, gone, 0)
  <2>1. f[0] = <<>>
    BY <1>1, <1>2 DEF Remains
  <2>2. <<>> \in Seq(Console) /\ DOMAIN <<>> = {} /\ 1..0 = {}
    OBVIOUS
  <2> QED BY <2>1, <2>2 DEF RemainderOf, Once
<1>5. ASSUME NEW k \in 1..Len(list), RemainderOf(f[k - 1], list, gone, k - 1)
      PROVE  RemainderOf(f[k], list, gone, k)
  <2>1. f[k] = RemainsOr(f[k - 1], list[k], gone)
    BY <1>1, <1>2, <1>5 DEF Remains
  <2> QED BY <1>5, <2>1, OneMore
<1>6. not = {}
  <2> SUFFICES ASSUME not # {} PROVE FALSE
    OBVIOUS
  <2>1. PICK k \in not : \A j \in not : k <= j
    <3>1. not \subseteq Nat
      BY <1>1
    <3> HIDE DEF not
    <3> QED BY <3>1, LeastNatural
  <2>2. k # 0
    BY <1>4, <2>1
  <2>3. k \in 1..Len(list) /\ k - 1 \in 0..Len(list)
    BY <1>1, <2>1, <2>2
  <2>4. k - 1 \notin not
    BY <2>1, <2>3
  <2>5. RemainderOf(f[k - 1], list, gone, k - 1)
    BY <2>3, <2>4
  <2> QED BY <1>5, <2>1, <2>3, <2>5
<1>7. Len(list) \in 0..Len(list)
  BY <1>1
<1> QED BY <1>3, <1>6, <1>7

\* A list that names nobody twice is as long as the set of those it names.
LEMMA AsLongAsItsSet ==
    ASSUME NEW list \in Seq(Console), Once(list)
    PROVE  IsFiniteSet(ToSet(list)) /\ Cardinality(ToSet(list)) = Len(list)
<1>1. Len(list) \in Nat /\ list \in [1..Len(list) -> ToSet(list)]
  BY DEF ToSet
<1>2. list \in Bijection(1..Len(list), ToSet(list))
  BY <1>1 DEF Once, ToSet, Bijection, Injection, Surjection, IsInjective
<1>3. ExistsBijection(1..Len(list), ToSet(list))
  BY <1>2 DEF ExistsBijection
<1> QED BY <1>1, <1>3, FS_NatBijection, FS_CountingElements
-----------------------------------------------------------------------------
(* The socket *)

LineTypeOK ==
    /\ clients \subseteq Console /\ broken \subseteq Console
    /\ out \in [Console -> Nat]
    /\ sweep_pending \in BOOLEAN
    /\ peers \in Seq(Console)
    /\ walk \in Nat
    /\ state \in [Console -> {"away", "queued", "in", "gone"}]
    /\ serving \in BOOLEAN
    /\ calls \in Nat

\* The daemon's list names every connection once, a walk over it is inside it,
\* and a connection is one that was taken in.
ListedOnce ==
    /\ Once(peers) /\ ToSet(peers) = clients
    /\ walk <= Len(peers)
    /\ \A c \in clients : state[c] \in {"in", "gone"}

LineInv == LineTypeOK /\ ListedOnce /\ HeldIsBounded

LEMMA LineStarts == ASSUME LineInit PROVE LineInv
<1>1. LineTypeOK
  <2>1. <<>> \in Seq(Console)
    OBVIOUS
  <2> QED BY <2>1 DEF LineInit, LineTypeOK
<1>2. ListedOnce
  <2>1. ToSet(<<>>) = {} /\ Len(<<>>) = 0 /\ Once(<<>>)
    BY DEF ToSet, Once
  <2> QED BY <2>1 DEF LineInit, ListedOnce
<1>3. HeldIsBounded
  BY FS_EmptySet, LineServerAssumption DEF LineInit, HeldIsBounded
<1> QED BY <1>1, <1>2, <1>3 DEF LineInv

\* Fewer clients, or the same, are as few.
LEMMA FewerClients ==
    ASSUME LineInv, NEW some \in SUBSET clients
    PROVE  Cardinality(some) <= MaxClients
<1>1. IsFiniteSet(clients)
  BY AsLongAsItsSet DEF LineInv, LineTypeOK, ListedOnce
<1>2. Cardinality(some) <= Cardinality(clients) /\ Cardinality(some) \in Nat /\ Cardinality(clients) \in Nat
  BY <1>1, FS_Subset, FS_CardinalityType
<1> QED BY <1>2, LineServerAssumption DEF LineInv, HeldIsBounded

LEMMA DropKeeps ==
    ASSUME LineInv, walk = 0, NEW gone, drop(gone), UNCHANGED <<walk, calls>>,
           sweep_pending' \in BOOLEAN, serving' \in BOOLEAN
    PROVE  LineInv'
<1>1. RemainderOf(peers', peers, gone, Len(peers))
  BY RemainingIs DEF LineInv, LineTypeOK, ListedOnce, drop
<1>2. /\ peers' \in Seq(Console) /\ Once(peers')
      /\ \A k \in DOMAIN peers' : \E j \in DOMAIN peers : peers'[k] = peers[j] /\ peers[j] \notin gone
      /\ \A j \in DOMAIN peers : peers[j] \notin gone => \E k \in DOMAIN peers' : peers'[k] = peers[j]
  <2>1. DOMAIN peers = 1..Len(peers)
    BY DEF LineInv, LineTypeOK
  <2> QED BY <1>1, <2>1 DEF RemainderOf
<1>3. clients' = clients \ gone
  BY DEF drop
<1>4. ToSet(peers') = clients'
  BY <1>2, <1>3 DEF ToSet, LineInv, ListedOnce
<1>5. LineTypeOK'
  BY <1>2 DEF drop, LineInv, LineTypeOK
<1>6. ListedOnce'
  <2>1. walk' = 0 /\ Len(peers') \in Nat
    BY <1>2
  <2>2. ASSUME NEW c \in clients' PROVE state'[c] \in {"in", "gone"}
    BY <1>3, <2>2 DEF drop, LineInv, LineTypeOK, ListedOnce
  <2> QED BY <1>2, <1>4, <2>1, <2>2 DEF ListedOnce
<1>7. HeldIsBounded'
  <2>1. Cardinality(clients') <= MaxClients
    BY <1>3, FewerClients
  <2>2. ASSUME NEW c \in clients' PROVE out'[c] <= MaxPending \/ c \in broken'
    BY <1>3, <2>2 DEF drop, LineInv, LineTypeOK, HeldIsBounded
  <2> QED BY <2>1, <2>2 DEF HeldIsBounded
<1> QED BY <1>5, <1>6, <1>7 DEF LineInv

LEMMA SendKeeps ==
    ASSUME LineInv, NEW c \in Console, ClientSend(c), walk' \in Nat, walk' <= Len(peers),
           UNCHANGED <<state, serving, calls>>
    PROVE  LineInv'
<1> USE LineServerAssumption
<1>1. clients' = clients /\ peers' = peers
  BY DEF ClientSend, Mark
<1>2. LineTypeOK' /\ \A d \in clients : out'[d] <= MaxPending \/ d \in broken'
  <2>1. CASE c \in broken
    BY <2>1, <1>1 DEF ClientSend, LineInv, LineTypeOK, HeldIsBounded
  <2>2. CASE c \notin broken
    <3>1. PICK rest \in Takes(c, out[c] + 1) : out' = [out EXCEPT ![c] = rest] /\ Mark(c, rest)
      BY <2>2 DEF ClientSend
    <3>2. out[c] \in Nat /\ rest \in Nat
      BY <3>1 DEF LineInv, LineTypeOK, Takes
    <3>3. broken' = (IF FlushFails(c, rest) THEN broken \cup {c} ELSE broken)
          /\ sweep_pending' \in BOOLEAN
      BY <3>1 DEF Mark, LineInv, LineTypeOK, FlushFails
    <3>4. LineTypeOK'
      BY <1>1, <3>1, <3>2, <3>3 DEF LineInv, LineTypeOK
    <3>5. ASSUME NEW d \in clients PROVE out'[d] <= MaxPending \/ d \in broken'
      <4>1. CASE d = c
        <5>1. out'[c] = rest
          BY <3>1 DEF LineInv, LineTypeOK
        <5>2. ~(rest <= MaxPending) => c \in broken'
          BY <3>2, <3>3 DEF FlushFails
        <5> QED BY <4>1, <5>1, <5>2
      <4>2. CASE d # c
        <5>1. out'[d] = out[d]
          BY <3>1, <4>2 DEF LineInv, LineTypeOK
        <5> QED BY <3>3, <5>1 DEF LineInv, HeldIsBounded
      <4> QED BY <4>1, <4>2
    <3> QED BY <3>4, <3>5
  <2> QED BY <2>1, <2>2
<1>3. ListedOnce'
  BY <1>1 DEF LineInv, ListedOnce
<1>4. HeldIsBounded'
  BY <1>1, <1>2 DEF LineInv, HeldIsBounded
<1> QED BY <1>2, <1>3, <1>4 DEF LineInv

LEMMA AcceptKeeps == ASSUME LineInv, NEW c \in Console, accept_one(c) PROVE LineInv'
<1> USE LineServerAssumption
<1>1. CASE Full
  <2>1. state' = [state EXCEPT ![c] = "gone"]
        /\ UNCHANGED <<clients, broken, out, sweep_pending, peers, walk, serving, calls>>
    BY <1>1 DEF accept_one
  <2>2. LineTypeOK'
    BY <2>1 DEF LineInv, LineTypeOK
  <2>3. ListedOnce'
    BY <2>1 DEF LineInv, LineTypeOK, ListedOnce
  <2>4. HeldIsBounded'
    BY <2>1 DEF LineInv, HeldIsBounded
  <2> QED BY <2>2, <2>3, <2>4 DEF LineInv
<1>2. CASE ~Full
  <2>1. /\ state' = [state EXCEPT ![c] = "in"]
        /\ clients' = clients \cup {c} /\ peers' = Append(peers, c)
        /\ \E rest \in 0..1 : out' = [out EXCEPT ![c] = rest]
        /\ UNCHANGED <<broken, sweep_pending, walk, serving, calls>>
    BY <1>2 DEF accept_one
  <2>2. c \notin clients /\ walk = 0
    BY DEF accept_one, LineInv, ListedOnce
  <2>3. peers \in Seq(Console) /\ Len(peers) \in Nat /\ Once(peers) /\ ToSet(peers) = clients
    BY DEF LineInv, LineTypeOK, ListedOnce
  <2>4. /\ peers' \in Seq(Console) /\ Len(peers') \in Nat
        /\ DOMAIN peers' = 1..(Len(peers) + 1) /\ DOMAIN peers = 1..Len(peers)
        /\ \A k \in DOMAIN peers : peers'[k] = peers[k] /\ k \in DOMAIN peers' /\ peers[k] # c
        /\ peers'[Len(peers) + 1] = c /\ Len(peers) + 1 \in DOMAIN peers'
        /\ \A k \in DOMAIN peers' : k \in DOMAIN peers \/ k = Len(peers) + 1
    BY <2>1, <2>2, <2>3 DEF ToSet
  <2>5. Once(peers') /\ ToSet(peers') = clients'
    <3>1. Once(peers')
      BY <2>3, <2>4 DEF Once
    <3>2. ToSet(peers') = ToSet(peers) \cup {c}
      BY <2>4 DEF ToSet
    <3> QED BY <2>1, <2>3, <3>1, <3>2
  <2>6. LineTypeOK'
    BY <2>1, <2>4 DEF LineInv, LineTypeOK
  <2>7. ListedOnce'
    <3>1. walk' <= Len(peers')
      BY <2>1, <2>2, <2>4
    <3>2. \A d \in clients' : state'[d] \in {"in", "gone"}
      BY <2>1 DEF LineInv, LineTypeOK, ListedOnce
    <3> QED BY <2>5, <3>1, <3>2 DEF ListedOnce
  <2>8. HeldIsBounded'
    <3>1. IsFiniteSet(clients) /\ Cardinality(clients) \in Nat
      BY <2>3, AsLongAsItsSet
    <3>2. Cardinality(clients') = Cardinality(clients) + 1
      BY <2>1, <2>2, <3>1, FS_AddElement
    <3>3. Cardinality(clients') <= MaxClients
      BY <1>2, <3>1, <3>2 DEF Full
    <3>4. ASSUME NEW d \in clients' PROVE out'[d] <= MaxPending \/ d \in broken'
      <4>1. CASE d = c
        <5>1. PICK rest \in 0..1 : out' = [out EXCEPT ![c] = rest]
          BY <2>1
        <5>2. out'[c] = rest
          BY <5>1 DEF LineInv, LineTypeOK
        <5> QED BY <4>1, <5>2
      <4>2. CASE d # c
        <5>1. d \in clients /\ out'[d] = out[d] /\ broken' = broken
          BY <2>1, <3>4, <4>2 DEF LineInv, LineTypeOK
        <5> QED BY <5>1 DEF LineInv, HeldIsBounded
      <4> QED BY <4>1, <4>2
    <3> QED BY <3>3, <3>4 DEF HeldIsBounded
  <2> QED BY <2>6, <2>7, <2>8 DEF LineInv
<1> QED BY <1>1, <1>2

LEMMA LineStepKeeps == ASSUME LineInv, [LineNext]_lineVars PROVE LineInv'
<1> USE LineServerAssumption
<1>1. ASSUME NEW c \in Console, Call(c) PROVE LineInv'
  <2>1. c \notin clients
    BY <1>1 DEF Call, LineInv, ListedOnce
  <2>2. LineTypeOK'
    BY <1>1 DEF Call, LineInv, LineTypeOK
  <2>3. ListedOnce' /\ HeldIsBounded'
    BY <1>1, <2>1 DEF Call, LineInv, LineTypeOK, ListedOnce, HeldIsBounded
  <2> QED BY <2>2, <2>3 DEF LineInv
<1>2. ASSUME NEW c \in Console, HangUpCall(c) PROVE LineInv'
  BY <1>2 DEF HangUpCall, LineInv, LineTypeOK, ListedOnce, HeldIsBounded
<1>3. ASSUME NEW c \in Console, on_ready(c) PROVE LineInv'
  <2>1. walk' = 0 /\ Len(peers) \in Nat
    BY <1>3 DEF on_ready, LineInv, LineTypeOK
  <2> QED BY <1>3, <2>1, SendKeeps DEF on_ready
<1>4. ASSUME NEW c \in Console, on_ready_write(c) PROVE LineInv'
  <2>1. PICK rest \in Takes(c, out[c]) :
              IF FlushFails(c, rest) THEN drop({c})
              ELSE out' = [out EXCEPT ![c] = rest] /\ UNCHANGED <<clients, broken, peers, state>>
    BY <1>4 DEF on_ready_write
  <2>2. walk = 0 /\ UNCHANGED <<sweep_pending, walk, serving, calls>>
    BY <1>4 DEF on_ready_write
  <2>3. CASE FlushFails(c, rest)
    <3>1. drop({c})
      BY <2>1, <2>3
    <3>2. sweep_pending' \in BOOLEAN /\ serving' \in BOOLEAN
      BY <2>2 DEF LineInv, LineTypeOK
    <3> QED BY <2>2, <3>1, <3>2, DropKeeps
  <2>4. CASE ~FlushFails(c, rest)
    <3>1. out' = [out EXCEPT ![c] = rest] /\ UNCHANGED <<clients, broken, peers, state>>
      BY <2>1, <2>4
    <3>2. rest \in Nat /\ rest <= MaxPending
      BY <2>1, <2>4 DEF Takes, FlushFails, LineInv, LineTypeOK
    <3>3. LineTypeOK'
      BY <2>2, <3>1, <3>2 DEF LineInv, LineTypeOK
    <3>4. ListedOnce'
      BY <2>2, <3>1 DEF LineInv, ListedOnce
    <3>5. HeldIsBounded'
      BY <3>1, <3>2 DEF LineInv, LineTypeOK, HeldIsBounded
    <3> QED BY <3>3, <3>4, <3>5 DEF LineInv
  <2> QED BY <2>3, <2>4
<1>5. ASSUME NEW c \in Console, accept_one(c) PROVE LineInv'
  BY <1>5, AcceptKeeps
<1>6. CASE sweep
  <2>1. /\ walk = 0 /\ drop(broken) /\ UNCHANGED <<walk, calls>>
        /\ sweep_pending' \in BOOLEAN /\ serving' \in BOOLEAN
    BY <1>6 DEF sweep, LineInv, LineTypeOK
  <2> QED BY <2>1, DropKeeps
<1>7. CASE announce_next
  <2> DEFINE i == IF walk = 0 THEN 1 ELSE walk
  <2>1. walk \in Nat /\ peers \in Seq(Console) /\ Len(peers) \in Nat
    BY DEF LineInv, LineTypeOK
  <2>2. i \in 1..Len(peers)
    <3>1. peers # <<>> => Len(peers) > 0
      BY <2>1
    <3> QED BY <1>7, <2>1, <3>1 DEF announce_next
  <2>3. ClientSend(peers[i]) /\ walk' = (IF i = Len(peers) THEN 0 ELSE i + 1)
        /\ UNCHANGED <<state, serving, calls>>
    BY <1>7 DEF announce_next
  <2> HIDE DEF i
  <2>4. walk' \in Nat /\ walk' <= Len(peers) /\ peers[i] \in Console
    BY <2>1, <2>2, <2>3
  <2> QED BY <2>3, <2>4, SendKeeps
<1>8. CASE stop_server
  <2>1. walk = 0 /\ drop(clients \cup {c \in Console : state[c] = "queued"})
        /\ UNCHANGED <<walk, calls>> /\ serving' \in BOOLEAN /\ sweep_pending' \in BOOLEAN
    BY <1>8 DEF stop_server, LineInv, LineTypeOK
  <2> QED BY <2>1, DropKeeps
<1>9. CASE UNCHANGED lineVars
  BY <1>9 DEF lineVars, LineInv, LineTypeOK, ListedOnce, HeldIsBounded
<1> QED
  BY <1>1, <1>2, <1>3, <1>4, <1>5, <1>6, <1>7, <1>8, <1>9 DEF LineNext

\* The list and the set agree, and so do their sizes.
LEMMA LineIsSafe == ASSUME LineInv PROVE PeersAreClients /\ HeldIsBounded
<1>1. Len(peers) = Cardinality(clients)
  BY AsLongAsItsSet DEF LineInv, LineTypeOK, ListedOnce
<1> QED BY <1>1 DEF LineInv, ListedOnce, PeersAreClients

-----------------------------------------------------------------------------
(* What is done to one after another *)

\* One more of a list: put in the ring, read by the host, fed to the reader.
OneOf(how, v, x) ==
    CASE how = "ring" -> Ringed(v, x)
      [] how = "heard" -> Took(Took(v, x[1]), x[2])
      [] how = "got" -> Fed(v, x)

InTurn(how, start, list, n, f) ==
    f = [k \in 0..n |-> IF k = 0 THEN start ELSE OneOf(how, f[k - 1], list[k])]

LEMMA OneMoreTurn ==
    ASSUME NEW how, NEW start, NEW list, NEW n \in Nat, NEW f, InTurn(how, start, list, n, f)
    PROVE  \E g : InTurn(how, start, list, n + 1, g)
<1> DEFINE last == OneOf(how, f[n], list[n + 1])
           g == [k \in 0..(n + 1) |-> IF k <= n THEN f[k] ELSE last]
<1>1. ASSUME NEW k \in 0..(n + 1)
      PROVE  g[k] = IF k = 0 THEN start ELSE OneOf(how, g[k - 1], list[k])
  <2>1. CASE k = 0
    <3>1. f[0] = start
      BY DEF InTurn
    <3> QED BY <2>1, <3>1
  <2>2. CASE k \in 1..n
    <3>1. f[k] = OneOf(how, f[k - 1], list[k])
      BY <2>2 DEF InTurn
    <3>2. g[k] = f[k] /\ g[k - 1] = f[k - 1] /\ k # 0
      BY <2>2
    <3> HIDE DEF g
    <3> QED BY <3>1, <3>2
  <2>3. CASE k = n + 1
    BY <2>3
  <2> QED BY <2>1, <2>2, <2>3
<1>2. g = [k \in 0..(n + 1) |-> g[k]]
  OBVIOUS
<1> HIDE DEF g
<1>3. InTurn(how, start, list, n + 1, g)
  BY <1>1, <1>2 DEF InTurn
<1> QED BY <1>3

LEMMA ThereAreTurns ==
    ASSUME NEW how, NEW start, NEW list, NEW n \in Nat PROVE \E f : InTurn(how, start, list, n, f)
<1> DEFINE not == {k \in Nat : ~\E f : InTurn(how, start, list, k, f)}
<1> SUFFICES ASSUME not # {} PROVE FALSE
  OBVIOUS
<1>1. PICK k \in not : \A j \in not : k <= j
  BY LeastNatural
<1>2. InTurn(how, start, list, 0, [i \in 0..0 |-> start])
  BY DEF InTurn
<1>3. k - 1 \in Nat /\ k - 1 \notin not
  BY <1>1, <1>2
<1>4. PICK f : InTurn(how, start, list, k - 1, f)
  BY <1>3
<1>5. \E g : InTurn(how, start, list, (k - 1) + 1, g)
  BY <1>3, <1>4, OneMoreTurn
<1>6. (k - 1) + 1 = k
  BY <1>1
<1> QED BY <1>1, <1>5, <1>6

\* A statement about every prefix of a list.
LEMMA UpTo ==
    ASSUME NEW n \in Nat, NEW good, 0 \in good, \A k \in 1..n : (k - 1 \in good => k \in good)
    PROVE  n \in good
<1> DEFINE not == {k \in 0..n : k \notin good}
<1>1. not = {}
  <2> SUFFICES ASSUME not # {} PROVE FALSE
    OBVIOUS
  <2>1. PICK k \in not : \A j \in not : k <= j
    <3>1. not \subseteq Nat
      OBVIOUS
    <3> HIDE DEF not
    <3> QED BY <3>1, LeastNatural
  <2>2. k \in 0..n /\ k # 0 /\ k \notin good
    BY <2>1
  <2>3. k \in 1..n /\ k - 1 \in 0..n /\ ~(k <= k - 1)
    BY <2>2
  <2>4. k - 1 \notin not
    <3> HIDE DEF not
    <3> QED BY <2>1, <2>3
  <2>5. k - 1 \in good
    BY <2>3, <2>4
  <2> QED BY <2>2, <2>3, <2>5
<1>2. \A k \in 0..n : k \in good
  BY <1>1
<1>3. n \in 0..n
  OBVIOUS
<1> HIDE DEF not
<1> QED BY <1>2, <1>3

LEMMA SentTxTurns ==
    ASSUME ~Hasty, NEW t, NEW lines, Len(lines) \in Nat
    PROVE  IF kind = "usb" /\ there
           THEN \E f : InTurn("ring", t, lines, Len(lines), f) /\ SentTx(t, lines) = f[Len(lines)]
           ELSE SentTx(t, lines) = t
<1> DEFINE Ring(f) == f = [n \in 0..Len(lines) |-> IF n = 0 THEN t ELSE Ringed(f[n - 1], lines[n])]
           ring == CHOOSE f : Ring(f)
<1>1. SentTx(t, lines) = IF kind = "usb" /\ there THEN ring[Len(lines)] ELSE t
  BY DEF SentTx
<1>2. PICK f : InTurn("ring", t, lines, Len(lines), f)
  BY ThereAreTurns
<1>3. Ring(f)
  BY <1>2 DEF InTurn, OneOf
<1>4. Ring(ring)
  <2> HIDE DEF Ring
  <2> QED BY <1>3
<1>5. InTurn("ring", t, lines, Len(lines), ring)
  <2> HIDE DEF ring
  <2> QED BY <1>4 DEF InTurn, OneOf
<1> HIDE DEF ring
<1> QED BY <1>1, <1>5

LEMMA SentAirTurns ==
    ASSUME NEW r, NEW lines, Len(lines) \in Nat
    PROVE  IF kind = "air" /\ there /\ subscribed
           THEN \E f : InTurn("heard", r, lines, Len(lines), f) /\ SentAir(r, lines) = f[Len(lines)]
           ELSE SentAir(r, lines) = r
<1> DEFINE Heard(f) == f = [n \in 0..Len(lines) |-> IF n = 0 THEN r ELSE Took(Took(f[n - 1], lines[n][1]), lines[n][2])]
           heard == CHOOSE f : Heard(f)
<1>1. SentAir(r, lines) = IF kind = "air" /\ there /\ subscribed THEN heard[Len(lines)] ELSE r
  BY DEF SentAir
<1>2. PICK f : InTurn("heard", r, lines, Len(lines), f)
  BY ThereAreTurns
<1>3. Heard(f)
  BY <1>2 DEF InTurn, OneOf
<1>4. Heard(heard)
  <2> HIDE DEF Heard
  <2> QED BY <1>3
<1>5. InTurn("heard", r, lines, Len(lines), heard)
  <2> HIDE DEF heard
  <2> QED BY <1>4 DEF InTurn, OneOf
<1> HIDE DEF heard
<1> QED BY <1>1, <1>5

LEMMA FeedTurns ==
    ASSUME NEW buf, NEW pieces, Len(pieces) \in Nat
    PROVE  \E f : InTurn("got", [lines |-> <<>>, buf |-> buf], pieces, Len(pieces), f)
                  /\ feed(buf, pieces) = f[Len(pieces)]
<1> DEFINE start == [lines |-> <<>>, buf |-> buf]
           Got(f) == f = [n \in 0..Len(pieces) |-> IF n = 0 THEN start ELSE Fed(f[n - 1], pieces[n])]
           got == CHOOSE f : Got(f)
<1>1. feed(buf, pieces) = got[Len(pieces)]
  BY DEF feed
<1>2. PICK f : InTurn("got", start, pieces, Len(pieces), f)
  BY ThereAreTurns
<1>3. Got(f)
  BY <1>2 DEF InTurn, OneOf
<1>4. Got(got)
  <2> HIDE DEF Got
  <2> QED BY <1>3
<1>5. InTurn("got", start, pieces, Len(pieces), got)
  <2> HIDE DEF got
  <2> QED BY <1>4 DEF InTurn, OneOf
<1> HIDE DEF got
<1> QED BY <1>1, <1>5
-----------------------------------------------------------------------------
(* Lines both ways *)

Said == {"hello", "ok", "device"}
Command == [who : Nat, line : Nat, half : {0, 1}, verb : {"ping", "announce"}]
Reply == [of : Said, half : {0, 1}]
Reading == [first : {"none"} \cup Said, begun : BOOLEAN, torn : BOOLEAN]

\* A ring of whole lines, the first of which may have been begun.
WholeFrom(t, begun) ==
    /\ t \in Seq(Reply)
    /\ t = <<>> => ~begun
    /\ t # <<>> => t[Len(t)].half = 1 /\ (begun <=> t[1].half = 1)
    /\ \A i \in DOMAIN t : i > 1 => t[i].half # t[i - 1].half

\* One that starts with what the other starts with.
StartsLike(u, t) == t # <<>> => u # <<>> /\ u[1] = t[1]

LEMMA LineIs ==
    ASSUME NEW of \in Said
    PROVE  /\ Line(of) \in Seq(Reply) /\ Len(Line(of)) = 2
           /\ Line(of)[1].of = of /\ Line(of)[1].half = 0 /\ Line(of)[2].half = 1 /\ Line(of)[2].of = of
BY DEF Line, Reply

LEMMA RingedIs ==
    ASSUME NEW t, NEW begun \in BOOLEAN, WholeFrom(t, begun), NEW of \in Said
    PROVE  /\ WholeFrom(Ringed(t, Line(of)), begun) /\ StartsLike(Ringed(t, Line(of)), t)
           /\ t = <<>> => Ringed(t, Line(of)) = Line(of)
<1> DEFINE l == Line(of)
           u == t \o l
<1>1. l \in Seq(Reply) /\ Len(l) = 2 /\ l[1].half = 0 /\ l[2].half = 1
  BY LineIs
<1>2. t \in Seq(Reply) /\ Len(t) \in Nat
  BY DEF WholeFrom
<1> HIDE DEF l
<1>3. /\ u \in Seq(Reply) /\ Len(u) = Len(t) + 2 /\ DOMAIN u = 1..(Len(t) + 2)
      /\ \A i \in 1..Len(t) : u[i] = t[i]
      /\ u[Len(t) + 1] = l[1] /\ u[Len(t) + 2] = l[2]
  <2>1. u \in Seq(Reply) /\ Len(u) = Len(t) + Len(l)
    BY <1>1, <1>2, ConcatProperties
  <2>2. \A i \in 1..(Len(t) + Len(l)) : u[i] = IF i <= Len(t) THEN t[i] ELSE l[i - Len(t)]
    BY <1>1, <1>2, ConcatProperties
  <2>3. Len(u) = Len(t) + 2 /\ DOMAIN u = 1..(Len(t) + 2)
    BY <1>1, <2>1
  <2>4. \A i \in 1..Len(t) : i \in 1..(Len(t) + Len(l)) /\ i <= Len(t)
    BY <1>1, <1>2
  <2>5. /\ Len(t) + 1 \in 1..(Len(t) + Len(l)) /\ ~(Len(t) + 1 <= Len(t)) /\ (Len(t) + 1) - Len(t) = 1
        /\ Len(t) + 2 \in 1..(Len(t) + Len(l)) /\ ~(Len(t) + 2 <= Len(t)) /\ (Len(t) + 2) - Len(t) = 2
    BY <1>1, <1>2
  <2> HIDE DEF u
  <2> QED BY <2>1, <2>2, <2>3, <2>4, <2>5
<1>4. t = <<>> => u = l /\ Len(t) = 0
  BY <1>1
<1>5. t # <<>> => Len(t) > 0 /\ t[Len(t)].half = 1 /\ (begun <=> t[1].half = 1)
  BY <1>2 DEF WholeFrom
<1> HIDE DEF u
<1>6. WholeFrom(u, begun) /\ StartsLike(u, t)
  <2>1. \A i \in DOMAIN u : i > 1 => u[i].half # u[i - 1].half
    <3> SUFFICES ASSUME NEW i \in 1..(Len(t) + 2), i > 1 PROVE u[i].half # u[i - 1].half
      BY <1>3
    <3>1. CASE i \in 1..Len(t)
      <4>1. i - 1 \in 1..Len(t) /\ i \in DOMAIN t
        BY <1>2, <3>1
      <4> QED BY <1>3, <3>1, <4>1 DEF WholeFrom
    <3>2. CASE i = Len(t) + 1
      <4>1. t # <<>> /\ i - 1 = Len(t) /\ Len(t) \in 1..Len(t)
        BY <1>2, <1>4, <3>2
      <4> QED BY <1>1, <1>3, <1>5, <3>2, <4>1
    <3>3. CASE i = Len(t) + 2
      <4>1. i - 1 = Len(t) + 1
        BY <1>2, <3>3
      <4> QED BY <1>1, <1>3, <3>3, <4>1
    <3> QED BY <1>2, <3>1, <3>2, <3>3
  <2>2. u # <<>> /\ u[Len(u)].half = 1
    BY <1>1, <1>2, <1>3
  <2>3. begun <=> u[1].half = 1
    <3>1. CASE t = <<>>
      <4>1. ~begun
        BY <3>1 DEF WholeFrom
      <4>2. u[1].half = 0
        BY <1>1, <1>4, <3>1
      <4> QED BY <4>1, <4>2
    <3>2. CASE t # <<>>
      <4>1. u[1] = t[1]
        BY <1>2, <1>3, <1>5, <3>2
      <4> QED BY <1>5, <3>2, <4>1
    <3> QED BY <3>1, <3>2
  <2>4. StartsLike(u, t)
    <3>1. t # <<>> => u[1] = t[1]
      BY <1>2, <1>3, <1>5
    <3> QED BY <2>2, <3>1 DEF StartsLike
  <2> QED BY <1>3, <2>1, <2>2, <2>3, <2>4 DEF WholeFrom
<1>7. Ringed(t, l) = t \/ Ringed(t, l) = u
  BY DEF Ringed, u
<1>8. t = <<>> => Ringed(t, l) = u
  BY <1>1, <1>4, BoxWireAssumption DEF Ringed, u
<1>9. StartsLike(t, t)
  BY DEF StartsLike
<1>10. WholeFrom(Ringed(t, l), begun) /\ StartsLike(Ringed(t, l), t) /\ (t = <<>> => Ringed(t, l) = l)
  BY <1>4, <1>6, <1>7, <1>8, <1>9
<1> QED BY <1>10 DEF l

\* OkTo for any number of lines.
OkTo(lines) == [i \in DOMAIN lines |-> Line("ok")]

LEMMA AnswersAre ==
    ASSUME NEW S, NEW lines \in Seq(S)
    PROVE  /\ Len(OkTo(lines)) = Len(lines) /\ Len(lines) \in Nat
           /\ \A i \in 1..Len(lines) : OkTo(lines)[i] = Line("ok")
<1>1. Line("ok") \in Seq(Reply)
  BY LineIs DEF Said
<1>2. DOMAIN lines = 1..Len(lines) /\ Len(lines) \in Nat
  OBVIOUS
<1>3. OkTo(lines) = [i \in 1..Len(lines) |-> Line("ok")]
  BY <1>2 DEF OkTo
<1> DEFINE ok == Line("ok")
<1> HIDE DEF ok
<1>4. [i \in 1..Len(lines) |-> ok] \in Seq({ok}) /\ Len([i \in 1..Len(lines) |-> ok]) = Len(lines)
  BY <1>2
<1> QED BY <1>2, <1>3, <1>4 DEF ok

LEMMA AnswersRinged ==
    ASSUME ~Hasty, NEW S, NEW lines \in Seq(S), NEW t, NEW begun \in BOOLEAN, WholeFrom(t, begun)
    PROVE  /\ WholeFrom(SentTx(t, OkTo(lines)), begun) /\ StartsLike(SentTx(t, OkTo(lines)), t)
           /\ kind = "air" \/ ~there => SentTx(t, OkTo(lines)) = t
<1> DEFINE a == OkTo(lines)
<1>1. Len(a) = Len(lines) /\ Len(a) \in Nat /\ \A i \in 1..Len(a) : a[i] = Line("ok")
  BY AnswersAre
<1> HIDE DEF a
<1>2. StartsLike(t, t)
  BY DEF StartsLike
<1>3. CASE kind = "usb" /\ there
  <2>1. PICK f : InTurn("ring", t, a, Len(a), f) /\ SentTx(t, a) = f[Len(a)]
    BY <1>1, <1>3, SentTxTurns
  <2> DEFINE good == {k \in 0..Len(a) : WholeFrom(f[k], begun) /\ StartsLike(f[k], t)}
  <2>2. 0 \in good
    <3>1. f[0] = t
      BY <1>1, <2>1 DEF InTurn
    <3> QED BY <1>1, <1>2, <3>1
  <2>3. ASSUME NEW k \in 1..Len(a), k - 1 \in good PROVE k \in good
    <3>1. f[k] = Ringed(f[k - 1], Line("ok"))
      BY <1>1, <2>1 DEF InTurn, OneOf
    <3>2. WholeFrom(f[k - 1], begun) /\ StartsLike(f[k - 1], t)
      BY <2>3
    <3>3. WholeFrom(f[k], begun) /\ StartsLike(f[k], f[k - 1])
      BY <3>1, <3>2, RingedIs DEF Said
    <3>4. StartsLike(f[k], t)
      BY <3>2, <3>3 DEF StartsLike
    <3>5. k \in 0..Len(a)
      BY <1>1
    <3> QED BY <3>3, <3>4, <3>5
  <2> HIDE DEF good
  <2>4. Len(a) \in good
    BY <1>1, <2>2, <2>3, UpTo
  <2>5. WholeFrom(f[Len(a)], begun) /\ StartsLike(f[Len(a)], t)
    BY <2>4 DEF good
  <2> QED BY <1>3, <2>1, <2>5 DEF a
<1>4. CASE ~(kind = "usb" /\ there)
  <2>1. SentTx(t, a) = t
    BY <1>1, <1>4, SentTxTurns
  <2> QED BY <1>2, <2>1 DEF a
<1> QED BY <1>3, <1>4

\* One line.
LEMMA OneSentTx ==
    ASSUME ~Hasty, NEW t, NEW l
    PROVE  SentTx(t, <<l>>) = IF kind = "usb" /\ there THEN Ringed(t, l) ELSE t
<1>1. Len(<<l>>) = 1 /\ 1 \in Nat /\ <<l>>[1] = l
  OBVIOUS
<1>2. CASE kind = "usb" /\ there
  <2>1. PICK f : InTurn("ring", t, <<l>>, 1, f) /\ SentTx(t, <<l>>) = f[1]
    BY <1>1, <1>2, SentTxTurns
  <2>2. f[0] = t /\ f[1] = OneOf("ring", f[0], <<l>>[1])
    BY <2>1 DEF InTurn
  <2> QED BY <1>1, <1>2, <2>1, <2>2 DEF OneOf
<1>3. CASE ~(kind = "usb" /\ there)
  BY <1>1, <1>3, SentTxTurns
<1> QED BY <1>2, <1>3

\* What a host makes of a whole line.
Greeted(r) == r \in Reading /\ ~r.begun /\ ~r.torn /\ r.first = "hello"

LEMMA TookLine ==
    ASSUME NEW r \in Reading, ~r.begun, ~r.torn, NEW of \in Said,
           r.first = "none" => of = "hello", r.first \in {"none", "hello"}
    PROVE  Greeted(Took(Took(r, Line(of)[1]), Line(of)[2]))
<1> DEFINE l == Line(of)
           half == Took(r, l[1])
<1>1. l[1].of = of /\ l[1].half = 0 /\ l[2].half = 1 /\ l[2].of = of
  BY LineIs
<1> HIDE DEF l
<1>2. half.first = "hello"
  BY <1>1 DEF Took
<1>3. half.begun <=> TRUE
  BY <1>1 DEF Took
<1>4. half.torn <=> FALSE
  BY <1>1 DEF Took, Reading
<1>5. half.begun \in BOOLEAN /\ half.torn \in BOOLEAN
  BY <1>1 DEF Took, Reading
<1> HIDE DEF half
<1>6. Took(half, l[2]).first = "hello"
  BY <1>2 DEF Took
<1>7. Took(half, l[2]).begun <=> FALSE
  <2>1. Took(half, l[2]).begun = (l[2].half = 0)
    BY DEF Took
  <2>2. (l[2].half = 0) <=> FALSE
    BY <1>1
  <2> QED BY <2>1, <2>2
<1>8. Took(half, l[2]).torn <=> FALSE
  BY <1>1, <1>3, <1>4, <1>5 DEF Took
<1>9. Took(half, l[2]) \in Reading
  BY <1>5, <1>6 DEF Took, Reading, Said
<1> QED BY <1>6, <1>7, <1>8, <1>9 DEF Greeted, half, l

LEMMA OneSentAir ==
    ASSUME NEW r, NEW l
    PROVE  SentAir(r, <<l>>) = IF kind = "air" /\ there /\ subscribed THEN Took(Took(r, l[1]), l[2]) ELSE r
<1>1. Len(<<l>>) = 1 /\ 1 \in Nat /\ <<l>>[1] = l
  OBVIOUS
<1>2. CASE kind = "air" /\ there /\ subscribed
  <2>1. PICK f : InTurn("heard", r, <<l>>, 1, f) /\ SentAir(r, <<l>>) = f[1]
    BY <1>1, <1>2, SentAirTurns
  <2>2. f[0] = r /\ f[1] = OneOf("heard", f[0], <<l>>[1])
    BY <2>1 DEF InTurn
  <2> QED BY <1>1, <1>2, <2>1, <2>2 DEF OneOf
<1>3. CASE ~(kind = "air" /\ there /\ subscribed)
  BY <1>1, <1>3, SentAirTurns
<1> QED BY <1>2, <1>3

LEMMA AnswersHeard ==
    ASSUME NEW S, NEW lines \in Seq(S), NEW r
    PROVE  /\ kind = "air" /\ there /\ subscribed /\ Greeted(r) => Greeted(SentAir(r, OkTo(lines)))
           /\ ~(kind = "air" /\ there /\ subscribed) => SentAir(r, OkTo(lines)) = r
<1> DEFINE a == OkTo(lines)
<1>1. Len(a) = Len(lines) /\ Len(a) \in Nat /\ \A i \in 1..Len(a) : a[i] = Line("ok")
  BY AnswersAre
<1> HIDE DEF a
<1>2. ASSUME kind = "air" /\ there /\ subscribed /\ Greeted(r) PROVE Greeted(SentAir(r, a))
  <2>1. PICK f : InTurn("heard", r, a, Len(a), f) /\ SentAir(r, a) = f[Len(a)]
    BY <1>1, <1>2, SentAirTurns
  <2> DEFINE good == {k \in 0..Len(a) : Greeted(f[k])}
  <2>2. 0 \in good
    <3>1. f[0] = r
      BY <1>1, <2>1 DEF InTurn
    <3> QED BY <1>1, <1>2, <3>1
  <2>3. ASSUME NEW k \in 1..Len(a), k - 1 \in good PROVE k \in good
    <3>1. f[k] = Took(Took(f[k - 1], Line("ok")[1]), Line("ok")[2])
      BY <1>1, <2>1 DEF InTurn, OneOf
    <3>2. Greeted(f[k - 1])
      BY <2>3
    <3>3. Greeted(f[k])
      BY <3>1, <3>2, TookLine DEF Said, Greeted
    <3>5. k \in 0..Len(a)
      BY <1>1
    <3> QED BY <3>3, <3>5
  <2> HIDE DEF good
  <2>4. Len(a) \in good
    BY <1>1, <2>2, <2>3, UpTo
  <2> QED BY <2>1, <2>4 DEF good
<1>3. ~(kind = "air" /\ there /\ subscribed) => SentAir(r, a) = r
  BY <1>1, SentAirTurns
<1> QED BY <1>2, <1>3 DEF a
-----------------------------------------------------------------------------
(* What the reader makes of the pieces of one session *)

Mine(pieces) == \A i \in DOMAIN pieces : pieces[i].who = session

\* After count pieces, all of which came: at the start of a line or in the
\* middle of one.
InStep(buf, count) ==
    IF buf = <<>> THEN \E m \in Nat : count = 2 * m
    ELSE Len(buf) = 1 /\ buf[1].half = 0 /\ 2 * buf[1].line + 1 = count

EndsIn(line, pieces) ==
    line # <<>> /\ \E j \in DOMAIN pieces : pieces[j] = line[Len(line)] /\ pieces[j].half = 1

\* own: all of it is of this session; clean: and nothing of it was lost.
Received(s, own, clean, pieces, count) ==
    /\ s.buf \in Seq(Command) /\ s.lines \in Seq(Seq(Command))
    /\ \A i \in DOMAIN s.lines : EndsIn(s.lines[i], pieces)
    /\ own => Mine(s.buf) /\ \A i \in DOMAIN s.lines : Mine(s.lines[i])
    /\ clean => InStep(s.buf, count) /\ \A i \in DOMAIN s.lines : Whole(s.lines[i])

LEMMA LongerBy ==
    ASSUME NEW S, NEW list \in Seq(S), NEW x \in S
    PROVE  /\ Append(list, x) \in Seq(S) /\ Append(list, x) # <<>>
           /\ Len(Append(list, x)) = Len(list) + 1 /\ Len(list) \in Nat
           /\ DOMAIN list = 1..Len(list) /\ DOMAIN Append(list, x) = 1..(Len(list) + 1)
           /\ \A i \in DOMAIN list : Append(list, x)[i] = list[i]
           /\ Append(list, x)[Len(list) + 1] = x
           /\ \A i \in DOMAIN Append(list, x) : i \in DOMAIN list \/ i = Len(list) + 1
BY AppendProperties

LEMMA FedIs ==
    ASSUME NEW own \in BOOLEAN, NEW clean \in BOOLEAN, clean => own,
           NEW pieces \in Seq(Command), NEW k \in DOMAIN pieces, own => Mine(pieces),
           NEW count \in Nat, clean => 2 * pieces[k].line + pieces[k].half = count,
           NEW s, Received(s, own, clean, pieces, count)
    PROVE  Received(Fed(s, pieces[k]), own, clean, pieces, count + 1)
<1> DEFINE p == pieces[k]
           longer == Append(s.buf, p)
<1>1. /\ s.buf \in Seq(Command) /\ s.lines \in Seq(Seq(Command))
      /\ \A i \in DOMAIN s.lines : EndsIn(s.lines[i], pieces)
      /\ own => Mine(s.buf) /\ \A i \in DOMAIN s.lines : Mine(s.lines[i])
      /\ clean => InStep(s.buf, count) /\ \A i \in DOMAIN s.lines : Whole(s.lines[i])
  BY DEF Received
<1>2. /\ p \in Command /\ p.line \in Nat /\ p.half \in {0, 1}
      /\ own => p.who = session
  <2>1. p \in Command
    OBVIOUS
  <2>2. own => p.who = session
    BY DEF Mine
  <2> HIDE DEF p
  <2>3. p.line \in Nat /\ p.half \in {0, 1}
    BY <2>1 DEF Command
  <2> QED BY <2>1, <2>2, <2>3
<1>3. clean => 2 * p.line + p.half = count
  OBVIOUS
<1>4. p = pieces[k]
  OBVIOUS
<1> HIDE DEF p
<1>5. /\ longer \in Seq(Command) /\ longer # <<>>
      /\ Len(longer) = Len(s.buf) + 1 /\ Len(s.buf) \in Nat
      /\ DOMAIN s.buf = 1..Len(s.buf) /\ DOMAIN longer = 1..(Len(s.buf) + 1)
      /\ \A i \in DOMAIN s.buf : longer[i] = s.buf[i]
      /\ longer[Len(s.buf) + 1] = p
      /\ \A i \in DOMAIN longer : i \in DOMAIN s.buf \/ i = Len(s.buf) + 1
  BY <1>1, <1>2, LongerBy
<1> HIDE DEF longer
<1>6. own => Mine(longer)
  BY <1>1, <1>2, <1>5 DEF Mine
<1>7. CASE p.half = 1
  <2> DEFINE more == Append(s.lines, longer)
  <2>1. Fed(s, p).lines = more /\ Fed(s, p).buf = <<>>
    BY <1>7 DEF Fed, longer
  <2>2. /\ more \in Seq(Seq(Command))
        /\ \A i \in DOMAIN s.lines : more[i] = s.lines[i]
        /\ more[Len(s.lines) + 1] = longer
        /\ \A i \in DOMAIN more : i \in DOMAIN s.lines \/ i = Len(s.lines) + 1
    BY <1>1, <1>5, LongerBy
  <2> HIDE DEF more
  <2>3. EndsIn(longer, pieces)
    BY <1>4, <1>5, <1>7 DEF EndsIn
  <2>4. ASSUME clean PROVE InStep(<<>>, count + 1) /\ Whole(longer)
    <3>1. count = 2 * p.line + 1
      BY <1>2, <1>3, <1>7, <2>4
    <3>2. InStep(s.buf, count) /\ own
      BY <1>1, <2>4
    <3>3. s.buf # <<>>
      <4>1. ASSUME NEW m \in Nat PROVE 2 * m # 2 * p.line + 1
        BY <1>2
      <4> QED BY <3>1, <3>2, <4>1 DEF InStep
    <3>4. Len(s.buf) = 1 /\ s.buf[1].half = 0 /\ 2 * s.buf[1].line + 1 = count
      BY <3>2, <3>3 DEF InStep
    <3>5. s.buf[1].line = p.line
      <4>1. 1 \in DOMAIN s.buf
        BY <1>5, <3>4
      <4>2. s.buf[1].line \in Nat
        <5>1. s.buf[1] \in Command
          BY <1>1, <4>1
        <5> QED BY <5>1 DEF Command
      <4> DEFINE a == s.buf[1].line
      <4>3. a \in Nat /\ 2 * a + 1 = 2 * p.line + 1
        BY <3>1, <3>4, <4>2
      <4> HIDE DEF a
      <4>4. a = p.line
        BY <1>2, <4>3
      <4> QED BY <4>4 DEF a
    <3>6. Len(longer) = 2 /\ longer[1] = s.buf[1] /\ longer[2] = p
      BY <1>5, <3>4
    <3>7. longer[1].who = session /\ longer[2].who = session
      BY <1>5, <1>6, <3>2, <3>4 DEF Mine
    <3>8. Whole(longer)
      BY <3>4, <3>5, <3>6, <3>7 DEF Whole
    <3>9. p.line + 1 \in Nat /\ count + 1 = 2 * (p.line + 1)
      BY <1>2, <3>1
    <3>10. InStep(<<>>, count + 1)
      BY <3>9 DEF InStep
    <3> QED BY <3>8, <3>10
  <2>5. <<>> \in Seq(Command) /\ Mine(<<>>)
    BY DEF Mine
  <2>6. /\ \A i \in DOMAIN more : EndsIn(more[i], pieces)
        /\ own => \A i \in DOMAIN more : Mine(more[i])
        /\ clean => \A i \in DOMAIN more : Whole(more[i])
    BY <1>1, <1>6, <2>2, <2>3, <2>4
  <2>7. Received(Fed(s, p), own, clean, pieces, count + 1)
    BY <2>1, <2>2, <2>4, <2>5, <2>6 DEF Received
  <2> QED BY <1>4, <2>7
<1>8. CASE p.half = 0
  <2>1. Fed(s, p).lines = s.lines /\ Fed(s, p).buf = longer
    BY <1>8 DEF Fed, longer
  <2>2. ASSUME clean PROVE InStep(longer, count + 1)
    <3>1. count = 2 * p.line
      BY <1>2, <1>3, <1>8, <2>2
    <3>2. InStep(s.buf, count)
      BY <1>1, <2>2
    <3>3. s.buf = <<>>
      <4> SUFFICES ASSUME s.buf # <<>> PROVE FALSE
        OBVIOUS
      <4>1. Len(s.buf) = 1 /\ 2 * s.buf[1].line + 1 = count
        BY <3>2 DEF InStep
      <4>2. 1 \in DOMAIN s.buf
        BY <1>5, <4>1
      <4>3. s.buf[1].line \in Nat
        <5>1. s.buf[1] \in Command
          BY <1>1, <4>2
        <5> QED BY <5>1 DEF Command
      <4> DEFINE a == s.buf[1].line
      <4>4. a \in Nat /\ 2 * a + 1 = 2 * p.line
        BY <3>1, <4>1, <4>3
      <4> HIDE DEF a
      <4> QED BY <1>2, <4>4
    <3>4. Len(longer) = 1 /\ longer[1] = p
      BY <1>5, <3>3
    <3>5. 2 * p.line + 1 = count + 1
      BY <3>1
    <3> QED BY <1>5, <1>8, <3>4, <3>5 DEF InStep
  <2>3. Received(Fed(s, p), own, clean, pieces, count + 1)
    BY <1>1, <1>5, <1>6, <2>1, <2>2 DEF Received
  <2> QED BY <1>4, <2>3
<1> QED BY <1>2, <1>7, <1>8

LEMMA Feeding ==
    ASSUME NEW own \in BOOLEAN, NEW clean \in BOOLEAN, clean => own,
           NEW buf \in Seq(Command), NEW pieces \in Seq(Command), own => Mine(buf) /\ Mine(pieces),
           NEW base \in Nat, clean => InStep(buf, base),
           clean => \A i \in DOMAIN pieces : 2 * pieces[i].line + pieces[i].half = base + i - 1
    PROVE  Received(feed(buf, pieces), own, clean, pieces, base + Len(pieces))
<1> DEFINE start == [lines |-> <<>>, buf |-> buf]
<1>1. Len(pieces) \in Nat /\ DOMAIN pieces = 1..Len(pieces)
  OBVIOUS
<1>2. PICK f : InTurn("got", start, pieces, Len(pieces), f) /\ feed(buf, pieces) = f[Len(pieces)]
  BY <1>1, FeedTurns
<1> DEFINE good == {k \in 0..Len(pieces) : Received(f[k], own, clean, pieces, base + k)}
<1>3. 0 \in good
  <2>1. f[0] = start
    BY <1>1, <1>2 DEF InTurn
  <2>2. <<>> \in Seq(Seq(Command)) /\ DOMAIN <<>> = {}
    OBVIOUS
  <2>3. start.lines = <<>> /\ start.buf = buf
    OBVIOUS
  <2>4. base + 0 = base
    OBVIOUS
  <2> HIDE DEF start
  <2>5. Received(start, own, clean, pieces, base)
    BY <2>2, <2>3 DEF Received
  <2> QED BY <1>1, <2>1, <2>4, <2>5
<1>4. ASSUME NEW k \in 1..Len(pieces), k - 1 \in good PROVE k \in good
  <2>1. f[k] = Fed(f[k - 1], pieces[k])
    BY <1>1, <1>2 DEF InTurn, OneOf
  <2>2. Received(f[k - 1], own, clean, pieces, base + (k - 1))
    BY <1>4
  <2>3. k \in DOMAIN pieces /\ base + (k - 1) \in Nat /\ base + (k - 1) = base + k - 1
        /\ (base + (k - 1)) + 1 = base + k /\ k \in 0..Len(pieces)
    BY <1>1
  <2>4. clean => 2 * pieces[k].line + pieces[k].half = base + (k - 1)
    BY <2>3
  <2>5. Received(Fed(f[k - 1], pieces[k]), own, clean, pieces, (base + (k - 1)) + 1)
    BY <2>2, <2>3, <2>4, FedIs
  <2>6. Received(f[k], own, clean, pieces, base + k)
    BY <2>1, <2>3, <2>5
  <2> QED BY <2>3, <2>6
<1> HIDE DEF good
<1>5. Len(pieces) \in good
  BY <1>1, <1>3, <1>4, UpTo
<1> QED BY <1>2, <1>5 DEF good
-----------------------------------------------------------------------------
(* The two wires *)

WireTypeOK ==
    /\ kind \in {"usb", "air"}
    /\ session \in Nat /\ there \in BOOLEAN /\ subscribed \in BOOLEAN
    /\ wrote \in Nat /\ hush \in BOOLEAN
    /\ rx \in Seq(Command) /\ clipped \subseteq 1..session
    /\ attached \in BOOLEAN
    /\ reader \in Seq(Command) /\ tx \in Seq(Reply)
    /\ read \in Reading
    /\ advertising \in BOOLEAN /\ turn \in {"idle", "feed"}
    /\ opened \in Nat /\ quiet \in BOOLEAN
    /\ acted \in Seq(Command)

\* What the box knows of the link and what is true of it: whoever was greeted is
\* attached for as long as it stays, and one that comes finds nothing of the
\* last.
LinkIsKnown ==
    /\ kind = "usb" => turn = "idle"
    /\ kind = "air" => tx = <<>>
    /\ kind = "air" /\ advertising => ~there /\ ~attached
    /\ kind = "air" /\ attached /\ there => subscribed /\ read.first = "hello"
    /\ kind = "air" /\ turn = "idle" /\ (advertising \/ (there /\ read.first = "none")) => rx = <<>>
    /\ there /\ read.first = "hello" => attached
    /\ opened = IF attached THEN 1 ELSE 0
    /\ there => session # 0
    /\ ~there => tx = <<>> /\ ~subscribed
    /\ tx # <<>> => attached

\* Only a host that is there and was greeted has whole lines on their way, and
\* only one that meant it has one that asks for silence.
SilenceIsMeant ==
    /\ ~attached => ~quiet
    /\ attached /\ there /\ quiet => hush
    /\ \A i \in DOMAIN rx : rx[i].half = 1 => there /\ read.first = "hello" /\ (rx[i].verb = "announce" => hush)

\* What the reader and the ring hold for a host that was greeted is its own, and
\* every piece of it if the ring had room.
StreamIsOwn ==
    /\ wrote > 0 => read.first = "hello"
    /\ there /\ attached /\ read.first = "none" => rx = <<>> /\ reader = <<>>
    /\ read.first = "hello" => Mine(rx) /\ Mine(reader)
    /\ read.first = "hello" /\ session \notin clipped =>
          /\ Len(rx) <= wrote
          /\ \A i \in DOMAIN rx : 2 * rx[i].line + rx[i].half = (wrote - Len(rx)) + i - 1
          /\ InStep(reader, wrote - Len(rx))

\* What the host has read and what is on its way to it go together.
RepliesGoOn ==
    /\ read.first \in {"none", "hello"} /\ ~read.torn
    /\ kind = "air" => ~read.begun
    /\ read.begun => read.first = "hello"
    /\ there => WholeFrom(tx, read.begun)
    /\ kind = "usb" /\ there /\ attached /\ read.first = "none" => tx # <<>> /\ tx[1].of = "hello"

WireInv == WireTypeOK /\ LinkIsKnown /\ SilenceIsMeant /\ StreamIsOwn /\ RepliesGoOn /\ WholeCommands

LEMMA EmptyIs ==
    /\ <<>> \in Seq(Command) /\ <<>> \in Seq(Reply) /\ Mine(<<>>) /\ WholeFrom(<<>>, FALSE)
    /\ InStep(<<>>, 0) /\ Len(<<>>) = 0 /\ DOMAIN <<>> = {}
<1>1. <<>> \in Seq(Command) /\ <<>> \in Seq(Reply) /\ Len(<<>>) = 0 /\ DOMAIN <<>> = {}
  OBVIOUS
<1>2. InStep(<<>>, 0)
  <2>1. 0 \in Nat /\ 0 = 2 * 0
    OBVIOUS
  <2> QED BY <2>1 DEF InStep
<1> QED BY <1>1, <1>2 DEF Mine, WholeFrom

LEMMA NothingIs == Nothing \in Reading /\ Nothing.first = "none" /\ ~Nothing.begun /\ ~Nothing.torn
BY DEF Nothing, Reading

LEMMA WireStarts == ASSUME WireInit PROVE WireInv
<1> USE EmptyIs, NothingIs
<1>1. WireTypeOK
  BY DEF WireInit, WireTypeOK
<1>2. LinkIsKnown
  BY DEF WireInit, LinkIsKnown
<1>3. SilenceIsMeant
  BY DEF WireInit, SilenceIsMeant
<1>4. StreamIsOwn
  BY DEF WireInit, StreamIsOwn
<1>5. RepliesGoOn
  BY DEF WireInit, RepliesGoOn
<1>6. WholeCommands
  BY DEF WireInit, WholeCommands
<1> QED BY <1>1, <1>2, <1>3, <1>4, <1>5, <1>6 DEF WireInv

LEMMA AttachKeeps == ASSUME WireInv, Attach PROVE WireInv'
<1> USE EmptyIs, NothingIs DEF WireInv
<1>1. /\ session' = session + 1 /\ there' = TRUE /\ wrote' = 0 /\ hush' = FALSE /\ read' = Nothing
      /\ advertising' = FALSE /\ ~there
      /\ UNCHANGED <<kind, subscribed, rx, clipped, attached, reader, tx, turn, opened, quiet, acted>>
  BY DEF Attach
<1>2. ~attached /\ tx = <<>>
  BY <1>1 DEF Attach, LinkIsKnown, WireTypeOK
<1>3. WireTypeOK'
  <2>1. session \in Nat /\ clipped \subseteq 1..session
    BY DEF WireTypeOK
  <2>2. session + 1 \in Nat /\ clipped \subseteq 1..(session + 1)
    BY <2>1
  <2> QED BY <1>1, <2>2 DEF WireTypeOK
<1>4. LinkIsKnown'
  BY <1>1, <1>2 DEF Attach, LinkIsKnown, WireTypeOK
<1>5. SilenceIsMeant'
  BY <1>1, <1>2 DEF SilenceIsMeant
<1>6. StreamIsOwn'
  BY <1>1, <1>2 DEF StreamIsOwn
<1>7. RepliesGoOn'
  <2>1. read'.begun <=> FALSE
    BY <1>1
  <2>2. WholeFrom(<<>>, read'.begun)
    BY <2>1 DEF WholeFrom
  <2>3. there' => WholeFrom(tx', read'.begun)
    BY <1>1, <1>2, <2>2
  <2> QED BY <1>1, <1>2, <2>1, <2>3 DEF RepliesGoOn
<1>8. WholeCommands'
  BY <1>1 DEF WholeCommands, Whole
<1> QED BY <1>3, <1>4, <1>5, <1>6, <1>7, <1>8

LEMMA SubscribeKeeps == ASSUME WireInv, Subscribe PROVE WireInv'
<1> USE DEF WireInv
<1>1. /\ kind = "air" /\ there /\ subscribed' = TRUE
      /\ UNCHANGED <<kind, session, there, wrote, hush, rx, clipped, attached, reader, tx, read,
                     advertising, turn, opened, quiet, acted>>
  BY DEF Subscribe
<1>2. WireTypeOK'
  BY <1>1 DEF WireTypeOK
<1>3. LinkIsKnown'
  BY <1>1 DEF LinkIsKnown
<1>4. SilenceIsMeant'
  BY <1>1 DEF SilenceIsMeant
<1>5. StreamIsOwn'
  BY <1>1 DEF StreamIsOwn, Mine, InStep
<1>6. RepliesGoOn'
  BY <1>1 DEF RepliesGoOn, WholeFrom
<1>7. WholeCommands'
  BY <1>1 DEF WholeCommands, Whole
<1> QED BY <1>2, <1>3, <1>4, <1>5, <1>6, <1>7

LEMMA LeaveKeeps == ASSUME WireInv, ~Hasty, Leave PROVE WireInv'
<1> USE EmptyIs DEF WireInv
<1>1. /\ \A i \in DOMAIN rx : rx[i].half = 0
      /\ there /\ there' = FALSE /\ subscribed' = FALSE /\ tx' = <<>>
      /\ UNCHANGED <<kind, session, wrote, hush, rx, clipped, attached, reader, read,
                     advertising, turn, opened, quiet, acted>>
  BY DEF Leave
<1>2. WireTypeOK'
  BY <1>1 DEF WireTypeOK
<1>3. LinkIsKnown'
  BY <1>1 DEF LinkIsKnown
<1>4. SilenceIsMeant'
  BY <1>1 DEF SilenceIsMeant
<1>5. StreamIsOwn'
  BY <1>1 DEF StreamIsOwn, Mine, InStep
<1>6. RepliesGoOn'
  BY <1>1 DEF RepliesGoOn
<1>7. WholeCommands'
  BY <1>1 DEF WholeCommands, Whole
<1> QED BY <1>2, <1>3, <1>4, <1>5, <1>6, <1>7

LEMMA PieceIs ==
    ASSUME WireTypeOK, NEW v \in {"ping", "announce"}
    PROVE  /\ Piece(v) \in Command
           /\ Piece(v).who = session /\ Piece(v).verb = v
           /\ 2 * Piece(v).line + Piece(v).half = wrote /\ Piece(v).half = wrote % 2
<1>1. session \in Nat /\ wrote \in Nat
  BY DEF WireTypeOK
<1> DEFINE l == wrote \div 2
           h == wrote % 2
<1>2. l \in Nat /\ h \in {0, 1} /\ 2 * l + h = wrote
  <2>1. l \in Nat
    BY <1>1
  <2>2. h \in 0..1
    BY <1>1
  <2>3. wrote = 2 * l + h
    BY <1>1
  <2> HIDE DEF l, h
  <2> QED BY <2>1, <2>2, <2>3
<1>3. Piece(v) = [who |-> session, line |-> l, half |-> h, verb |-> v] /\ h = wrote % 2
  BY DEF Piece
<1> HIDE DEF l, h
<1>4. Piece(v) \in Command
  BY <1>1, <1>2, <1>3 DEF Command
<1>5. Piece(v).who = session /\ Piece(v).line = l /\ Piece(v).half = h /\ Piece(v).verb = v
  BY <1>3
<1> QED BY <1>2, <1>3, <1>4, <1>5

LEMMA WriteKeeps == ASSUME WireInv, NEW v \in {"ping", "announce"}, Write(v) PROVE WireInv'
<1> USE DEF WireInv
<1> DEFINE p == Piece(v)
<1>1. /\ there /\ read.first = "hello" /\ wrote' = wrote + 1
      /\ UNCHANGED <<kind, session, there, subscribed, attached, reader, tx, read,
                     advertising, turn, opened, quiet, acted>>
  BY DEF Write
<1>2. /\ p \in Command /\ p.who = session /\ p.verb = v /\ 2 * p.line + p.half = wrote
      /\ p.half = wrote % 2
  BY PieceIs
<1>3. hush' \in BOOLEAN /\ (hush => hush') /\ (p.half = 1 /\ v = "announce" => hush')
  <2>1. hush' = (hush \/ (v = "announce" /\ wrote % 2 = 1))
    BY DEF Write
  <2>2. hush' <=> (hush \/ (v = "announce" /\ p.half = 1))
    BY <1>2, <2>1
  <2>3. hush' \in BOOLEAN
    BY <2>1 DEF WireTypeOK
  <2> QED BY <2>2, <2>3
<1>4. /\ rx \in Seq(Command) /\ Len(rx) \in Nat /\ wrote \in Nat /\ session \in Nat
      /\ wrote' \in Nat
  BY <1>1 DEF WireTypeOK
<1>5. attached
  BY <1>1 DEF LinkIsKnown
<1>6. kind = "air" => ~advertising
  BY <1>1 DEF LinkIsKnown
<1>7. session \in 1..session \/ session = 0
  BY <1>4
<1>8. RepliesGoOn'
  BY <1>1 DEF RepliesGoOn, WholeFrom
<1>9. WholeCommands'
  <2>1. clipped \subseteq clipped'
    BY DEF Write
  <2> QED BY <1>1, <2>1 DEF WholeCommands, Whole
<1>10. CASE Len(rx) < RxRoom
  <2>1. rx' = Append(rx, p) /\ clipped' = clipped
    BY <1>10 DEF Write
  <2> HIDE DEF p
  <2>2. /\ rx' \in Seq(Command) /\ Len(rx') = Len(rx) + 1 /\ DOMAIN rx = 1..Len(rx)
        /\ DOMAIN rx' = 1..(Len(rx) + 1)
        /\ \A i \in DOMAIN rx : rx'[i] = rx[i]
        /\ rx'[Len(rx) + 1] = p
        /\ \A i \in DOMAIN rx' : i \in DOMAIN rx \/ i = Len(rx) + 1
    BY <1>2, <1>4, <2>1, LongerBy
  <2>3. WireTypeOK'
    BY <1>1, <1>3, <1>4, <2>1, <2>2 DEF WireTypeOK
  <2>4. LinkIsKnown'
    BY <1>1, <1>6 DEF LinkIsKnown
  <2>5. SilenceIsMeant'
    <3>1. ASSUME NEW i \in DOMAIN rx', rx'[i].half = 1
          PROVE  there' /\ read'.first = "hello" /\ (rx'[i].verb = "announce" => hush')
      <4>1. CASE i \in DOMAIN rx
        BY <1>1, <1>3, <2>2, <3>1, <4>1 DEF SilenceIsMeant
      <4>2. CASE i = Len(rx) + 1
        BY <1>1, <1>2, <1>3, <2>2, <3>1, <4>2
      <4> QED BY <2>2, <4>1, <4>2
    <3> QED BY <1>1, <1>3, <1>5, <3>1 DEF SilenceIsMeant
  <2>6. StreamIsOwn'
    <3>1. Mine(rx)' /\ Mine(reader)'
      BY <1>1, <1>2, <2>2 DEF StreamIsOwn, Mine
    <3>2. ASSUME session \notin clipped
          PROVE  /\ Len(rx') <= wrote'
                 /\ \A i \in DOMAIN rx' : 2 * rx'[i].line + rx'[i].half = (wrote' - Len(rx')) + i - 1
                 /\ InStep(reader, wrote' - Len(rx'))
      <4>1. /\ Len(rx) <= wrote
            /\ \A i \in DOMAIN rx : 2 * rx[i].line + rx[i].half = (wrote - Len(rx)) + i - 1
            /\ InStep(reader, wrote - Len(rx))
        BY <1>1, <3>2 DEF StreamIsOwn
      <4>2. wrote' - Len(rx') = wrote - Len(rx) /\ Len(rx') <= wrote'
        <5>1. wrote' = wrote + 1 /\ Len(rx') = Len(rx) + 1 /\ wrote \in Nat /\ Len(rx) \in Nat /\ Len(rx) <= wrote
          BY <1>1, <1>4, <2>2, <4>1
        <5>2. \A m \in Nat, n \in Nat : n <= m => (m + 1) - (n + 1) = m - n /\ n + 1 <= m + 1
          OBVIOUS
        <5> QED BY <5>1, <5>2, Zenon
      <4>3. ASSUME NEW i \in DOMAIN rx'
            PROVE  2 * rx'[i].line + rx'[i].half = (wrote - Len(rx)) + i - 1
        <5>1. CASE i \in DOMAIN rx
          BY <2>2, <4>1, <5>1
        <5>2. CASE i = Len(rx) + 1
          <6>1. (wrote - Len(rx)) + i - 1 = wrote
            BY <1>4, <5>2
          <6> QED BY <1>2, <2>2, <5>2, <6>1
        <5> QED BY <2>2, <5>1, <5>2
      <4> QED BY <4>1, <4>2, <4>3
    <3>3. InStep(reader, wrote' - Len(rx')) => InStep(reader', wrote' - Len(rx'))
      BY <1>1 DEF InStep
    <3> QED BY <1>1, <2>1, <3>1, <3>2, <3>3 DEF StreamIsOwn, Mine, InStep
  <2> QED BY <1>8, <1>9, <2>3, <2>4, <2>5, <2>6
<1>11. CASE ~(Len(rx) < RxRoom)
  <2>1. rx' = rx /\ clipped' = clipped \cup {session}
    BY <1>11 DEF Write
  <2>2. session \in 1..session
    <3>1. session # 0
      BY <1>1 DEF LinkIsKnown
    <3> QED BY <1>4, <3>1
  <2>3. WireTypeOK'
    BY <1>1, <1>3, <1>4, <2>1, <2>2 DEF WireTypeOK
  <2>4. LinkIsKnown'
    BY <1>1, <1>6 DEF LinkIsKnown
  <2>5. SilenceIsMeant'
    BY <1>1, <1>3, <1>5, <2>1 DEF SilenceIsMeant
  <2>6. StreamIsOwn'
    BY <1>1, <2>1 DEF StreamIsOwn, Mine
  <2> QED BY <1>8, <1>9, <2>3, <2>4, <2>5, <2>6
<1> QED BY <1>10, <1>11

LEMMA FedNothing == ASSUME NEW buf PROVE feed(buf, <<>>).lines = <<>> /\ feed(buf, <<>>).buf = buf
<1> DEFINE start == [lines |-> <<>>, buf |-> buf]
<1>1. Len(<<>>) = 0 /\ 0 \in Nat
  OBVIOUS
<1>2. PICK f : InTurn("got", start, <<>>, 0, f) /\ feed(buf, <<>>) = f[0]
  BY <1>1, FeedTurns
<1>3. f[0] = start
  BY <1>2 DEF InTurn
<1> QED BY <1>2, <1>3

\* What the reader hands on: lines of a host that is there, whole unless the
\* ring lost something of it.
Handed(lines, buf) ==
    /\ lines \in Seq(Seq(Command)) /\ buf \in Seq(Command)
    /\ \A i \in DOMAIN lines :
          /\ there /\ read.first = "hello"
          /\ lines[i] # <<>> /\ Mine(lines[i])
          /\ lines[i][Len(lines[i])].verb = "announce" => hush
          /\ session \notin clipped => Whole(lines[i])
    /\ read.first = "hello" => Mine(buf)
    /\ read.first = "hello" /\ session \notin clipped => InStep(buf, wrote)
    /\ there /\ attached /\ read.first = "none" => buf = <<>>

LEMMA ReaderHands == ASSUME WireInv PROVE Handed(feed(reader, rx).lines, feed(reader, rx).buf)
<1> USE DEF WireInv
<1> DEFINE own == read.first = "hello"
           clean == own /\ session \notin clipped
           base == IF clean THEN wrote - Len(rx) ELSE 0
           got == feed(reader, rx)
<1>1. rx \in Seq(Command) /\ reader \in Seq(Command) /\ wrote \in Nat /\ Len(rx) \in Nat
  BY DEF WireTypeOK
<1>2. own \in BOOLEAN /\ clean \in BOOLEAN /\ (clean => own)
  OBVIOUS
<1>3. own => Mine(reader) /\ Mine(rx)
  BY DEF StreamIsOwn
<1>4. clean => /\ Len(rx) <= wrote /\ InStep(reader, wrote - Len(rx))
               /\ \A i \in DOMAIN rx : 2 * rx[i].line + rx[i].half = (wrote - Len(rx)) + i - 1
  BY DEF StreamIsOwn
<1>5. /\ base \in Nat
      /\ clean => base = wrote - Len(rx) /\ base + Len(rx) = wrote
  BY <1>1, <1>4
<1>6. clean => InStep(reader, base)
  BY <1>4, <1>5
<1>7. clean => \A i \in DOMAIN rx : 2 * rx[i].line + rx[i].half = base + i - 1
  BY <1>4, <1>5
<1> HIDE DEF own, clean, base
<1>8. Received(feed(reader, rx), own, clean, rx, base + Len(rx))
  BY <1>1, <1>2, <1>3, <1>5, <1>6, <1>7, Feeding
<1>9. Received(got, own, clean, rx, base + Len(rx))
  BY <1>8
<1>10. there /\ attached /\ read.first = "none" => got.buf = <<>>
  <2>1. there /\ attached /\ read.first = "none" => rx = <<>> /\ reader = <<>>
    BY DEF StreamIsOwn
  <2> QED BY <2>1, FedNothing
<1> HIDE DEF got
<1>11. /\ got.buf \in Seq(Command) /\ got.lines \in Seq(Seq(Command))
       /\ \A i \in DOMAIN got.lines : EndsIn(got.lines[i], rx)
       /\ own => Mine(got.buf) /\ \A i \in DOMAIN got.lines : Mine(got.lines[i])
       /\ clean => InStep(got.buf, base + Len(rx)) /\ \A i \in DOMAIN got.lines : Whole(got.lines[i])
  BY <1>9 DEF Received
<1>12. ASSUME NEW i \in DOMAIN got.lines
       PROVE  /\ there /\ read.first = "hello" /\ got.lines[i] # <<>>
              /\ got.lines[i][Len(got.lines[i])].verb = "announce" => hush
  <2>1. EndsIn(got.lines[i], rx)
    BY <1>11
  <2>2. got.lines[i] # <<>>
    BY <2>1 DEF EndsIn
  <2>3. PICK j \in DOMAIN rx : rx[j] = got.lines[i][Len(got.lines[i])] /\ rx[j].half = 1
    BY <2>1 DEF EndsIn
  <2>4. there /\ read.first = "hello" /\ (rx[j].verb = "announce" => hush)
    BY <2>3 DEF SilenceIsMeant
  <2> QED BY <2>2, <2>3, <2>4
<1>13. ASSUME read.first = "hello" PROVE Mine(got.buf) /\ \A i \in DOMAIN got.lines : Mine(got.lines[i])
  BY <1>11, <1>13 DEF own
<1>14. ASSUME read.first = "hello", session \notin clipped
       PROVE  InStep(got.buf, wrote) /\ \A i \in DOMAIN got.lines : Whole(got.lines[i])
  <2>1. clean
    BY <1>14 DEF clean, own
  <2> QED BY <1>5, <1>11, <2>1
<1>15. \A i \in DOMAIN got.lines :
          /\ there /\ read.first = "hello"
          /\ got.lines[i] # <<>> /\ Mine(got.lines[i])
          /\ got.lines[i][Len(got.lines[i])].verb = "announce" => hush
          /\ session \notin clipped => Whole(got.lines[i])
  BY <1>12, <1>13, <1>14
<1>16. Handed(got.lines, got.buf)
  BY <1>10, <1>11, <1>13, <1>14, <1>15 DEF Handed
<1> QED BY <1>16 DEF got

LEMMA DrainKeeps ==
    ASSUME WireInv, ~Hasty, NEW lines, NEW buf, Handed(lines, buf),
           reader' = buf, Handle(lines, tx, read), rx' = <<>>, turn' = "idle",
           UNCHANGED <<kind, session, there, subscribed, wrote, hush, clipped, attached, advertising, opened>>
    PROVE  WireInv'
<1> USE EmptyIs DEF WireInv
<1> DEFINE silence == \E i \in DOMAIN lines : Whole(lines[i]) /\ lines[i][2].verb = "announce"
<1>1. lines \in Seq(Seq(Command)) /\ buf \in Seq(Command)
  BY DEF Handed
<1>2. /\ quiet' = (quiet \/ silence)
      /\ tx' = IF attached THEN SentTx(tx, OkTo(lines)) ELSE tx
      /\ read' = IF attached THEN SentAir(read, OkTo(lines)) ELSE read
      /\ acted' = IF lines = <<>> THEN acted
                  ELSE IF \E i \in DOMAIN lines : ~Whole(lines[i])
                  THEN lines[CHOOSE i \in DOMAIN lines : ~Whole(lines[i])] ELSE lines[1]
  BY DEF Handle, OkTo
<1>3. silence => there /\ attached /\ hush
  <2> SUFFICES ASSUME silence PROVE there /\ attached /\ hush
    OBVIOUS
  <2>1. PICK i \in DOMAIN lines : Whole(lines[i]) /\ lines[i][2].verb = "announce"
    OBVIOUS
  <2>2. lines[i][Len(lines[i])].verb = "announce"
    BY <2>1 DEF Whole
  <2>3. there /\ read.first = "hello" /\ hush
    BY <2>2 DEF Handed
  <2> QED BY <2>3 DEF LinkIsKnown
<1>4. quiet' \in BOOLEAN /\ (quiet' => quiet \/ (there /\ attached /\ hush))
  <2> HIDE DEF silence
  <2>1. quiet \in BOOLEAN
    BY DEF WireTypeOK
  <2> QED BY <1>2, <1>3, <2>1
<1> HIDE DEF silence
<1>5. \/ read' = read
      \/ attached /\ kind = "air" /\ there /\ Greeted(read) /\ Greeted(read')
  <2>1. CASE attached /\ kind = "air" /\ there
    <3>1. subscribed /\ Greeted(read)
      BY <2>1 DEF LinkIsKnown, RepliesGoOn, Greeted, WireTypeOK
    <3>2. Greeted(SentAir(read, OkTo(lines)))
      BY <1>1, <2>1, <3>1, AnswersHeard
    <3> QED BY <1>2, <2>1, <3>1, <3>2
  <2>2. CASE ~(attached /\ kind = "air" /\ there)
    <3>1. attached => SentAir(read, OkTo(lines)) = read
      BY <1>1, <2>2, AnswersHeard
    <3> QED BY <1>2, <3>1
  <2> QED BY <2>1, <2>2
<1>6. read' \in Reading /\ read'.first = read.first /\ ~read'.torn /\ (read'.begun <=> read.begun)
  <2>1. read \in Reading /\ ~read.torn
    BY DEF WireTypeOK, RepliesGoOn
  <2> QED BY <1>5, <2>1 DEF Greeted
<1>7. /\ there => WholeFrom(tx', read.begun) /\ StartsLike(tx', tx)
      /\ kind = "air" \/ ~there => tx' = tx
  <2>1. there => WholeFrom(tx, read.begun) /\ read.begun \in BOOLEAN
    BY DEF RepliesGoOn, WireTypeOK, Reading
  <2>2. StartsLike(tx, tx)
    BY DEF StartsLike
  <2>3. attached /\ there => WholeFrom(SentTx(tx, OkTo(lines)), read.begun) /\ StartsLike(SentTx(tx, OkTo(lines)), tx)
    BY <1>1, <2>1, AnswersRinged
  <2>4. kind = "air" \/ ~there => SentTx(tx, OkTo(lines)) = tx
    <3>1. Len(OkTo(lines)) \in Nat
      BY <1>1, AnswersAre
    <3> QED BY <3>1, SentTxTurns
  <2> QED BY <1>2, <2>1, <2>2, <2>3, <2>4
<1>8. acted' \in Seq(Command) /\ (acted' = acted \/ Whole(acted') \/ \E i \in DOMAIN acted' : acted'[i].who \in clipped)
  <2>1. acted \in Seq(Command)
    BY DEF WireTypeOK
  <2>2. CASE lines = <<>>
    BY <1>2, <2>1, <2>2
  <2>3. CASE lines # <<>> /\ \A i \in DOMAIN lines : Whole(lines[i])
    <3>1. 1 \in DOMAIN lines
      BY <1>1, <2>3
    <3>2. acted' = lines[1]
      BY <1>2, <2>3
    <3>3. lines[1] \in Seq(Command)
      BY <1>1, <3>1
    <3> QED BY <2>3, <3>1, <3>2, <3>3
  <2>4. CASE lines # <<>> /\ ~\A i \in DOMAIN lines : Whole(lines[i])
    <3>1. PICK i \in DOMAIN lines : acted' = lines[i] /\ ~Whole(lines[i])
      BY <1>2, <2>4
    <3>2. lines[i] \in Seq(Command)
      BY <1>1
    <3>3. session \in clipped /\ lines[i] # <<>> /\ Mine(lines[i])
      BY <3>1 DEF Handed
    <3>4. 1 \in DOMAIN lines[i]
      BY <3>2, <3>3
    <3>5. lines[i][1].who = session
      BY <3>3, <3>4 DEF Mine
    <3> QED BY <3>1, <3>2, <3>3, <3>4, <3>5
  <2> QED BY <2>2, <2>3, <2>4
<1>9. WireTypeOK'
  <2>1. tx' \in Seq(Reply)
    <3>1. there => tx' \in Seq(Reply)
      BY <1>7 DEF WholeFrom
    <3>2. tx \in Seq(Reply)
      BY DEF WireTypeOK
    <3> QED BY <1>7, <3>1, <3>2
  <2> QED BY <1>1, <1>4, <1>6, <1>8, <2>1 DEF WireTypeOK
<1>10. LinkIsKnown'
  <2>1. attached \/ tx' = tx
    BY <1>2
  <2> QED BY <1>6, <1>7, <2>1 DEF LinkIsKnown
<1>11. SilenceIsMeant'
  BY <1>4 DEF SilenceIsMeant
<1>12. StreamIsOwn'
  <2>1. /\ wrote' > 0 => read'.first = "hello"
        /\ there' /\ attached' /\ read'.first = "none" => reader' = <<>>
        /\ read'.first = "hello" => Mine(buf)
    BY <1>6 DEF StreamIsOwn, Handed
  <2>2. Mine(<<>>)' /\ (Mine(buf) => Mine(reader)')
    BY DEF Mine
  <2>3. ASSUME read'.first = "hello", session' \notin clipped'
        PROVE  /\ Len(rx') <= wrote' /\ InStep(reader', wrote' - Len(rx'))
               /\ \A i \in DOMAIN rx' : 2 * rx'[i].line + rx'[i].half = (wrote' - Len(rx')) + i - 1
    <3>1. InStep(buf, wrote)
      BY <1>6, <2>3 DEF Handed
    <3>2. wrote \in Nat /\ Len(rx') = 0 /\ wrote' = wrote /\ wrote' - Len(rx') = wrote
      BY DEF WireTypeOK
    <3> QED BY <3>1, <3>2
  <2>4. InStep(reader', wrote' - Len(rx')) => InStep(reader, wrote - Len(rx))'
    BY DEF InStep
  <2>5. Mine(rx)'
    BY <2>2 DEF Mine
  <2> QED BY <2>1, <2>2, <2>3, <2>4, <2>5 DEF StreamIsOwn
<1>13. RepliesGoOn'
  <2>1. there' => WholeFrom(tx, read.begun)'
    <3>1. there => WholeFrom(tx', read'.begun)
      BY <1>6, <1>7 DEF WholeFrom
    <3> QED BY <3>1 DEF WholeFrom
  <2>2. kind' = "usb" /\ there' /\ attached' /\ read'.first = "none" => tx' # <<>> /\ tx'[1].of = "hello"
    BY <1>6, <1>7 DEF RepliesGoOn, StartsLike
  <2> QED BY <1>6, <2>1, <2>2 DEF RepliesGoOn
<1>14. WholeCommands'
  BY <1>8 DEF WholeCommands, Whole
<1> QED BY <1>9, <1>10, <1>11, <1>12, <1>13, <1>14

LEMMA DrainUsbKeeps == ASSUME WireInv, ~Hasty, drain_usb PROVE WireInv'
<1>1. /\ reader' = feed(reader, rx).buf /\ Handle(feed(reader, rx).lines, tx, read)
      /\ rx' = <<>> /\ kind = "usb" /\ turn' = turn
      /\ UNCHANGED <<kind, session, there, subscribed, wrote, hush, clipped, attached, advertising, opened>>
  BY DEF drain_usb
<1>2. turn' = "idle"
  BY <1>1 DEF WireInv, LinkIsKnown
<1> QED BY <1>1, <1>2, ReaderHands, DrainKeeps

LEMMA DrainAirKeeps == ASSUME WireInv, ~Hasty, drain_air PROVE WireInv'
<1>1. /\ reader' = feed(reader, rx).buf /\ Handle(feed(reader, rx).lines, tx, read)
      /\ rx' = <<>> /\ turn' = "idle"
      /\ UNCHANGED <<kind, session, there, subscribed, wrote, hush, clipped, attached, advertising, opened>>
  BY DEF drain_air
<1> QED BY <1>1, ReaderHands, DrainKeeps

LEMMA PollKeeps == ASSUME WireInv, ~Hasty, poll_control PROVE WireInv'
<1> USE EmptyIs DEF WireInv
<1>1. /\ kind = "usb" /\ there # attached /\ attached' = there
      /\ UNCHANGED <<kind, session, there, subscribed, wrote, hush, rx, clipped, advertising, turn, acted>>
  BY DEF poll_control
<1>2. /\ there \in BOOLEAN /\ attached \in BOOLEAN /\ opened \in Nat /\ read \in Reading
      /\ session \in Nat /\ wrote \in Nat
  BY DEF WireTypeOK
<1>3. WholeCommands'
  BY <1>1 DEF WholeCommands, Whole
<1>4. CASE there
  <2>1. rx = <<>> /\ ~attached /\ reader' = <<>> /\ peer_opened(<<>>)
    BY <1>1, <1>4 DEF poll_control, NewReader
  <2>2. opened = 0 /\ read.first = "none" /\ ~quiet /\ (read.begun <=> FALSE)
    BY <1>2, <1>4, <2>1 DEF LinkIsKnown, SilenceIsMeant, RepliesGoOn, Reading
  <2>3. opened' = 1 /\ quiet' = quiet /\ tx' = SentTx(<<>>, <<Line("hello")>>) /\ read' = SentAir(read, <<Line("hello")>>)
    BY <2>1, <2>2 DEF peer_opened
  <2>4. read' = read
    BY <1>1, <2>3, OneSentAir
  <2>5. tx' = Ringed(<<>>, Line("hello"))
    BY <1>1, <1>4, <2>3, OneSentTx
  <2>6. WholeFrom(tx', FALSE) /\ tx' = Line("hello")
    BY <2>5, RingedIs DEF Said
  <2>7. tx' \in Seq(Reply) /\ tx' # <<>> /\ tx'[1].of = "hello"
    BY <2>6, LineIs DEF Said
  <2>8. WireTypeOK'
    BY <1>1, <2>1, <2>3, <2>4, <2>7 DEF WireTypeOK
  <2>9. LinkIsKnown'
    BY <1>1, <1>4, <2>1, <2>3, <2>4 DEF LinkIsKnown
  <2>10. SilenceIsMeant'
    BY <1>1, <2>1, <2>2, <2>3 DEF SilenceIsMeant
  <2>11. StreamIsOwn'
    BY <1>1, <2>1, <2>2, <2>4 DEF StreamIsOwn
  <2>12. RepliesGoOn'
    <3>1. WholeFrom(tx, read.begun)'
      BY <2>2, <2>4, <2>6 DEF WholeFrom
    <3> QED BY <1>1, <2>4, <2>7, <3>1 DEF RepliesGoOn
  <2> QED BY <1>3, <2>8, <2>9, <2>10, <2>11, <2>12
<1>5. CASE ~there
  <2>1. attached /\ peer_closed /\ reader' = reader
    BY <1>1, <1>2, <1>5 DEF poll_control
  <2>2. opened = 1 /\ tx = <<>>
    BY <1>5, <2>1 DEF LinkIsKnown
  <2>3. opened' = 0 /\ quiet' = FALSE /\ tx' = tx /\ read' = read
    BY <2>1, <2>2 DEF peer_closed
  <2>4. WireTypeOK'
    BY <1>1, <2>1, <2>3 DEF WireTypeOK
  <2>5. LinkIsKnown'
    BY <1>1, <1>5, <2>2, <2>3 DEF LinkIsKnown
  <2>6. SilenceIsMeant'
    BY <1>1, <2>3 DEF SilenceIsMeant
  <2>7. StreamIsOwn'
    BY <1>1, <1>5, <2>1, <2>3 DEF StreamIsOwn, Mine, InStep
  <2>8. RepliesGoOn'
    BY <1>1, <1>5, <2>3 DEF RepliesGoOn
  <2> QED BY <1>3, <2>4, <2>5, <2>6, <2>7, <2>8
<1> QED BY <1>4, <1>5

LEMMA SettleKeeps == ASSUME WireInv, ~Hasty, settle PROVE WireInv'
<1> USE EmptyIs DEF WireInv
<1>1. /\ kind = "air" /\ turn = "idle" /\ turn' = "feed"
      /\ attached' = (there /\ subscribed) /\ advertising' = (advertising \/ ~there)
      /\ UNCHANGED <<kind, session, there, subscribed, wrote, hush, rx, clipped, acted>>
  BY DEF settle, CanTalk
<1>2. /\ there \in BOOLEAN /\ attached \in BOOLEAN /\ opened \in Nat /\ read \in Reading
      /\ session \in Nat /\ wrote \in Nat /\ subscribed \in BOOLEAN /\ advertising \in BOOLEAN
  BY DEF WireTypeOK
<1>3. WholeCommands'
  BY <1>1 DEF WholeCommands, Whole
<1>4. attached' \in BOOLEAN /\ advertising' \in BOOLEAN
  BY <1>1, <1>2
<1>5. tx = <<>> /\ (there => ~advertising) /\ (attached /\ there => subscribed)
  BY <1>1 DEF LinkIsKnown
<1>6. CASE there /\ subscribed /\ ~attached
  <2>1. attached' = TRUE /\ advertising' = FALSE /\ CanTalk # attached /\ CanTalk
    BY <1>1, <1>2, <1>5, <1>6 DEF CanTalk
  <2>2. reader' = <<>> /\ peer_opened(tx)
    BY <1>6, <2>1 DEF settle, NewReader
  <2>3. opened = 0 /\ read.first = "none" /\ ~quiet /\ ~read.begun /\ ~read.torn /\ rx = <<>> /\ wrote = 0
    BY <1>1, <1>2, <1>6 DEF LinkIsKnown, SilenceIsMeant, RepliesGoOn, StreamIsOwn
  <2>4. opened' = 1 /\ quiet' = quiet /\ tx' = SentTx(tx, <<Line("hello")>>) /\ read' = SentAir(read, <<Line("hello")>>)
    BY <2>2, <2>3 DEF peer_opened
  <2>5. tx' = <<>>
    BY <1>1, <1>5, <2>4, OneSentTx
  <2>6. read' = Took(Took(read, Line("hello")[1]), Line("hello")[2])
    BY <1>1, <1>6, <2>4, OneSentAir
  <2>7. Greeted(read')
    BY <1>2, <2>3, <2>6, TookLine DEF Said
  <2>8. read' \in Reading /\ (read'.begun <=> FALSE) /\ ~read'.torn /\ read'.first = "hello"
    BY <2>7 DEF Greeted
  <2>9. WireTypeOK'
    BY <1>1, <1>4, <2>2, <2>4, <2>5, <2>8 DEF WireTypeOK
  <2>10. LinkIsKnown'
    BY <1>1, <1>6, <2>1, <2>4, <2>5, <2>8 DEF LinkIsKnown
  <2>11. SilenceIsMeant'
    BY <1>1, <2>1, <2>3, <2>4 DEF SilenceIsMeant
  <2>12. StreamIsOwn'
    <3>0. rx' = <<>> /\ reader' = <<>> /\ wrote' = 0
      BY <1>1, <2>2, <2>3
    <3>1. Mine(rx)' /\ Mine(reader)' /\ Len(rx') = 0 /\ wrote' - Len(rx') = 0 /\ Len(rx') <= wrote' /\ DOMAIN rx' = {}
      <4>1. Len(rx') = 0 /\ DOMAIN rx' = {} /\ DOMAIN reader' = {}
        BY <3>0
      <4>2. Mine(rx)' /\ Mine(reader)'
        <5>1. Mine(<<>>)'
          BY DEF Mine
        <5> QED BY <3>0, <5>1 DEF Mine
      <4>3. wrote' - Len(rx') = 0 /\ Len(rx') <= wrote'
        <5>1. wrote' = 0 /\ Len(rx') = 0
          BY <3>0, <4>1
        <5>2. \A m, n : m = 0 /\ n = 0 => m - n = 0 /\ n <= m
          OBVIOUS
        <5> QED BY <5>1, <5>2, Zenon
      <4> QED BY <4>1, <4>2, <4>3
    <3>2. InStep(reader', wrote' - Len(rx'))
      BY <2>2, <3>1
    <3>3. InStep(reader, wrote - Len(rx))'
      BY <3>2 DEF InStep
    <3> QED BY <2>8, <3>1, <3>3 DEF StreamIsOwn
  <2>13. RepliesGoOn'
    <3>1. WholeFrom(tx', FALSE)
      BY <2>5
    <3>2. WholeFrom(tx, read.begun)'
      BY <2>8, <3>1 DEF WholeFrom
    <3> QED BY <1>1, <2>8, <3>2 DEF RepliesGoOn
  <2> QED BY <1>3, <2>9, <2>10, <2>11, <2>12, <2>13
<1>7. CASE attached /\ ~there
  <2>1. attached' = FALSE /\ CanTalk # attached /\ ~CanTalk
    BY <1>1, <1>7 DEF CanTalk
  <2>2. reader' = reader /\ peer_closed
    BY <1>7, <2>1 DEF settle
  <2>3. opened = 1
    BY <1>7 DEF LinkIsKnown
  <2>4. opened' = 0 /\ quiet' = FALSE /\ tx' = tx /\ read' = read
    BY <2>2, <2>3 DEF peer_closed
  <2>5. WireTypeOK'
    BY <1>1, <1>4, <2>2, <2>4 DEF WireTypeOK
  <2>6. LinkIsKnown'
    BY <1>1, <1>5, <1>7, <2>1, <2>4 DEF LinkIsKnown
  <2>7. SilenceIsMeant'
    BY <1>1, <2>4 DEF SilenceIsMeant
  <2>8. StreamIsOwn'
    BY <1>1, <1>7, <2>2, <2>4 DEF StreamIsOwn, Mine, InStep
  <2>9. RepliesGoOn'
    BY <1>1, <1>7, <2>4 DEF RepliesGoOn
  <2> QED BY <1>3, <2>5, <2>6, <2>7, <2>8, <2>9
<1>8. CASE attached <=> there /\ subscribed
  <2>1. attached' = attached /\ CanTalk = attached
    BY <1>1, <1>2, <1>8 DEF CanTalk
  <2>2. reader' = reader /\ opened' = opened /\ quiet' = quiet /\ tx' = tx /\ read' = read
    BY <2>1 DEF settle
  <2>3. WireTypeOK'
    BY <1>1, <1>4, <2>2 DEF WireTypeOK
  <2>4. LinkIsKnown'
    <3>1. kind' = "air" /\ advertising' => ~there' /\ ~attached'
      BY <1>1, <1>2, <1>5, <1>8, <2>1
    <3>2. (attached' <=> attached) /\ turn' # "idle" /\ kind' # "usb"
      BY <1>1, <2>1
    <3> QED BY <1>1, <2>2, <3>1, <3>2 DEF LinkIsKnown
  <2>5. SilenceIsMeant'
    BY <1>1, <2>1, <2>2 DEF SilenceIsMeant
  <2>6. StreamIsOwn'
    BY <1>1, <2>1, <2>2 DEF StreamIsOwn, Mine, InStep
  <2>7. RepliesGoOn'
    BY <1>1, <2>1, <2>2 DEF RepliesGoOn, WholeFrom
  <2> QED BY <1>3, <2>3, <2>4, <2>5, <2>6, <2>7
<1> QED BY <1>2, <1>5, <1>6, <1>7, <1>8

LEMMA RestOfLine ==
    ASSUME NEW t, t # <<>>, NEW begun \in BOOLEAN, WholeFrom(t, begun)
    PROVE  /\ Head(t) \in Reply /\ Head(t) = t[1] /\ (begun <=> Head(t).half = 1)
           /\ WholeFrom(Tail(t), Head(t).half = 0)
<1> DEFINE rest == Tail(t)
           n == Len(t)
<1>1. t \in Seq(Reply) /\ n \in Nat /\ n > 0 /\ t[n].half = 1 /\ (begun <=> t[1].half = 1)
  BY DEF WholeFrom
<1>2. Head(t) = t[1] /\ Head(t) \in Reply /\ rest \in Seq(Reply) /\ Len(rest) = n - 1
      /\ DOMAIN rest = 1..(n - 1) /\ \A i \in 1..(n - 1) : rest[i] = t[i + 1]
  BY <1>1
<1>3. \A i \in 1..n : i > 1 => t[i].half # t[i - 1].half
  BY <1>1 DEF WholeFrom
<1>4. Head(t).half \in {0, 1}
  BY <1>2 DEF Reply
<1>5. \A i \in 1..n : t[i].half \in {0, 1}
  <2>1. \A i \in 1..n : t[i] \in Reply
    BY <1>1
  <2> QED BY <2>1 DEF Reply
<1> HIDE DEF rest, n
<1>6. rest = <<>> => ~(Head(t).half = 0)
  <2>1. rest = <<>> => n = 1
    BY <1>1, <1>2
  <2> QED BY <1>1, <1>2, <2>1
<1>7. ASSUME rest # <<>> PROVE rest[Len(rest)].half = 1 /\ (Head(t).half = 0 <=> rest[1].half = 1)
  <2>1. n > 1
    BY <1>1, <1>2, <1>7
  <2>2. /\ 1 \in 1..(n - 1) /\ n - 1 \in 1..(n - 1) /\ 2 \in 1..n /\ (n - 1) + 1 = n /\ 2 - 1 = 1 /\ 1 + 1 = 2
        /\ 1 \in 1..n
    BY <1>1, <2>1
  <2>3. rest[Len(rest)] = t[n] /\ rest[1] = t[2]
    BY <1>2, <2>2
  <2>4. t[2].half # t[1].half /\ t[2].half \in {0, 1}
    BY <1>3, <1>5, <2>2
  <2> QED BY <1>1, <1>2, <1>4, <2>3, <2>4
<1>8. ASSUME NEW i \in DOMAIN rest, i > 1 PROVE rest[i].half # rest[i - 1].half
  <2>1. i \in 1..(n - 1) /\ i - 1 \in 1..(n - 1) /\ i + 1 \in 1..n /\ i + 1 > 1
        /\ (i - 1) + 1 = i /\ (i + 1) - 1 = i
    BY <1>1, <1>2, <1>8
  <2>2. rest[i] = t[i + 1] /\ rest[i - 1] = t[i]
    BY <1>2, <2>1
  <2>3. t[i + 1].half # t[i].half
    BY <1>3, <2>1
  <2> QED BY <2>2, <2>3
<1>9. WholeFrom(rest, Head(t).half = 0)
  BY <1>2, <1>6, <1>7, <1>8 DEF WholeFrom
<1> QED BY <1>1, <1>2, <1>9 DEF rest

LEMMA TransmitKeeps == ASSUME WireInv, Transmit PROVE WireInv'
<1> USE EmptyIs DEF WireInv
<1> DEFINE p == Head(tx)
<1>1. /\ tx # <<>> /\ there /\ read' = Took(read, p) /\ tx' = Tail(tx)
      /\ UNCHANGED <<kind, session, there, subscribed, wrote, hush, rx, clipped, attached, reader,
                     advertising, turn, opened, quiet, acted>>
  BY DEF Transmit
<1>2. kind = "usb" /\ attached
  BY <1>1 DEF LinkIsKnown, WireTypeOK
<1>3. read \in Reading /\ read.begun \in BOOLEAN /\ read.torn \in BOOLEAN
  BY DEF WireTypeOK, Reading
<1>4. WholeFrom(tx, read.begun)
  BY <1>1 DEF RepliesGoOn
<1>5. p \in Reply /\ p = tx[1] /\ (read.begun <=> p.half = 1) /\ WholeFrom(Tail(tx), p.half = 0)
  BY <1>1, <1>3, <1>4, RestOfLine
<1>6. read.first = "none" => p.of = "hello"
  BY <1>1, <1>2, <1>5 DEF RepliesGoOn
<1> HIDE DEF p
<1>7. read'.first = "hello" /\ (read'.begun <=> p.half = 0) /\ (read'.torn <=> FALSE)
  <2>1. read'.first = IF read.first = "none" THEN p.of ELSE read.first
    BY <1>1 DEF Took
  <2>2. read'.begun = (p.half = 0) /\ read'.torn = (read.torn \/ (read.begun # (p.half = 1)))
    BY <1>1 DEF Took
  <2>3. read.first \in {"none", "hello"} /\ ~read.torn
    BY DEF RepliesGoOn
  <2> QED BY <1>3, <1>5, <1>6, <2>1, <2>2, <2>3
<1>8. read' \in Reading
  <2>1. read' = [first |-> read'.first, begun |-> read'.begun, torn |-> read'.torn]
    BY <1>1 DEF Took
  <2>2. read'.begun \in BOOLEAN /\ read'.torn \in BOOLEAN
    BY <1>1, <1>3 DEF Took
  <2> QED BY <1>7, <2>1, <2>2 DEF Reading, Said
<1>9. WholeFrom(tx', p.half = 0) /\ tx' \in Seq(Reply)
  BY <1>1, <1>5 DEF WholeFrom
<1>10. WireTypeOK'
  BY <1>1, <1>8, <1>9 DEF WireTypeOK
<1>11. LinkIsKnown'
  BY <1>1, <1>2 DEF LinkIsKnown
<1>12. SilenceIsMeant'
  BY <1>1, <1>7 DEF SilenceIsMeant
<1>13. StreamIsOwn'
  <2>1. CASE read.first = "hello"
    BY <1>1, <1>7, <2>1 DEF StreamIsOwn, Mine, InStep
  <2>2. CASE read.first = "none"
    <3>0. rx = <<>> /\ reader = <<>> /\ wrote = 0
      BY <1>1, <1>2, <2>2 DEF StreamIsOwn, WireTypeOK
    <3>1. rx' = <<>> /\ reader' = <<>> /\ wrote' = 0
      BY <1>1, <3>0
    <3>2. Mine(rx)' /\ Mine(reader)' /\ Len(rx') = 0 /\ wrote' - Len(rx') = 0 /\ Len(rx') <= wrote' /\ DOMAIN rx' = {}
      <4>1. Len(rx') = 0 /\ DOMAIN rx' = {} /\ DOMAIN reader' = {}
        BY <3>1
      <4>2. Mine(rx)' /\ Mine(reader)'
        <5>1. Mine(<<>>)'
          BY DEF Mine
        <5> QED BY <3>1, <5>1 DEF Mine
      <4>3. wrote' - Len(rx') = 0 /\ Len(rx') <= wrote'
        <5>1. wrote' = 0 /\ Len(rx') = 0
          BY <3>1, <4>1
        <5>2. \A m, n : m = 0 /\ n = 0 => m - n = 0 /\ n <= m
          OBVIOUS
        <5> QED BY <5>1, <5>2, Zenon
      <4> QED BY <4>1, <4>2, <4>3
    <3>3. InStep(reader', wrote' - Len(rx'))
      BY <1>1, <3>1, <3>2
    <3>4. InStep(reader, wrote - Len(rx))'
      BY <3>3 DEF InStep
    <3> QED BY <1>7, <3>2, <3>4 DEF StreamIsOwn
  <2> QED BY <2>1, <2>2 DEF RepliesGoOn
<1>14. RepliesGoOn'
  <2>1. WholeFrom(tx, read.begun)'
    BY <1>7, <1>9 DEF WholeFrom
  <2> QED BY <1>1, <1>2, <1>7, <2>1 DEF RepliesGoOn
<1>15. WholeCommands'
  BY <1>1 DEF WholeCommands, Whole
<1> QED BY <1>10, <1>11, <1>12, <1>13, <1>14, <1>15

LEMMA AnnounceKeeps == ASSUME WireInv, ~Hasty, Announce PROVE WireInv'
<1> USE EmptyIs DEF WireInv
<1>1. /\ opened > 0 /\ tx' = SentTx(tx, <<Line("device")>>) /\ read' = SentAir(read, <<Line("device")>>)
      /\ UNCHANGED <<kind, session, there, subscribed, wrote, hush, rx, clipped, attached, reader,
                     advertising, turn, opened, quiet, acted>>
  BY DEF Announce
<1>2. attached
  BY <1>1 DEF LinkIsKnown
<1>3. read \in Reading /\ read.begun \in BOOLEAN /\ ~read.torn /\ tx \in Seq(Reply)
  BY DEF WireTypeOK, RepliesGoOn, Reading
<1>4. read' \in Reading /\ read'.first = read.first /\ ~read'.torn /\ (read'.begun <=> read.begun)
  <2>1. CASE kind = "air" /\ there /\ subscribed
    <3>1. read' = Took(Took(read, Line("device")[1]), Line("device")[2])
      BY <1>1, <2>1, OneSentAir
    <3>2. ~read.begun /\ read.first = "hello"
      BY <1>2, <2>1 DEF LinkIsKnown, RepliesGoOn
    <3>3. Greeted(read')
      BY <1>3, <3>1, <3>2, TookLine DEF Said
    <3> QED BY <3>2, <3>3 DEF Greeted
  <2>2. CASE ~(kind = "air" /\ there /\ subscribed)
    BY <1>1, <1>3, <2>2, OneSentAir
  <2> QED BY <2>1, <2>2
<1>5. /\ there => WholeFrom(tx', read.begun) /\ StartsLike(tx', tx)
      /\ kind = "air" \/ ~there => tx' = tx
  <2>1. CASE kind = "usb" /\ there
    <3>1. tx' = Ringed(tx, Line("device")) /\ WholeFrom(tx, read.begun)
      BY <1>1, <2>1, OneSentTx DEF RepliesGoOn
    <3> QED BY <1>3, <2>1, <3>1, RingedIs DEF Said
  <2>2. CASE ~(kind = "usb" /\ there)
    <3>1. tx' = tx
      BY <1>1, <2>2, OneSentTx
    <3>2. there => WholeFrom(tx, read.begun)
      BY DEF RepliesGoOn
    <3> QED BY <2>2, <3>1, <3>2 DEF StartsLike
  <2> QED BY <2>1, <2>2
<1>6. WireTypeOK'
  <2>1. tx' \in Seq(Reply)
    <3>1. there => tx' \in Seq(Reply)
      BY <1>5 DEF WholeFrom
    <3> QED BY <1>3, <1>5, <3>1
  <2> QED BY <1>1, <1>4, <2>1 DEF WireTypeOK
<1>7. LinkIsKnown'
  BY <1>1, <1>2, <1>4, <1>5 DEF LinkIsKnown
<1>8. SilenceIsMeant'
  BY <1>1, <1>4 DEF SilenceIsMeant
<1>9. StreamIsOwn'
  BY <1>1, <1>4 DEF StreamIsOwn, Mine, InStep
<1>10. RepliesGoOn'
  <2>1. there' => WholeFrom(tx, read.begun)'
    <3>1. there => WholeFrom(tx', read'.begun)
      BY <1>4, <1>5 DEF WholeFrom
    <3> QED BY <1>1, <3>1 DEF WholeFrom
  <2>2. kind' = "usb" /\ there' /\ attached' /\ read'.first = "none" => tx' # <<>> /\ tx'[1].of = "hello"
    BY <1>1, <1>4, <1>5 DEF RepliesGoOn, StartsLike
  <2> QED BY <1>1, <1>4, <2>1, <2>2 DEF RepliesGoOn
<1>11. WholeCommands'
  BY <1>1 DEF WholeCommands, Whole
<1> QED BY <1>6, <1>7, <1>8, <1>9, <1>10, <1>11

LEMMA WireStepKeeps == ASSUME ~Hasty, WireInv, [WireNext]_wireVars PROVE WireInv'
<1>1. CASE WireNext
  BY <1>1, AttachKeeps, SubscribeKeeps, LeaveKeeps, WriteKeeps, PollKeeps, DrainUsbKeeps, TransmitKeeps,
     SettleKeeps, DrainAirKeeps, AnnounceKeeps DEF WireNext
<1>2. CASE UNCHANGED wireVars
  <2>1. UNCHANGED <<kind, session, there, subscribed, wrote, hush, rx, clipped, attached, reader, tx, read,
                    advertising, turn, opened, quiet, acted>>
    BY <1>2 DEF wireVars
  <2>2. WireTypeOK' /\ LinkIsKnown' /\ SilenceIsMeant'
    BY <2>1 DEF WireInv, WireTypeOK, LinkIsKnown, SilenceIsMeant
  <2>3. StreamIsOwn'
    BY <2>1 DEF WireInv, StreamIsOwn, Mine, InStep
  <2>4. RepliesGoOn' /\ WholeCommands'
    BY <2>1 DEF WireInv, RepliesGoOn, WholeFrom, WholeCommands, Whole
  <2> QED BY <2>2, <2>3, <2>4 DEF WireInv
<1> QED BY <1>1, <1>2

LEMMA TalksAreApart == ASSUME WireInv PROVE WholeCommands /\ WholeReplies /\ QuietIsPersonal
BY DEF WireInv, RepliesGoOn, LinkIsKnown, SilenceIsMeant, WholeReplies, QuietIsPersonal

-----------------------------------------------------------------------------
(* The firmware *)

\* Each part holds its own; the others do not touch it.
BoxInv == BootInv /\ LineInv /\ (~Hasty => WireInv)

LEMMA BoxStarts == ASSUME BoxInit PROVE BoxInv
<1>1. BootInit /\ WireInit /\ LineInit
  BY DEF BoxInit
<1> QED BY <1>1, BootStarts, WireStarts, LineStarts DEF BoxInv

LEMMA BoxStepKeeps == ASSUME BoxInv, [BoxNext]_boxVars PROVE BoxInv'
<1>1. [BootNext]_bootVars /\ [WireNext]_wireVars /\ [LineNext]_lineVars
  <2>1. CASE part = "boot" /\ BootNext /\ UNCHANGED <<part, wireVars, nameVars, lineVars>>
    BY <2>1
  <2>2. CASE part = "wire" /\ WireNext /\ UNCHANGED <<part, bootVars, nameVars, lineVars>>
    BY <2>2
  <2>3. CASE part = "names" /\ NameNext /\ UNCHANGED <<part, bootVars, wireVars, lineVars>>
    BY <2>3
  <2>4. CASE part = "socket" /\ LineNext /\ UNCHANGED <<part, bootVars, wireVars, nameVars>>
    BY <2>4
  <2>5. CASE UNCHANGED boxVars
    BY <2>5 DEF boxVars
  <2> QED BY <2>1, <2>2, <2>3, <2>4, <2>5 DEF BoxNext
<1>2. BootInv'
  BY <1>1, BootStepKeeps DEF BoxInv
<1>3. LineInv'
  BY <1>1, LineStepKeeps DEF BoxInv
<1>4. ASSUME ~Hasty PROVE WireInv'
  BY <1>1, <1>4, WireStepKeeps DEF BoxInv
<1> QED BY <1>2, <1>3, <1>4 DEF BoxInv

\* The parts keep their invariants side by side, each with the types of its
\* state: the boot guard's with the fault record (faultlog.cc), the socket's
\* with its lists (boxsock.cc), the wires' with their rings (cdcpeer.cc,
\* blepeer.cc).
THEOREM BoxInvariant == BoxSpec => []BoxInv
BY BoxStarts, BoxStepKeeps, PTL DEF BoxSpec

\* A box does not run again what killed it, waits in its bootloader only after
\* every attempt or because somebody asked, and blames its last run's end on what
\* really ended it (faultlog.cc, watchdog.cc): with any image, any number of
\* attempts, faults, wedges, power cycles and reflashes.
THEOREM RiskIsRunOnce == BoxSpec => [](RiskIsNotRepeated /\ BlameIsRight)
<1>1. BoxInv => RiskIsNotRepeated /\ BlameIsRight
  BY BootIsSafe DEF BoxInv
<1> QED BY <1>1, BoxInvariant, PTL

\* The daemon's list is the socket's, each console in it once, although one may be
\* found dead in the middle of the walk over it; and what is held for a console
\* that stops reading is bounded (boxsock.cc): for any number of consoles.
THEOREM ConsolesAreHeld == BoxSpec => [](PeersAreClients /\ HeldIsBounded)
<1>1. BoxInv => PeersAreClients /\ HeldIsBounded
  BY LineIsSafe DEF BoxInv
<1> QED BY <1>1, BoxInvariant, PTL

\* Over the cable and over the air, a command is carried out only if one host
\* sent the whole of it or the ring was too small for it, a host reads whole
\* lines from its greeting on, and silence is kept only for one that asked for
\* it (cdcpeer.cc, blepeer.cc): for rings of any size, any number of hosts and
\* lines, as long as a host reads its answers before it leaves.
THEOREM TalksAreSeparate ==
    ASSUME ~Hasty PROVE BoxSpec => [](WholeCommands /\ WholeReplies /\ QuietIsPersonal)
<1>1. BoxInv => WholeCommands /\ WholeReplies /\ QuietIsPersonal
  BY TalksAreApart DEF BoxInv
<1> QED BY <1>1, BoxInvariant, PTL

=============================================================================
