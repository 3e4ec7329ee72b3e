------------------------------ MODULE CamSync ------------------------------
(***************************************************************************)
(* The policy of src/src/camsync.cc from cycle to cycle: what is remembered*)
(* of a camera's clock, when to write it, when to look again, and what to  *)
(* make of a write that missed.  SyncD models the cycle around it and      *)
(* leaves the numbers out; here the cycle is reduced to its calls of the   *)
(* policy (SyncDaemon::evaluate, step_align, step_write, done_write, judge *)
(* and finish_cycle), and the numbers are in.                              *)
(*                                                                         *)
(* Errors are counted in ticks of which Second make one second; spans of   *)
(* time in units of their whose, in which a cycle takes none.  The monotonic *)
(* clock appears only in differences, so ages are kept instead of instants.*)
(***************************************************************************)
EXTENDS Integers

CONSTANTS
    Second, Tolerance, WriteTolerance, RestartStep,
    MaxBiasStep,         \* in seconds
    MaxAdapts, MaxFailures,
    Poll, MaxPoll, Slices, MinWriteInterval, MinDriftInterval,
    Frame,               \* the quantisation of a reading
    SlowestSpan,         \* the time one tick takes at min_assumed_ppm
    MaxLead,             \* how early a write may be sent
    MaxLate, MaxDelay,   \* how late the loop runs it and the camera applies it
    MaxSpan,             \* ages are counted up to this
    MaxError,            \* a clock walks no further from the bench than this
    Walks,               \* how far it walks in a wait
    Jumps,               \* errors of a clock that was set by others
    Quirks,              \* seconds a camera may land away from what is written
    MaxMeddling,         \* how often the camera is interfered with
    MaxHeld              \* for how many cycles an external source stays

Half == Second \div 2
Quarter == Second \div 4

ASSUME CamSyncAssumption ==
    /\ Second \in Nat \ {0} /\ Second = 4 * Quarter
    /\ Tolerance \in Nat /\ WriteTolerance \in Nat /\ RestartStep \in Nat
    /\ MaxBiasStep \in Nat /\ MaxAdapts \in Nat /\ MaxFailures \in Nat \ {0}
    /\ Poll \in Nat \ {0} /\ MaxPoll \in Nat /\ Poll <= MaxPoll
    /\ Slices \in Nat \ {0}
    /\ MinWriteInterval \in Nat /\ MinDriftInterval \in Nat \ {0}
    /\ Frame \in Nat \ {0} /\ SlowestSpan \in Nat
    /\ MaxLead \in 0..Half /\ MaxLate \in Nat /\ MaxLate < Half /\ MaxDelay \in Nat
    /\ MaxSpan \in Nat /\ MinDriftInterval <= MaxSpan /\ MinWriteInterval <= MaxSpan
    /\ MaxError \in Nat /\ Walks \subseteq Int /\ 0 \in Walks
    /\ Jumps \subseteq Int /\ Quirks \subseteq Int
    /\ MaxMeddling \in Nat /\ MaxHeld \in Nat

VARIABLES
    st,        \* state_: what is carried from cycle to cycle
    pc,        \* where the cycle is
    before,    \* cur_.report.error_before
    whose,     \* whose decision the write under way is
    wait,      \* what next_poll() said
    err,       \* the camera's error
    quirk,     \* how many seconds it lands away from what is written
    held,      \* for how many cycles more an external timecode source keeps it
    meddled,   \* how often it was interfered with
    quiet,     \* nothing interferes any more
    burst      \* the daemon's own writes since one that was no retry

clock == <<err, quirk, held, meddled, quiet>>
vars == <<st, pc, before, whose, wait, err, quirk, held, meddled, quiet, burst>>

Abs(n) == IF n < 0 THEN -n ELSE n
Least(m, n) == IF m < n THEN m ELSE n
Most(m, n) == IF m > n THEN m ELSE n

\* std::lround of a number of ticks, in seconds.
round_to_int(n) ==
    IF n < 0 THEN -((-n + Half) \div Second) ELSE (n + Half) \div Second

\* SyncState: `since` is the age of the last write (Never: none), `anchor` the
\* start of the free-running stretch, `drift` a walk of num ticks over span.
Never == -1
NoObs == [has |-> FALSE, err |-> 0]
NoAnchor == [has |-> FALSE, err |-> 0, age |-> 0]
NoDrift == [has |-> FALSE, num |-> 0, span |-> 1]
Reading == [has : BOOLEAN, err : Int]
Stretch == [has : BOOLEAN, err : Int, age : 0..MaxSpan]
DriftEstimate == [has : BOOLEAN, num : Int, span : 1..MaxSpan]
SyncState ==
    [failures : 0..MaxFailures, adapts : 0..MaxAdapts, bias : Int,
     since : -1..MaxSpan, obs : Reading, wrote : BOOLEAN,
     anchor : Stretch, drift : DriftEstimate]
Fresh == [failures |-> 0, adapts |-> 0, bias |-> 0, since |-> Never, obs |-> NoObs,
          wrote |-> FALSE, anchor |-> NoAnchor, drift |-> NoDrift]

-----------------------------------------------------------------------------
(* camsync.cc.                                                             *)

forget_drift(s) ==
    [s EXCEPT !.drift = NoDrift, !.obs = NoObs, !.anchor = NoAnchor,
              !.wrote = FALSE, !.failures = 0, !.adapts = 0]

\* The clock moved further than drift can explain.
restarted(s, e) == s.obs.has /\ ~s.wrote /\ Abs(e - s.obs.err) > RestartStep

observe(s, e) ==
    LET r == IF restarted(s, e) THEN forget_drift(s) ELSE s
        a == IF r.anchor.has THEN r.anchor ELSE [has |-> TRUE, err |-> e, age |-> 0]
    IN  [r EXCEPT !.obs = [has |-> TRUE, err |-> e], !.wrote = FALSE, !.anchor = a,
                  !.drift = IF a.age >= MinDriftInterval
                            THEN [has |-> TRUE, num |-> e - a.err, span |-> a.age]
                            ELSE @]

\* `may`: writes are enabled, nothing is recording and the timecode follows
\* the clock; nobody overrules what these say.  (dry_run is SyncD's.)
decide(s, e, may) ==
    IF ~may THEN "must not"
    ELSE IF s.failures >= MaxFailures THEN "external"
    ELSE IF Abs(e) <= Tolerance THEN "in-tolerance"
    ELSE IF s.since # Never /\ s.adapts = 0 /\ s.since < MinWriteInterval
         THEN "rate-limited"
    ELSE "write"

\* How long until the clock may be wrong, at a rate no smaller than the one
\* fitted, the quantisation added, and the one always assumed.
until_wrong(s, e) ==
    IF s.drift.has /\ Abs(e) < Tolerance
    THEN LET room == Tolerance - Abs(e)
         IN  Least((room * s.drift.span) \div (Abs(s.drift.num) + Frame),
                   room * SlowestSpan)
    ELSE 0

until_allowed(s) ==
    IF s.since # Never /\ s.adapts = 0 THEN Most(0, MinWriteInterval - s.since) ELSE 0

\* Mutant: it waits until something may be wrong, and then for the next look.
next_poll_Held(s, e) ==
    Most(Poll, Least(MaxPoll, Most(until_allowed(s), until_wrong(s, e)) + Poll))

next_poll(s, e) ==
    Most(Poll, Least(MaxPoll, Most(until_allowed(s), until_wrong(s, e)) \div Slices))

\* Both drift baselines restart at a write.
Rebased(s, e) ==
    [s EXCEPT !.wrote = TRUE, !.obs = [has |-> TRUE, err |-> e],
              !.anchor = [has |-> TRUE, err |-> e, age |-> 0]]

verified(b, e) == Abs(e) <= WriteTolerance \/ Abs(e) < Abs(b) - Quarter

Step(e) == Most(-MaxBiasStep, Least(MaxBiasStep, round_to_int(-e)))

\* failures counted up to the number at which the daemon backs off.
OneMore(s) == Least(s.failures + 1, MaxFailures)

\* What is left after a verified write is not folded into the bias.
judge_write_Deaf(s, b, e) ==
    LET r == Rebased(s, e)
    IN  IF verified(b, e) THEN [r EXCEPT !.failures = 0, !.adapts = 0]
        ELSE IF s.adapts < MaxAdapts
        THEN [r EXCEPT !.bias = @ + Step(e), !.adapts = @ + 1]
        ELSE [r EXCEPT !.failures = OneMore(s), !.adapts = 0]

judge_write(s, b, e) ==
    LET r == Rebased(s, e)
    IN  IF verified(b, e)
        THEN [r EXCEPT !.failures = 0, !.adapts = 0, !.bias = @ + round_to_int(-e)]
        ELSE IF s.adapts < MaxAdapts
        THEN [r EXCEPT !.bias = @ + Step(e), !.adapts = @ + 1]
        ELSE [r EXCEPT !.failures = OneMore(s), !.adapts = 0]

\* `f` ticks past a whole second of bench time: how long to the instant that is
\* `lead` before a whole second (the second after the next if the next is
\* closer than that; lead is at most half a second).
aligned_wait(f, lead) ==
    (IF Second - f < lead THEN 2 * Second ELSE Second) - f - lead

\* Mutant: the value is truncated, not rounded.
aligned_value_Truncated(send) == (send \div Second) * Second

\* The whole second nearest to the instant of sending.
aligned_value(send) == ((send + Half) \div Second) * Second

\* The value on the camera's own date, for a bench that has none, in days of
\* `day` seconds: `date` and `sod` are the camera's date and time of day,
\* `target` the time of day to be written.
aligned_value_on_date(day, date, sod, target) ==
    LET gap == target - sod
    IN  IF 2 * gap < -day THEN (date + 1) * day + target
        ELSE IF 2 * gap > day THEN (date - 1) * day + target
        ELSE date * day + target

-----------------------------------------------------------------------------
(* The cycle.                                                              *)

\* finish_cycle: the next look is planned on the latest error.
Finish(s, e) ==
    /\ st' = s
    /\ wait' = next_poll(s, e)
    /\ pc' = "sleep"

\* evaluate() without somebody asking.
Evaluate(may) ==
    /\ pc = "look"
    /\ quiet => may
    /\ LET s == observe(st, err)
       IN  IF decide(s, err, may) = "write"
           THEN st' = s /\ pc' = "send" /\ whose' = "daemon" /\ UNCHANGED wait
           ELSE Finish(s, err) /\ UNCHANGED whose
    /\ before' = err
    /\ UNCHANGED <<clock, burst>>

\* evaluate() of a cycle somebody forced: only "must not" stands.
EvaluateForced ==
    /\ pc = "look"
    /\ ~quiet
    /\ LET s == observe(st, err)
       IN  /\ st' = s
           /\ whose' = IF decide(s, err, TRUE) = "write" THEN "daemon" ELSE "request"
    /\ pc' = "send"
    /\ before' = err
    /\ UNCHANGED <<wait, clock, burst>>

\* evaluate() without a timecode: nothing is learnt, and the floor stands.
NoReading ==
    /\ pc = "look"
    /\ ~quiet
    /\ wait' = Poll
    /\ pc' = "sleep"
    /\ UNCHANGED <<st, before, whose, clock, burst>>

\* Where a write lands that was decided `f` ticks past a second, sent `lead`
\* early and `late` after its time, and applied `delay` later.
Landing(f, lead, late, delay) ==
    LET send == f + aligned_wait(f, lead) + late
    IN  aligned_value(send) - send - delay + (st.bias + quirk) * Second

\* step_align, step_write and done_write of a write that is acknowledged; an
\* external source pays no attention to it.
Acked(f, lead, late, delay) ==
    /\ pc = "send"
    /\ st' = [st EXCEPT !.since = 0]
    /\ err' = IF held > 0 THEN err ELSE Landing(f, lead, late, delay)
    /\ burst' = (IF st.adapts = 0 THEN 0 ELSE burst)
                 + (IF whose = "daemon" THEN 1 ELSE 0)
    /\ pc' = "verify"
    /\ UNCHANGED <<before, whose, wait, quirk, held, meddled, quiet>>

\* done_write and step_write's backstop: it is rejected, or never answered.
Refused ==
    /\ pc = "send"
    /\ ~quiet
    /\ Finish([st EXCEPT !.failures = OneMore(st)], before)
    /\ UNCHANGED <<before, whose, clock, burst>>

\* judge() with a timecode.
Judge ==
    /\ pc = "verify"
    /\ Finish(judge_write(st, before, err), err)
    /\ UNCHANGED <<before, whose, clock, burst>>

\* Mutant: a write that could not be verified is no failure.
Unverified_Forgiven ==
    /\ pc = "verify"
    /\ ~quiet
    /\ Finish(st, before)
    /\ UNCHANGED <<before, whose, clock, burst>>

\* judge() without one.
Unverified ==
    /\ pc = "verify"
    /\ ~quiet
    /\ Finish([st EXCEPT !.failures = OneMore(st)], before)
    /\ UNCHANGED <<before, whose, clock, burst>>

-----------------------------------------------------------------------------
(* Time passes, and the camera's clock does what it does (external).       *)

\* The wait is over for a daemon that remembers `s`: a cycle begins.
Awake(s) ==
    /\ pc = "sleep"
    /\ st' = [s EXCEPT !.since = IF @ = Never THEN @ ELSE Least(@ + wait, MaxSpan),
                       !.anchor.age = IF s.anchor.has THEN Least(@ + wait, MaxSpan)
                                      ELSE @]
    /\ pc' = "look"
    /\ wait' = Poll /\ before' = 0 /\ whose' = "nobody"
    /\ UNCHANGED burst

\* The clock walked a little, or not.
Walk(by) ==
    /\ Awake(st)
    /\ quiet => by = 0
    /\ err' = err + by
    /\ by # 0 => Abs(err') <= MaxError
    /\ held' = Most(0, held - 1)
    /\ UNCHANGED <<quirk, meddled, quiet>>

\* It was set by others: a power cycle or a menu, or another body is bound
\* (`noticed`: the caller's forget_drift).
Reset(e, q, noticed) ==
    /\ ~quiet /\ meddled < MaxMeddling
    /\ Awake(IF noticed THEN forget_drift(st) ELSE st)
    /\ err' = e
    /\ quirk' = q
    /\ meddled' = meddled + 1
    /\ UNCHANGED <<held, quiet>>

\* An external source was plugged in.
Plug(cycles) ==
    /\ ~quiet /\ meddled < MaxMeddling
    /\ Awake(st)
    /\ held = 0 /\ held' = cycles
    /\ meddled' = meddled + 1
    /\ UNCHANGED <<err, quirk, quiet>>

\* From here on nothing interferes.
Settle ==
    /\ ~quiet /\ held = 0
    /\ quiet' = TRUE
    /\ UNCHANGED <<st, pc, before, whose, wait, err, quirk, held, meddled, burst>>

-----------------------------------------------------------------------------
Init ==
    /\ st = Fresh
    /\ pc = "look"
    /\ before = 0 /\ whose = "nobody" /\ wait = Poll
    /\ err \in Jumps /\ quirk \in Quirks
    /\ held = 0 /\ meddled = 0 /\ quiet = FALSE
    /\ burst = 0

Cycle ==
    \/ \E may \in BOOLEAN : Evaluate(may)
    \/ EvaluateForced
    \/ NoReading
    \/ \E f \in 0..(Second - 1), lead \in 0..MaxLead, late \in 0..MaxLate,
          delay \in 0..MaxDelay : Acked(f, lead, late, delay)
    \/ Refused
    \/ Judge
    \/ Unverified

World ==
    \/ \E by \in Walks : Walk(by)
    \/ \E e \in Jumps, q \in Quirks, noticed \in BOOLEAN : Reset(e, q, noticed)
    \/ \E cycles \in 1..MaxHeld : Plug(cycles)
    \/ Settle

Next == Cycle \/ World

\* A timer of the loop ends every wait and every step of a cycle.
Fairness == WF_vars(Cycle) /\ WF_vars(\E by \in Walks : Walk(by))

Spec == Init /\ [][Next]_vars
FairSpec == Spec /\ Fairness

-----------------------------------------------------------------------------
(* Properties.                                                             *)

\* The state keeps its shape; in particular no more than MaxAdapts attempts
\* are ever counted (judge_write), and the plan keeps to the floor and the
\* ceiling of the options (next_poll).
TypeOK ==
    /\ st \in SyncState
    /\ pc \in {"look", "send", "verify", "sleep"}
    /\ before \in Int /\ whose \in {"daemon", "request", "nobody"} /\ wait \in Poll..MaxPoll
    /\ err \in Int /\ quirk \in Int /\ held \in 0..MaxHeld
    /\ meddled \in 0..MaxMeddling /\ quiet \in BOOLEAN
    /\ burst \in Nat

\* "max_adapts bounds how many writes this can let through" (decide): the
\* writes the daemon makes on its own between two that the rate limit spaced
\* are the adaptations, the failures that do not end one, and the write that
\* uses the last of them up.
WritesAreRationed == burst <= MaxAdapts + MaxFailures + 1

\* A write lands where it was aimed (step_align: "writing "now" at an
\* arbitrary moment throws away the fraction"): off the learned bias by no
\* more than it was early one way, and late and slow the other.
LandsWhereAimed ==
    pc = "verify" /\ held = 0 =>
        err - (st.bias + quirk) * Second \in (-(MaxLate + MaxDelay))..MaxLead

\* poll_slices: "the cadence is coarse when the next action is far off and
\* tightens as it nears, without ever overshooting it by more than one
\* interval".  A camera is not slept past the floor beyond the instant at
\* which it may be out of tolerance at the fitted rate, unless no write would
\* be allowed before the daemon is awake again.
LooksInTime ==
    pc = "sleep" /\ wait > Poll =>
        \/ st.since # Never /\ st.adapts = 0 /\ st.since + wait <= MinWriteInterval
        \/ /\ st.drift.has
           /\ Abs(st.obs.err) * st.drift.span + (Abs(st.drift.num) + Frame) * wait
                 <= Tolerance * st.drift.span

\* "Fold it back in, or the daemon writes every cycle forever and never
\* converges" (judge_write): left alone with failures to spare, the daemon
\* brings the camera as close as a write lands, or finds it there.
Converges ==
    (quiet /\ st.failures + 1 < MaxFailures) ~> Abs(err) <= Tolerance + MaxLead + MaxLate + MaxDelay
=============================================================================
