--------------------------- MODULE Cameras_proofs ---------------------------
(***************************************************************************)
(* What is promised of the cameras for all values of the constants: of the *)
(* policy that decides when their clocks are written (camsync.cc), and of  *)
(* the client that reaches them over the dongle (camera_hci.cc, hcilink.cc)*)
(***************************************************************************)
EXTENDS CamSync, HciCamera, SequenceTheorems, WellFoundedInduction, TLAPS

-----------------------------------------------------------------------------
(* CamSync: the clock of a camera *)

\* Why the writes are rationed: while adaptations are under way, each of the
\* daemon's own writes has used up one of them or one of the failures; the one
\* under way has used up neither yet, and was decided with failures to spare.
Accounted ==
    /\ st.adapts # 0 =>
          \/ burst <= st.adapts + st.failures
          \/ pc = "verify" /\ whose = "daemon" /\ burst <= st.adapts + st.failures + 1
    /\ pc = "verify" /\ st.adapts = 0 =>
          burst = 0 \/ (whose = "daemon" /\ burst <= 1)
    /\ pc \in {"send", "verify"} /\ whose = "daemon" => st.failures < MaxFailures

\* The reading a cycle acts on is the one it remembers.
ActsOnLastReading == pc \in {"send", "verify"} => st.obs.err = before

IInv ==
    /\ TypeOK /\ Accounted /\ ActsOnLastReading
    /\ WritesAreRationed /\ LandsWhereAimed /\ LooksInTime

\* The quarters of a second add up.
LEMMA Quarters ==
    /\ Second \in Nat /\ Second > 0
    /\ Half \in Nat /\ Quarter \in Nat
    /\ 2 * Half = Second
BY CamSyncAssumption, Z3 DEF Half, Quarter

\* round_to_int() makes whole seconds of any error.
LEMMA RoundType ==
    ASSUME NEW n \in Int
    PROVE  round_to_int(n) \in Int
BY Quarters, Z3 DEF round_to_int

\* A step of the bias is a whole number of seconds.
LEMMA StepType ==
    ASSUME NEW e \in Int
    PROVE  Step(e) \in Int
<1>1. round_to_int(-e) \in Int
  BY RoundType
<1> QED
  BY <1>1, CamSyncAssumption DEF Step, Most, Least

\* A division rounds down.
LEMMA Division ==
    ASSUME NEW a \in Nat, NEW d \in Nat, d > 0
    PROVE  a \div d \in Nat /\ d * (a \div d) <= a /\ a \div d <= a
BY Z3

\* A whole number of seconds is what rounding makes of an instant that is less
\* than half a second away from it.
LEMMA Rounding ==
    ASSUME NEW q \in {1, 2}, NEW x \in Int,
           q * Second <= x + Half, x + Half < (q + 1) * Second
    PROVE  aligned_value(x) = q * Second
BY Quarters, Z3 DEF aligned_value

\* aligned_value_on_date(): the instant written is within half a day of the
\* camera's own reading, on whatever side of midnight the two are.
THEOREM DateIsNearest ==
    ASSUME NEW day \in Nat, NEW date \in Int,
           NEW sod \in 0..(day - 1), NEW target \in 0..(day - 1)
    PROVE  2 * Abs(aligned_value_on_date(day, date, sod, target)
                     - (date * day + sod)) <= day
<1> DEFINE base == date * day
<1>1. /\ base \in Int
      /\ (date + 1) * day = base + day
      /\ (date - 1) * day = base - day
  BY Z3
<1>2. aligned_value_on_date(day, date, sod, target)
        = (IF 2 * (target - sod) < -day THEN base + day + target
           ELSE IF 2 * (target - sod) > day THEN base - day + target
           ELSE base + target)
  BY <1>1 DEF aligned_value_on_date
<1> HIDE DEF base
<1>3. day \in Nat /\ sod \in Int /\ target \in Int /\ 0 <= sod /\ sod < day
      /\ 0 <= target /\ target < day
  OBVIOUS
<1>4. 2 * Abs((IF 2 * (target - sod) < -day THEN base + day + target
               ELSE IF 2 * (target - sod) > day THEN base - day + target
               ELSE base + target) - (base + sod)) <= day
  BY <1>1, <1>3 DEF Abs
<1> QED
  BY <1>2, <1>4 DEF base

-----------------------------------------------------------------------------
\* forget_drift() keeps the shape of the state.
LEMMA ForgetType ==
    ASSUME NEW s \in SyncState
    PROVE  forget_drift(s) \in SyncState /\ forget_drift(s).adapts = 0
<1>1. MaxSpan \in Nat /\ MaxSpan > 0 /\ MaxFailures \in Nat /\ MaxAdapts \in Nat
  BY CamSyncAssumption
<1>2. NoDrift \in DriftEstimate /\ NoObs \in Reading /\ NoAnchor \in Stretch
  BY <1>1 DEF NoDrift, NoObs, NoAnchor, DriftEstimate, Reading, Stretch
<1>3. 0 \in 0..MaxFailures /\ 0 \in 0..MaxAdapts
  BY <1>1
<1> DEFINE s1 == [s EXCEPT !.drift = NoDrift, !.obs = NoObs, !.anchor = NoAnchor]
<1>4. s1 \in SyncState
  BY <1>2 DEF SyncState
<1>5. forget_drift(s) = [s1 EXCEPT !.wrote = FALSE, !.failures = 0, !.adapts = 0]
  BY DEF forget_drift
<1> HIDE DEF s1
<1> QED
  BY <1>3, <1>4, <1>5 DEF SyncState

\* observe() keeps the shape of the state, leaves the reading behind, and
\* either keeps the counters or clears them.
LEMMA ObserveType ==
    ASSUME NEW s \in SyncState, NEW e \in Int
    PROVE  /\ observe(s, e) \in SyncState
           /\ observe(s, e).obs.err = e
           /\ \/ /\ observe(s, e).adapts = s.adapts
                 /\ observe(s, e).failures = s.failures
              \/ observe(s, e).adapts = 0
<1> DEFINE r == IF restarted(s, e) THEN forget_drift(s) ELSE s
<1>1. MaxSpan \in Nat /\ 1 \in 1..MaxSpan /\ MaxFailures \in Nat /\ MaxAdapts \in Nat
      /\ MinDriftInterval \in Nat /\ MinDriftInterval > 0
  BY CamSyncAssumption
<1>2. r \in SyncState /\ (r.adapts = 0 \/ (r.adapts = s.adapts /\ r.failures = s.failures))
  <2>1. forget_drift(s) \in SyncState /\ forget_drift(s).adapts = 0
    BY ForgetType
  <2> QED BY <2>1
<1> HIDE DEF r
<1> DEFINE a == IF r.anchor.has THEN r.anchor ELSE [has |-> TRUE, err |-> e, age |-> 0]
<1>3. a \in Stretch /\ a.age \in 0..MaxSpan /\ a.err \in Int
  BY <1>1, <1>2 DEF SyncState, Stretch
<1> HIDE DEF a
<1> DEFINE d == IF a.age >= MinDriftInterval
                THEN [has |-> TRUE, num |-> e - a.err, span |-> a.age]
                ELSE r.drift
<1>4. d \in DriftEstimate
  <2>1. r.drift \in DriftEstimate
    BY <1>2 DEF SyncState
  <2>2. a.age >= MinDriftInterval => a.age \in 1..MaxSpan
    BY <1>1, <1>3
  <2> QED BY <1>3, <2>1, <2>2 DEF DriftEstimate
<1>5. observe(s, e) = [r EXCEPT !.obs = [has |-> TRUE, err |-> e], !.wrote = FALSE,
                                !.anchor = a, !.drift = d]
  BY DEF observe, r, a
<1> HIDE DEF d
<1>6. [has |-> TRUE, err |-> e] \in Reading
  BY DEF Reading
<1> DEFINE r1 == [r EXCEPT !.obs = [has |-> TRUE, err |-> e], !.wrote = FALSE]
<1>7. r1 \in SyncState /\ r1.obs.err = e /\ r1.adapts = r.adapts
      /\ r1.failures = r.failures
  BY <1>2, <1>6 DEF SyncState
<1>8. observe(s, e) = [r1 EXCEPT !.anchor = a, !.drift = d]
  BY <1>5
<1> HIDE DEF r1
<1>9. observe(s, e) \in SyncState
  BY <1>3, <1>4, <1>7, <1>8 DEF SyncState
<1>10. /\ observe(s, e).obs = r1.obs /\ observe(s, e).adapts = r1.adapts
       /\ observe(s, e).failures = r1.failures
  BY <1>7, <1>8 DEF SyncState
<1> QED
  BY <1>2, <1>7, <1>9, <1>10

\* judge_write() keeps the shape of the state and leaves the reading behind.
LEMMA JudgeType ==
    ASSUME NEW s \in SyncState, NEW b \in Int, NEW e \in Int
    PROVE  /\ judge_write(s, b, e) \in SyncState
           /\ judge_write(s, b, e).obs.err = e
           /\ \/ judge_write(s, b, e).adapts = 0
              \/ /\ judge_write(s, b, e).adapts = s.adapts + 1
                 /\ judge_write(s, b, e).failures = s.failures
<1>1. MaxSpan \in Nat /\ MaxFailures \in Nat /\ MaxAdapts \in Nat
  BY CamSyncAssumption
<1>2. Step(e) \in Int /\ round_to_int(-e) \in Int
  BY StepType, RoundType
<1>3. OneMore(s) \in 0..MaxFailures
  BY <1>1 DEF OneMore, Least, SyncState
<1>4. Rebased(s, e) \in SyncState /\ Rebased(s, e).obs.err = e
      /\ Rebased(s, e).bias = s.bias /\ Rebased(s, e).adapts = s.adapts
      /\ Rebased(s, e).failures = s.failures
  <2>1. [has |-> TRUE, err |-> e] \in Reading
        /\ [has |-> TRUE, err |-> e, age |-> 0] \in Stretch
    BY <1>1 DEF Reading, Stretch
  <2> QED BY <2>1 DEF Rebased, SyncState
<1> DEFINE r == Rebased(s, e)
<1>5. \/ judge_write(s, b, e) = [r EXCEPT !.failures = 0, !.adapts = 0,
                                          !.bias = @ + round_to_int(-e)]
      \/ /\ s.adapts < MaxAdapts
         /\ judge_write(s, b, e) = [r EXCEPT !.bias = @ + Step(e), !.adapts = @ + 1]
      \/ judge_write(s, b, e) = [r EXCEPT !.failures = OneMore(s), !.adapts = 0]
  BY DEF judge_write
<1>6. /\ r \in SyncState /\ r.obs.err = e /\ r.bias \in Int
      /\ r.adapts = s.adapts /\ r.failures = s.failures /\ s.adapts \in 0..MaxAdapts
  BY <1>4 DEF SyncState
<1> HIDE DEF r
<1>7. CASE judge_write(s, b, e) = [r EXCEPT !.failures = 0, !.adapts = 0,
                                            !.bias = @ + round_to_int(-e)]
  <2>1. 0 \in 0..MaxFailures /\ 0 \in 0..MaxAdapts /\ r.bias + round_to_int(-e) \in Int
    BY <1>1, <1>2, <1>6
  <2> QED BY <1>6, <1>7, <2>1 DEF SyncState
<1>8. CASE /\ s.adapts < MaxAdapts
           /\ judge_write(s, b, e) = [r EXCEPT !.bias = @ + Step(e), !.adapts = @ + 1]
  <2>1. r.adapts + 1 \in 0..MaxAdapts /\ r.bias + Step(e) \in Int
    BY <1>1, <1>2, <1>6, <1>8
  <2>2. judge_write(s, b, e) = [r EXCEPT !.bias = r.bias + Step(e), !.adapts = r.adapts + 1]
    BY <1>8
  <2> QED BY <1>6, <2>1, <2>2 DEF SyncState
<1>9. CASE judge_write(s, b, e) = [r EXCEPT !.failures = OneMore(s), !.adapts = 0]
  <2>1. 0 \in 0..MaxAdapts
    BY <1>1
  <2> QED BY <1>3, <1>6, <1>9, <2>1 DEF SyncState
<1> QED
  BY <1>5, <1>7, <1>8, <1>9

\* next_poll() keeps to the floor and the ceiling; above the floor, no write
\* would be allowed meanwhile, or the clock stays inside the tolerance.
LEMMA PlanInTime ==
    ASSUME NEW s \in SyncState, NEW e \in Int, s.obs.err = e
    PROVE  LET w == next_poll(s, e)
           IN  /\ w \in Poll..MaxPoll
               /\ w > Poll =>
                    \/ s.since # Never /\ s.adapts = 0 /\ s.since + w <= MinWriteInterval
                    \/ /\ s.drift.has
                       /\ Abs(s.obs.err) * s.drift.span
                             + (Abs(s.drift.num) + Frame) * w
                          <= Tolerance * s.drift.span
<1> DEFINE A == until_allowed(s)
           W == until_wrong(s, e)
           w == next_poll(s, e)
           D == Abs(s.drift.num) + Frame
           T == s.drift.span
           x == Abs(e)
<1>1. /\ Poll \in Nat /\ MaxPoll \in Nat /\ Poll > 0 /\ Poll <= MaxPoll
      /\ Slices \in Nat /\ Slices > 0 /\ MinWriteInterval \in Nat
      /\ Tolerance \in Nat /\ Frame \in Nat /\ Frame > 0 /\ SlowestSpan \in Nat
  BY CamSyncAssumption
<1>2. /\ s.since \in Int /\ s.since >= -1 /\ s.drift.num \in Int
      /\ T \in Nat /\ D \in Nat /\ D > 0 /\ x \in Nat
  BY <1>1, CamSyncAssumption DEF SyncState, DriftEstimate, Abs
<1>3. /\ A \in Nat
      /\ A > 0 => s.since # Never /\ s.adapts = 0 /\ s.since + A = MinWriteInterval
  BY <1>1, <1>2 DEF until_allowed, Most
<1>4. W \in Nat /\ (W > 0 => s.drift.has /\ D * W + x * T <= Tolerance * T)
  <2>1. CASE s.drift.has /\ x < Tolerance
    <3> DEFINE room == Tolerance - x
               q == (room * T) \div D
    <3>1. room \in Nat /\ room * T \in Nat /\ room * SlowestSpan \in Nat
      BY <1>1, <1>2, <2>1
    <3>2. q \in Nat /\ D * q <= room * T
      BY <1>2, <3>1, Division
    <3>3. W = Least(q, room * SlowestSpan)
      BY <2>1 DEF until_wrong
    <3>4. W \in Nat /\ W <= q
      BY <3>1, <3>2, <3>3 DEF Least
    <3>5. D * W <= D * q
      <4> HIDE DEF W, q, D
      <4> QED BY <1>2, <3>2, <3>4, Z3
    <3>6. room * T = Tolerance * T - x * T
      <4> HIDE DEF T, x
      <4> QED BY <1>1, <1>2, Z3
    <3> HIDE DEF W, q, D, T, x, room
    <3>7. D * W \in Int /\ D * q \in Int /\ x * T \in Int /\ Tolerance * T \in Int
      BY <1>1, <1>2, <3>2, <3>4
    <3> QED BY <2>1, <3>1, <3>2, <3>4, <3>5, <3>6, <3>7
  <2>2. CASE ~(s.drift.has /\ x < Tolerance)
    BY <2>2 DEF until_wrong
  <2> QED BY <2>1, <2>2
<1>5. w = Most(Poll, Least(MaxPoll, Most(A, W) \div Slices))
  BY DEF next_poll
<1> HIDE DEF A, W, w
<1> DEFINE m == Most(A, W)
           n == m \div Slices
<1>6. m \in Nat /\ (m = A \/ m = W)
  BY <1>3, <1>4 DEF Most
<1> HIDE DEF m
<1>7. n \in Nat /\ n <= m
  BY <1>1, <1>6, Division
<1>8. w = Most(Poll, Least(MaxPoll, n))
  BY <1>5 DEF m
<1> HIDE DEF n
<1>9. w \in Poll..MaxPoll /\ w \in Nat /\ (w > Poll => w <= m)
  BY <1>1, <1>6, <1>7, <1>8 DEF Most, Least
<1>10. ASSUME w > Poll
       PROVE  \/ s.since # Never /\ s.adapts = 0 /\ s.since + w <= MinWriteInterval
              \/ s.drift.has /\ x * T + D * w <= Tolerance * T
  <2>1. CASE m = A
    BY <1>1, <1>2, <1>3, <1>9, <1>10, <2>1
  <2>2. CASE m = W
    <3>1. W > 0 /\ w <= W
      BY <1>1, <1>4, <1>9, <1>10, <2>2
    <3> HIDE DEF D, T, x
    <3>2. D * w <= D * W
      BY <1>2, <1>4, <1>9, <3>1, Z3
    <3>3. D * w \in Int /\ D * W \in Int /\ x * T \in Int /\ Tolerance * T \in Int
      BY <1>1, <1>2, <1>4, <1>9
    <3> QED BY <1>4, <3>1, <3>2, <3>3
  <2> QED BY <1>6, <2>1, <2>2
<1> QED
  BY <1>9, <1>10 DEF w

-----------------------------------------------------------------------------
\* Whatever ends a cycle with a state that remembers the latest reading has
\* planned the next look in time.
LEMMA FinishInTime ==
    ASSUME NEW s \in SyncState, NEW e \in Int, s.obs.err = e, Finish(s, e)
    PROVE  st' \in SyncState /\ wait' \in Poll..MaxPoll /\ LooksInTime'
<1>1. st' = s /\ wait' = next_poll(s, e) /\ pc' = "sleep"
  BY DEF Finish
<1> DEFINE w == next_poll(s, e)
<1>2. /\ w \in Poll..MaxPoll
      /\ w > Poll =>
           \/ s.since # Never /\ s.adapts = 0 /\ s.since + w <= MinWriteInterval
           \/ /\ s.drift.has
              /\ Abs(s.obs.err) * s.drift.span + (Abs(s.drift.num) + Frame) * w
                    <= Tolerance * s.drift.span
  BY PlanInTime
<1> HIDE DEF w
<1> QED
  BY <1>1, <1>2, Zenon DEF LooksInTime, w

\* The types of the constants the bounds are made of.
LEMMA Bounds ==
    /\ MaxFailures \in Nat /\ MaxFailures > 0 /\ MaxAdapts \in Nat /\ MaxSpan \in Nat
    /\ MaxHeld \in Nat /\ MaxMeddling \in Nat /\ Poll \in Nat /\ MaxPoll \in Nat
    /\ Poll \in Poll..MaxPoll
BY CamSyncAssumption

\* The initial states.
LEMMA InitInv == ASSUME Init PROVE IInv
<1>1. Fresh \in SyncState /\ Fresh.adapts = 0
  <2>1. NoDrift \in DriftEstimate /\ NoObs \in Reading /\ NoAnchor \in Stretch
        /\ Never \in -1..MaxSpan /\ 0 \in 0..MaxFailures /\ 0 \in 0..MaxAdapts
    BY CamSyncAssumption DEF NoDrift, NoObs, NoAnchor, DriftEstimate, Reading,
       Stretch, Never
  <2> QED BY <2>1 DEF Fresh, SyncState
<1>2. err \in Int /\ quirk \in Int
  BY CamSyncAssumption DEF Init
<1>3. TypeOK
  <2>1. 0 \in 0..MaxHeld /\ 0 \in 0..MaxMeddling /\ 0 \in Nat /\ 0 \in Int
    BY Bounds
  <2>2. wait \in Poll..MaxPoll /\ st \in SyncState
    BY <1>1, Bounds DEF Init
  <2> QED
    BY <1>2, <2>1, <2>2 DEF Init, TypeOK
<1> QED
  BY <1>1, <1>3, Bounds DEF Init, IInv, Accounted, ActsOnLastReading,
     WritesAreRationed, LandsWhereAimed, LooksInTime

\* decide() answers "write" only with failures to spare.
LEMMA WriteMeansSpare ==
    ASSUME NEW s \in SyncState, NEW e \in Int, NEW may \in BOOLEAN,
           decide(s, e, may) = "write"
    PROVE  s.failures < MaxFailures
BY Bounds DEF decide, SyncState

\* evaluate(): a reading is remembered, and a write decided or not.
LEMMA EvaluateInv ==
    ASSUME IInv, NEW may \in BOOLEAN, Evaluate(may)
    PROVE  IInv'
<1> DEFINE s == observe(st, err)
<1>1. st \in SyncState /\ err \in Int /\ pc = "look"
  BY DEF IInv, TypeOK, Evaluate
<1>2. /\ s \in SyncState /\ s.obs.err = err
      /\ (s.adapts = st.adapts /\ s.failures = st.failures) \/ s.adapts = 0
  BY <1>1, ObserveType
<1>3. before' = err /\ burst' = burst /\ UNCHANGED clock
  BY DEF Evaluate
<1>4. s.adapts # 0 => burst <= s.adapts + s.failures
  BY <1>1, <1>2 DEF IInv, Accounted
<1>5. CASE decide(s, err, may) = "write"
  <2>1. st' = s /\ pc' = "send" /\ whose' = "daemon" /\ wait' = wait
    BY <1>5 DEF Evaluate
  <2>2. s.failures < MaxFailures
    BY <1>1, <1>2, <1>5, WriteMeansSpare
  <2> HIDE DEF s
  <2>3. TypeOK'
    BY <1>1, <1>2, <1>3, <2>1 DEF IInv, TypeOK, clock
  <2> QED
    BY <1>2, <1>3, <1>4, <2>1, <2>2, <2>3 DEF IInv, Accounted, ActsOnLastReading,
       WritesAreRationed, LandsWhereAimed, LooksInTime
<1>6. CASE decide(s, err, may) # "write"
  <2>1. Finish(s, err) /\ whose' = whose
    BY <1>6 DEF Evaluate
  <2>2. st' = s /\ pc' = "sleep"
    BY <2>1 DEF Finish
  <2>3. wait' \in Poll..MaxPoll /\ LooksInTime'
    BY <1>1, <1>2, <2>1, FinishInTime
  <2> HIDE DEF s
  <2>4. TypeOK'
    BY <1>1, <1>2, <1>3, <2>1, <2>2, <2>3 DEF IInv, TypeOK, clock
  <2> QED
    BY <1>2, <1>3, <1>4, <2>2, <2>3, <2>4 DEF IInv, Accounted, ActsOnLastReading,
       WritesAreRationed, LandsWhereAimed
<1> QED BY <1>5, <1>6

\* evaluate() of a forced cycle.
LEMMA EvaluateForcedInv == ASSUME IInv, EvaluateForced PROVE IInv'
<1> DEFINE s == observe(st, err)
<1>1. st \in SyncState /\ err \in Int /\ pc = "look"
  BY DEF IInv, TypeOK, EvaluateForced
<1>2. /\ s \in SyncState /\ s.obs.err = err
      /\ (s.adapts = st.adapts /\ s.failures = st.failures) \/ s.adapts = 0
  BY <1>1, ObserveType
<1>3. /\ before' = err /\ burst' = burst /\ UNCHANGED clock
      /\ st' = s /\ pc' = "send"
      /\ whose' = IF decide(s, err, TRUE) = "write" THEN "daemon" ELSE "request"
      /\ wait' = wait
  BY DEF EvaluateForced
<1>4. s.adapts # 0 => burst <= s.adapts + s.failures
  BY <1>1, <1>2 DEF IInv, Accounted
<1>5. whose' = "daemon" => s.failures < MaxFailures
  BY <1>1, <1>2, <1>3, WriteMeansSpare
<1>6. whose' \in {"daemon", "request", "nobody"}
  BY <1>3
<1> HIDE DEF s
<1>7. TypeOK'
  BY <1>1, <1>2, <1>3, <1>6 DEF IInv, TypeOK, clock
<1> QED
  BY <1>2, <1>3, <1>4, <1>5, <1>7 DEF IInv, Accounted, ActsOnLastReading,
     WritesAreRationed, LandsWhereAimed, LooksInTime

\* A cycle that learns nothing.
LEMMA NoReadingInv == ASSUME IInv, NoReading PROVE IInv'
<1>1. /\ wait' = Poll /\ pc' = "sleep" /\ st' = st /\ before' = before /\ pc = "look"
      /\ whose' = whose /\ burst' = burst /\ UNCHANGED clock
  BY DEF NoReading
<1>2. TypeOK'
  BY <1>1, Bounds DEF IInv, TypeOK, clock
<1> QED
  BY <1>1, <1>2, Bounds DEF IInv, Accounted, ActsOnLastReading, WritesAreRationed,
     LandsWhereAimed, LooksInTime

\* The arithmetic of an aligned write: what it lands off the bias is what it
\* was early, less what it was late and slow.
LEMMA LandingPlace ==
    ASSUME IInv, NEW f \in 0..(Second - 1), NEW lead \in 0..MaxLead,
           NEW late \in 0..MaxLate, NEW delay \in 0..MaxDelay
    PROVE  Landing(f, lead, late, delay)
             = (st.bias + quirk) * Second + lead - late - delay
<1> DEFINE send == f + aligned_wait(f, lead) + late
           b == (st.bias + quirk) * Second
<1>1. /\ Second \in Nat /\ Half \in Nat /\ 2 * Half = Second /\ Second > 0
      /\ f \in Nat /\ f < Second /\ lead \in Nat /\ lead <= Half
      /\ late \in Nat /\ late < Half /\ delay \in Nat
  BY Quarters, CamSyncAssumption
<1>2. b \in Int
  <2>1. st.bias \in Int /\ quirk \in Int
    BY DEF IInv, TypeOK, SyncState
  <2> QED BY <1>1, <2>1
<1> HIDE DEF b
<1>3. send \in Int /\ (send = Second - lead + late \/ send = 2 * Second - lead + late)
  BY <1>1 DEF aligned_wait
<1> HIDE DEF send
<1>4. aligned_value(send) = send + lead - late
  <2>1. CASE send = Second - lead + late
    <3>1. 1 * Second <= send + Half /\ send + Half < (1 + 1) * Second
      BY <1>1, <1>3, <2>1
    <3>2. aligned_value(send) = 1 * Second
      BY <1>3, <3>1, Rounding
    <3> QED BY <1>1, <2>1, <3>2
  <2>2. CASE send = 2 * Second - lead + late
    <3>1. 2 * Second <= send + Half /\ send + Half < (2 + 1) * Second
      BY <1>1, <1>3, <2>2
    <3>2. aligned_value(send) = 2 * Second
      BY <1>3, <3>1, Rounding
    <3> QED BY <1>1, <2>2, <3>2
  <2> QED BY <1>3, <2>1, <2>2
<1>5. Landing(f, lead, late, delay) = aligned_value(send) - send - delay + b
  BY DEF Landing, send, b
<1>6. Landing(f, lead, late, delay) = b + lead - late - delay
  BY <1>1, <1>2, <1>3, <1>4, <1>5
<1> QED
  BY <1>6 DEF b

\* A write that is acknowledged.
LEMMA AckedInv ==
    ASSUME IInv, NEW f \in 0..(Second - 1), NEW lead \in 0..MaxLead,
           NEW late \in 0..MaxLate, NEW delay \in 0..MaxDelay,
           Acked(f, lead, late, delay)
    PROVE  IInv'
<1>1. /\ st \in SyncState /\ st' = [st EXCEPT !.since = 0] /\ 0 \in -1..MaxSpan
      /\ pc = "send" /\ pc' = "verify"
  BY Bounds DEF IInv, TypeOK, Acked
<1>2. /\ st' \in SyncState /\ st'.adapts = st.adapts /\ st'.failures = st.failures
      /\ st'.bias = st.bias /\ st'.obs = st.obs
      /\ st.adapts \in Nat /\ st.adapts <= MaxAdapts /\ st.bias \in Int
      /\ st.failures \in Nat /\ st.failures <= MaxFailures
  BY <1>1, Bounds DEF SyncState
<1>3. /\ burst' = (IF st.adapts = 0 THEN 0 ELSE burst)
                    + (IF whose = "daemon" THEN 1 ELSE 0)
      /\ whose' = whose /\ before' = before /\ wait' = wait /\ quirk' = quirk
      /\ held' = held /\ meddled' = meddled /\ quiet' = quiet
  BY DEF Acked
<1>4. burst \in Nat /\ err \in Int /\ quirk \in Int /\ held \in Nat
  BY Bounds DEF IInv, TypeOK
<1> DEFINE b == (st.bias + quirk) * Second
<1>5. b \in Int
  BY <1>2, <1>4, Quarters
<1> HIDE DEF b
<1>6. err' = IF held > 0 THEN err ELSE b + lead - late - delay
  BY LandingPlace DEF Acked, b
<1>7. err' \in Int
  BY <1>4, <1>5, <1>6, CamSyncAssumption
<1>8. burst' \in Nat
  BY <1>3, <1>4
<1>9. TypeOK'
  BY <1>1, <1>2, <1>3, <1>7, <1>8 DEF IInv, TypeOK
<1>10. Accounted'
  BY <1>1, <1>2, <1>3, <1>4 DEF IInv, Accounted
<1>11. WritesAreRationed'
  BY <1>1, <1>2, <1>3, <1>4, Bounds DEF IInv, Accounted, WritesAreRationed
<1>12. LandsWhereAimed'
  <2>1. held = 0 => err' = b + lead - late - delay
    BY <1>4, <1>6
  <2>2. held = 0 => err' - b \in (-(MaxLate + MaxDelay))..MaxLead
    BY <1>5, <2>1, CamSyncAssumption
  <2> QED BY <1>2, <1>3, <2>2 DEF LandsWhereAimed, b
<1>13. ActsOnLastReading' /\ LooksInTime'
  BY <1>1, <1>2, <1>3 DEF IInv, ActsOnLastReading, LooksInTime
<1> QED BY <1>9, <1>10, <1>11, <1>12, <1>13 DEF IInv

\* One failure more, up to the number at which the daemon backs off.
LEMMA FailureCounted ==
    ASSUME NEW s \in SyncState
    PROVE  LET t == [s EXCEPT !.failures = OneMore(s)]
           IN  /\ t \in SyncState /\ t.obs = s.obs /\ t.adapts = s.adapts
               /\ t.failures >= s.failures
               /\ s.failures < MaxFailures => t.failures = s.failures + 1
<1>1. /\ OneMore(s) \in 0..MaxFailures /\ OneMore(s) >= s.failures
      /\ s.failures < MaxFailures => OneMore(s) = s.failures + 1
  BY Bounds DEF OneMore, Least, SyncState
<1> QED BY <1>1 DEF SyncState

\* A failure that ends the cycle, refused or unverified.
LEMMA FailureInv ==
    ASSUME IInv, pc \in {"send", "verify"},
           Finish([st EXCEPT !.failures = OneMore(st)], before),
           UNCHANGED <<before, whose, clock, burst>>
    PROVE  IInv'
<1> DEFINE s == [st EXCEPT !.failures = OneMore(st)]
<1>1. st \in SyncState /\ before \in Int /\ st.obs.err = before /\ burst \in Nat
      /\ st.adapts \in Nat /\ st.failures \in Nat
  BY Bounds DEF IInv, TypeOK, ActsOnLastReading, SyncState
<1>2. /\ s \in SyncState /\ s.obs = st.obs /\ s.adapts = st.adapts
      /\ s.failures >= st.failures
      /\ st.failures < MaxFailures => s.failures = st.failures + 1
  BY <1>1, FailureCounted
<1>3. s.failures \in Nat
  BY <1>2, Bounds DEF SyncState
<1> HIDE DEF s
<1>4. Finish(s, before)
  BY DEF s
<1>5. st' = s /\ pc' = "sleep"
  BY <1>4 DEF Finish
<1>6. wait' \in Poll..MaxPoll /\ LooksInTime'
  BY <1>1, <1>2, <1>4, FinishInTime
<1>7. TypeOK'
  BY <1>2, <1>5, <1>6 DEF IInv, TypeOK, clock
<1>8. Accounted'
  BY <1>1, <1>2, <1>3, <1>5 DEF IInv, Accounted
<1> QED
  BY <1>5, <1>6, <1>7, <1>8 DEF IInv, ActsOnLastReading, WritesAreRationed,
     LandsWhereAimed

\* A verified write, or one that missed.
LEMMA JudgeInv == ASSUME IInv, Judge PROVE IInv'
<1> DEFINE s == judge_write(st, before, err)
<1>1. /\ st \in SyncState /\ before \in Int /\ err \in Int /\ burst \in Nat
      /\ st.adapts \in Nat /\ st.failures \in Nat /\ pc = "verify"
  BY Bounds DEF IInv, TypeOK, SyncState, Judge
<1>2. /\ s \in SyncState /\ s.obs.err = err
      /\ s.adapts = 0 \/ (s.adapts = st.adapts + 1 /\ s.failures = st.failures)
  BY <1>1, JudgeType
<1> HIDE DEF s
<1>3. Finish(s, err) /\ UNCHANGED <<before, whose, clock, burst>>
  BY DEF Judge, s
<1>4. st' = s /\ pc' = "sleep"
  BY <1>3 DEF Finish
<1>5. wait' \in Poll..MaxPoll /\ LooksInTime'
  BY <1>1, <1>2, <1>3, FinishInTime
<1>6. TypeOK'
  BY <1>2, <1>3, <1>4, <1>5 DEF IInv, TypeOK, clock
<1>7. Accounted'
  BY <1>1, <1>2, <1>3, <1>4 DEF IInv, Accounted
<1> QED
  BY <1>3, <1>4, <1>5, <1>6, <1>7 DEF IInv, ActsOnLastReading, WritesAreRationed,
     LandsWhereAimed

\* The wait is over, and the camera's clock did what it did meanwhile.
LEMMA AwakeInv ==
    ASSUME IInv, NEW s \in SyncState, Awake(s),
           s.adapts = 0 \/ (s.adapts = st.adapts /\ s.failures = st.failures),
           err' \in Int, quirk' \in Int, held' \in 0..MaxHeld,
           meddled' \in 0..MaxMeddling, quiet' = quiet
    PROVE  IInv'
<1> DEFINE n == IF s.since = Never THEN s.since ELSE Least(s.since + wait, MaxSpan)
           g == IF s.anchor.has THEN Least(s.anchor.age + wait, MaxSpan) ELSE s.anchor.age
           a == [s.anchor EXCEPT !.age = g]
<1>1. /\ s.since \in -1..MaxSpan /\ s.anchor \in Stretch /\ s.anchor.age \in 0..MaxSpan
      /\ wait \in Nat
  BY Bounds DEF IInv, TypeOK, SyncState, Stretch
<1>2. n \in -1..MaxSpan /\ g \in 0..MaxSpan
  BY <1>1, Bounds DEF Least, Never
<1> HIDE DEF n, g
<1>3. a \in Stretch
  BY <1>1, <1>2 DEF Stretch
<1>4. st' = [s EXCEPT !.since = n, !.anchor = a]
  BY <1>1 DEF Awake, n, g, SyncState, Stretch
<1> HIDE DEF a
<1>5. st' \in SyncState /\ st'.adapts = s.adapts /\ st'.failures = s.failures
  BY <1>2, <1>3, <1>4 DEF SyncState
<1>6. /\ pc = "sleep" /\ pc' = "look" /\ wait' = Poll /\ before' = 0
      /\ whose' = "nobody" /\ burst' = burst
  BY DEF Awake
<1>7. TypeOK'
  BY <1>5, <1>6, Bounds DEF IInv, TypeOK
<1>8. Accounted'
  BY <1>5, <1>6 DEF IInv, Accounted
<1> QED
  BY <1>6, <1>7, <1>8 DEF IInv, ActsOnLastReading, WritesAreRationed,
     LandsWhereAimed, LooksInTime

\* What the world does to a sleeping daemon's camera.
LEMMA WorldInv == ASSUME IInv, World PROVE IInv'
<1>1. /\ st \in SyncState /\ err \in Int /\ quirk \in Int /\ held \in 0..MaxHeld
      /\ meddled \in 0..MaxMeddling
  BY DEF IInv, TypeOK
<1>2. ASSUME NEW by \in Walks, Walk(by) PROVE IInv'
  <2>1. /\ Awake(st) /\ err' = err + by /\ held' = Most(0, held - 1)
        /\ quirk' = quirk /\ meddled' = meddled /\ quiet' = quiet
    BY <1>2 DEF Walk
  <2>2. err' \in Int /\ held' \in 0..MaxHeld
    BY <1>1, <2>1, Bounds, CamSyncAssumption DEF Most
  <2> QED BY <1>1, <2>1, <2>2, AwakeInv
<1>3. ASSUME NEW e \in Jumps, NEW q \in Quirks, NEW noticed \in BOOLEAN,
             Reset(e, q, noticed)
      PROVE  IInv'
  <2> DEFINE s == IF noticed THEN forget_drift(st) ELSE st
  <2>1. /\ Awake(s) /\ err' = e /\ quirk' = q /\ meddled' = meddled + 1
        /\ meddled < MaxMeddling /\ held' = held /\ quiet' = quiet
    BY <1>3 DEF Reset
  <2>2. s \in SyncState
        /\ (s.adapts = 0 \/ (s.adapts = st.adapts /\ s.failures = st.failures))
    BY <1>1, ForgetType
  <2>3. err' \in Int /\ quirk' \in Int /\ meddled' \in 0..MaxMeddling
    BY <1>1, <2>1, CamSyncAssumption
  <2> HIDE DEF s
  <2> QED BY <1>1, <2>1, <2>2, <2>3, AwakeInv
<1>4. ASSUME NEW cycles \in 1..MaxHeld, Plug(cycles) PROVE IInv'
  <2>1. /\ Awake(st) /\ held' = cycles /\ meddled' = meddled + 1
        /\ meddled < MaxMeddling /\ err' = err /\ quirk' = quirk /\ quiet' = quiet
    BY <1>4 DEF Plug
  <2>2. held' \in 0..MaxHeld /\ meddled' \in 0..MaxMeddling
    BY <1>1, <2>1, Bounds
  <2> QED BY <1>1, <2>1, <2>2, AwakeInv
<1>5. ASSUME Settle PROVE IInv'
  BY <1>5 DEF IInv, Settle, TypeOK, Accounted, ActsOnLastReading,
     WritesAreRationed, LandsWhereAimed, LooksInTime
<1> QED BY <1>2, <1>3, <1>4, <1>5 DEF World

\* Every step keeps the invariant.
LEMMA NextInv == ASSUME IInv, [Next]_vars PROVE IInv'
<1>1. CASE Cycle
  <2>1. ASSUME Refused PROVE IInv'
    BY <2>1, FailureInv DEF Refused
  <2>2. ASSUME Unverified PROVE IInv'
    BY <2>2, FailureInv DEF Unverified
  <2> QED
    BY <1>1, <2>1, <2>2, EvaluateInv, EvaluateForcedInv, NoReadingInv, AckedInv,
       JudgeInv DEF Cycle
<1>2. CASE World
  BY <1>2, WorldInv
<1>3. CASE UNCHANGED vars
  BY <1>3 DEF vars, IInv, TypeOK, Accounted, ActsOnLastReading,
     WritesAreRationed, LandsWhereAimed, LooksInTime
<1> QED BY <1>1, <1>2, <1>3 DEF Next

\* The inductive invariant holds throughout.
THEOREM Invariant == Spec => []IInv
<1>1. Init => IInv
  BY InitInv
<1>2. IInv /\ [Next]_vars => IInv'
  BY NextInv
<1> QED BY <1>1, <1>2, PTL DEF Spec

\* The state of the policy keeps its shape, whatever the options are.
THEOREM CamSyncTypeCorrect == Spec => []TypeOK
<1>1. IInv => TypeOK
  BY DEF IInv
<1> QED BY <1>1, Invariant, PTL

\* decide(): the retries the rate limit lets through are bounded by max_adapts
\* and max_failures together.
THEOREM RetriesAreBounded == Spec => []WritesAreRationed
<1>1. IInv => WritesAreRationed
  BY DEF IInv
<1> QED BY <1>1, Invariant, PTL

\* aligned_wait() and aligned_value(): every write lands where it was aimed, at
\* whatever instant the cycle got to it.
THEOREM WritesLand == Spec => []LandsWhereAimed
<1>1. IInv => LandsWhereAimed
  BY DEF IInv
<1> QED BY <1>1, Invariant, PTL

\* next_poll(): the schedule never sleeps through the instant at which
\* something may have to be done.
THEOREM SchedulesInTime == Spec => []LooksInTime
<1>1. IInv => LooksInTime
  BY DEF IInv
<1> QED BY <1>1, Invariant, PTL

-----------------------------------------------------------------------------
(* HciCamera: a camera over the dongle, for any number of calls,           *)
(* connections, handles and buffers, and any camera.                       *)

-----------------------------------------------------------------------------
(* What is filtered and gathered one after another *)

LessThan == {ss \in Nat \X Nat : ss[1] < ss[2]}

LEMMA LeastNatural == ASSUME NEW S, S \subseteq Nat, S # {} PROVE \E x \in S : \A y \in S : x <= y
<1>1. IsWellFoundedOn(LessThan, Nat)
  BY NatLessThanWellFounded, Zenon DEF OpToRel, LessThan
<1>2. PICK x \in S : \A y \in S : ~(<<y, x>> \in LessThan)
  BY <1>1, WFMin, Zenon
<1>3. \A y \in S : ~(y < x)
  BY <1>2 DEF LessThan
<1> QED BY <1>3

\* The fragments kept of the first n.
KeptOr(kept, fragment, h) == IF fragment.h = h THEN kept ELSE Append(kept, fragment)
Keeps(s, h, n, f) == f = [k \in 0..n |-> IF k = 0 THEN <<>> ELSE KeptOr(f[k - 1], s[k], h)]

LEMMA KeepingOn ==
    ASSUME NEW s, NEW h, NEW n \in Nat, NEW f, Keeps(s, h, n, f)
    PROVE  \E g : Keeps(s, h, n + 1, g)
<1> DEFINE last == KeptOr(f[n], s[n + 1], h)
           g == [k \in 0..(n + 1) |-> IF k <= n THEN f[k] ELSE last]
<1>1. ASSUME NEW k \in 0..(n + 1)
      PROVE  g[k] = IF k = 0 THEN <<>> ELSE KeptOr(g[k - 1], s[k], h)
  <2>1. CASE k = 0
    <3>1. f[0] = <<>>
      BY DEF Keeps
    <3> QED BY <2>1, <3>1
  <2>2. CASE k \in 1..n
    <3>1. f[k] = KeptOr(f[k - 1], s[k], h)
      BY <2>2 DEF Keeps
    <3>2. g[k] = f[k] /\ g[k - 1] = f[k - 1] /\ k # 0
      BY <2>2
    <3> HIDE DEF g
    <3> QED BY <3>1, <3>2
  <2>3. CASE k = n + 1
    BY <2>3
  <2> QED BY <2>1, <2>2, <2>3
<1>2. g = [k \in 0..(n + 1) |-> g[k]]
  OBVIOUS
<1> HIDE DEF g
<1>3. Keeps(s, h, n + 1, g)
  BY <1>1, <1>2 DEF Keeps
<1> QED BY <1>3

LEMMA ThereIsAKeeping == ASSUME NEW s, NEW h, NEW n \in Nat PROVE \E f : Keeps(s, h, n, f)
<1> DEFINE not == {k \in Nat : ~\E f : Keeps(s, h, k, f)}
<1> SUFFICES ASSUME not # {} PROVE FALSE
  OBVIOUS
<1>1. PICK k \in not : \A j \in not : k <= j
  BY LeastNatural
<1>2. Keeps(s, h, 0, [i \in 0..0 |-> <<>>])
  BY DEF Keeps
<1>3. k - 1 \in Nat /\ k - 1 \notin not
  BY <1>1, <1>2
<1>4. PICK f : Keeps(s, h, k - 1, f)
  BY <1>3
<1>5. \E g : Keeps(s, h, (k - 1) + 1, g)
  BY <1>3, <1>4, KeepingOn
<1>6. (k - 1) + 1 = k
  BY <1>1
<1> QED BY <1>1, <1>5, <1>6

\* They are fragments that were there, and of another connection.
KeptOf(t, s, h, n) ==
    /\ t \in Seq(Fragment) /\ Len(t) <= n
    /\ \A k \in DOMAIN t : \E j \in DOMAIN s : t[k] = s[j] /\ s[j].h # h

LEMMA WithoutIs ==
    ASSUME NEW s \in Seq(Fragment), NEW h
    PROVE  KeptOf(Without(s, h), s, h, Len(s))
<1> DEFINE f == CHOOSE f : Keeps(s, h, Len(s), f)
           not == {k \in 0..Len(s) : ~KeptOf(f[k], s, h, k)}
<1>1. Len(s) \in Nat
  OBVIOUS
<1>2. Keeps(s, h, Len(s), f)
  BY <1>1, ThereIsAKeeping
<1>3. Without(s, h) = f[Len(s)]
  BY DEF Without, Keeps, KeptOr
<1> HIDE DEF f
<1>4. f[0] = <<>> /\ KeptOf(f[0], s, h, 0)
  BY <1>1, <1>2 DEF Keeps, KeptOf
<1>5. ASSUME NEW k \in 1..Len(s), KeptOf(f[k - 1], s, h, k - 1) PROVE KeptOf(f[k], s, h, k)
  <2>1. f[k] = KeptOr(f[k - 1], s[k], h)
    BY <1>1, <1>2, <1>5 DEF Keeps
  <2>2. CASE s[k].h = h
    BY <1>1, <1>5, <2>1, <2>2 DEF KeptOf, KeptOr
  <2>3. CASE s[k].h # h
    <3> DEFINE t == f[k - 1]
    <3>1. t \in Seq(Fragment) /\ Len(t) <= k - 1 /\ s[k] \in Fragment /\ k \in DOMAIN s
      BY <1>1, <1>5 DEF KeptOf
    <3>2. \A m \in DOMAIN t : \E j \in DOMAIN s : t[m] = s[j] /\ s[j].h # h
      BY <1>5 DEF KeptOf
    <3>3. f[k] = Append(t, s[k])
      BY <2>1, <2>3 DEF KeptOr
    <3> HIDE DEF t
    <3>4. f[k] \in Seq(Fragment) /\ Len(f[k]) = Len(t) + 1
      BY <3>1, <3>3
    <3>5. ASSUME NEW m \in DOMAIN f[k] PROVE \E j \in DOMAIN s : f[k][m] = s[j] /\ s[j].h # h
      <4>1. CASE m \in DOMAIN t
        BY <3>1, <3>2, <3>3, <4>1
      <4>2. CASE m = Len(t) + 1
        BY <2>3, <3>1, <3>3, <4>2
      <4> QED BY <3>1, <3>4, <3>5, <4>1, <4>2
    <3>6. Len(f[k]) <= k
      BY <1>1, <3>1, <3>4
    <3> QED BY <3>4, <3>5, <3>6 DEF KeptOf
  <2> QED BY <2>2, <2>3
<1>6. not = {}
  <2> SUFFICES ASSUME not # {} PROVE FALSE
    OBVIOUS
  <2>1. PICK k \in not : \A j \in not : k <= j
    <3>1. not \subseteq Nat
      BY <1>1
    <3> HIDE DEF not
    <3> QED BY <3>1, LeastNatural
  <2>2. k # 0
    BY <1>4, <2>1
  <2>3. k \in 1..Len(s) /\ k - 1 \in 0..Len(s)
    BY <1>1, <2>1, <2>2
  <2>4. k - 1 \notin not
    BY <2>1, <2>3
  <2>5. KeptOf(f[k - 1], s, h, k - 1)
    BY <2>3, <2>4
  <2> QED BY <1>5, <2>1, <2>3, <2>5
<1>7. Len(s) \in 0..Len(s)
  BY <1>1
<1> QED BY <1>3, <1>6, <1>7

-----------------------------------------------------------------------------
(* Whose turn it is: where the completion of a call may be kept *)

\* The call a piece of work is for.
CallOf(w) ==
    IF w.kind \in {"answer", "paired"} THEN w.req.call ELSE IF w.kind = "result" THEN w.call ELSE 0

LEMMA WorkIs ==
    ASSUME NEW w \in Work
    PROVE  /\ w.kind \in {"answer", "paired", "encrypted", "result", "gone"}
           /\ w.kind = "answer" => w.req \in Request /\ w.ok \in BOOLEAN /\ w.ans \in Answer /\ w.about \in Char \cup {"none"}
           /\ w.kind = "paired" => w.req \in Request /\ w.ok \in BOOLEAN
           /\ w.kind = "encrypted" => w.ok \in BOOLEAN
           /\ w.kind = "result" => w.call \in CallId /\ w.ok \in BOOLEAN
           /\ w.kind = "gone" => w.h \in Handle
           /\ CallOf(w) \in CallId \cup {0}
<1>1. CASE w \in [kind : {"answer"}, req : Request, ok : BOOLEAN, ans : Answer, about : Char \cup {"none"}]
  BY <1>1 DEF CallOf, Request
<1>2. CASE w \in [kind : {"paired"}, req : Request, ok : BOOLEAN]
  BY <1>2 DEF CallOf, Request
<1>3. CASE w \in [kind : {"encrypted"}, ok : BOOLEAN]
  BY <1>3 DEF CallOf
<1>4. CASE w \in [kind : {"result"}, call : CallId, ok : BOOLEAN]
  BY <1>4 DEF CallOf
<1>5. CASE w \in [kind : {"gone"}, h : Handle]
  BY <1>5 DEF CallOf
<1> QED BY <1>1, <1>2, <1>3, <1>4, <1>5 DEF Work

LEMMA RequestIs ==
    ASSUME NEW r \in Request
    PROVE  r.call \in CallId /\ r.call # 0 /\ r # NoReq
BY DEF Request, NoReq, CallId

LEMMA MadeWork ==
    /\ \A r \in Request : Failed(r) \in Work /\ CallOf(Failed(r)) = r.call
    /\ \A r \in Request, a \in Answer, o \in Char \cup {"none"} :
          Answered(r, a, o) \in Work /\ CallOf(Answered(r, a, o)) = r.call
    /\ \A c \in CallId, ok \in BOOLEAN : Result(c, ok) \in Work /\ CallOf(Result(c, ok)) = c
    /\ \A r \in Request, ok \in BOOLEAN :
          LET w == [kind |-> "paired", req |-> r, ok |-> ok] IN w \in Work /\ CallOf(w) = r.call
    /\ \A ok \in BOOLEAN : LET w == [kind |-> "encrypted", ok |-> ok] IN w \in Work /\ CallOf(w) = 0
    /\ \A h \in Handle : LET w == [kind |-> "gone", h |-> h] IN w \in Work /\ CallOf(w) = 0
<1>1. ASSUME NEW r \in Request PROVE Failed(r) \in Work /\ CallOf(Failed(r)) = r.call
  BY DEF Failed, Work, Answer, CallOf
<1>2. ASSUME NEW r \in Request, NEW a \in Answer, NEW o \in Char \cup {"none"}
      PROVE  Answered(r, a, o) \in Work /\ CallOf(Answered(r, a, o)) = r.call
  BY DEF Answered, Work, CallOf
<1>3. ASSUME NEW c \in CallId, NEW ok \in BOOLEAN PROVE Result(c, ok) \in Work /\ CallOf(Result(c, ok)) = c
  BY DEF Result, Work, CallOf
<1>4. ASSUME NEW r \in Request, NEW ok \in BOOLEAN
      PROVE  LET w == [kind |-> "paired", req |-> r, ok |-> ok] IN w \in Work /\ CallOf(w) = r.call
  BY DEF Work, CallOf
<1>5. ASSUME NEW ok \in BOOLEAN PROVE LET w == [kind |-> "encrypted", ok |-> ok] IN w \in Work /\ CallOf(w) = 0
  BY DEF Work, CallOf
<1>6. ASSUME NEW h \in Handle PROVE LET w == [kind |-> "gone", h |-> h] IN w \in Work /\ CallOf(w) = 0
  BY DEF Work, CallOf
<1> QED BY <1>1, <1>2, <1>3, <1>4, <1>5, <1>6

\* Somewhere in a line of work, and not twice.
In(s, i) == \E a \in DOMAIN s : CallOf(s[a]) = i
Once(s, i) == \A a, b \in DOMAIN s : CallOf(s[a]) = i /\ CallOf(s[b]) = i => a = b

\* Somewhere on a channel, and not twice.
Has(ch, i) == ch.flight.call = i \/ \E a \in DOMAIN ch.queue : ch.queue[a].call = i
HasOnce(ch, i) ==
    /\ \A a, b \in DOMAIN ch.queue : ch.queue[a].call = i /\ ch.queue[b].call = i => a = b
    /\ ch.flight.call = i => \A a \in DOMAIN ch.queue : ch.queue[a].call # i

LEMMA Appended ==
    ASSUME NEW s \in Seq(Work), NEW w \in Work, NEW i
    PROVE  /\ Append(s, w) \in Seq(Work)
           /\ In(Append(s, w), i) <=> In(s, i) \/ CallOf(w) = i
           /\ Once(s, i) /\ (CallOf(w) = i => ~In(s, i)) => Once(Append(s, w), i)
<1> DEFINE t == Append(s, w)
<1>1. Len(s) \in Nat /\ DOMAIN s = 1..Len(s)
  OBVIOUS
<1>2. t \in Seq(Work) /\ DOMAIN t = 1..(Len(s) + 1) /\ t[Len(s) + 1] = w /\ \A a \in 1..Len(s) : t[a] = s[a]
  OBVIOUS
<1> HIDE DEF t
<1>3. In(t, i) <=> In(s, i) \/ CallOf(w) = i
  BY <1>1, <1>2 DEF In
<1>4. Once(s, i) /\ (CallOf(w) = i => ~In(s, i)) => Once(t, i)
  BY <1>1, <1>2 DEF In, Once
<1> QED BY <1>2, <1>3, <1>4 DEF t

LEMMA Joined ==
    ASSUME NEW s \in Seq(Work), NEW t \in Seq(Work), NEW i
    PROVE  /\ s \o t \in Seq(Work)
           /\ In(s \o t, i) <=> In(s, i) \/ In(t, i)
           /\ Once(s, i) /\ Once(t, i) /\ ~(In(s, i) /\ In(t, i)) => Once(s \o t, i)
<1> DEFINE u == s \o t
<1>1. Len(s) \in Nat /\ DOMAIN s = 1..Len(s) /\ Len(t) \in Nat /\ DOMAIN t = 1..Len(t)
  OBVIOUS
<1>2. u \in Seq(Work) /\ DOMAIN u = 1..(Len(s) + Len(t))
  OBVIOUS
<1>3. (\A a \in 1..Len(s) : u[a] = s[a]) /\ \A a \in 1..Len(t) : u[Len(s) + a] = t[a]
  OBVIOUS
<1> HIDE DEF u
<1>4. \A a \in DOMAIN u : \/ a \in DOMAIN s /\ u[a] = s[a]
                          \/ a - Len(s) \in DOMAIN t /\ u[a] = t[a - Len(s)]
  <2> SUFFICES ASSUME NEW a \in DOMAIN u
               PROVE  \/ a \in DOMAIN s /\ u[a] = s[a]
                      \/ a - Len(s) \in DOMAIN t /\ u[a] = t[a - Len(s)]
    OBVIOUS
  <2>1. CASE a <= Len(s)
    BY <1>1, <1>2, <1>3, <2>1
  <2>2. CASE a > Len(s)
    <3> DEFINE b == a - Len(s)
    <3>1. b \in 1..Len(t) /\ Len(s) + b = a
      BY <1>1, <1>2, <2>2
    <3> QED BY <1>1, <1>3, <3>1
  <2> QED BY <1>1, <1>2, <2>1, <2>2
<1>5. In(u, i) <=> In(s, i) \/ In(t, i)
  <2>1. In(u, i) => In(s, i) \/ In(t, i)
    BY <1>4 DEF In
  <2>2. In(s, i) => In(u, i)
    BY <1>1, <1>2, <1>3 DEF In
  <2>3. In(t, i) => In(u, i)
    <3> SUFFICES ASSUME NEW a \in DOMAIN t, CallOf(t[a]) = i PROVE In(u, i)
      BY DEF In
    <3>1. Len(s) + a \in DOMAIN u /\ u[Len(s) + a] = t[a]
      BY <1>1, <1>2, <1>3
    <3> QED BY <3>1 DEF In
  <2> QED BY <2>1, <2>2, <2>3
<1>6. ASSUME Once(s, i), Once(t, i), ~(In(s, i) /\ In(t, i)) PROVE Once(u, i)
  <2> SUFFICES ASSUME NEW a \in DOMAIN u, NEW b \in DOMAIN u, CallOf(u[a]) = i, CallOf(u[b]) = i PROVE a = b
    BY DEF Once
  <2>1. \/ a \in DOMAIN s /\ CallOf(s[a]) = i
        \/ a - Len(s) \in DOMAIN t /\ CallOf(t[a - Len(s)]) = i
    BY <1>4
  <2>2. \/ b \in DOMAIN s /\ CallOf(s[b]) = i
        \/ b - Len(s) \in DOMAIN t /\ CallOf(t[b - Len(s)]) = i
    BY <1>4
  <2>3. CASE a \in DOMAIN s /\ CallOf(s[a]) = i
    BY <1>6, <2>2, <2>3 DEF In, Once
  <2>4. CASE a - Len(s) \in DOMAIN t /\ CallOf(t[a - Len(s)]) = i
    <3>1. b - Len(s) \in DOMAIN t /\ CallOf(t[b - Len(s)]) = i
      BY <1>6, <2>2, <2>4 DEF In
    <3>2. a - Len(s) = b - Len(s)
      BY <1>6, <2>4, <3>1 DEF Once
    <3> QED BY <1>1, <1>2, <3>2
  <2> QED BY <2>1, <2>3, <2>4
<1> QED BY <1>2, <1>5, <1>6 DEF u

LEMMA OneIs ==
    ASSUME NEW w \in Work, NEW i
    PROVE  <<w>> \in Seq(Work) /\ (In(<<w>>, i) <=> CallOf(w) = i) /\ Once(<<w>>, i)
BY DEF In, Once

LEMMA Pushed ==
    ASSUME NEW s \in Seq(Work), NEW w \in Work, NEW i
    PROVE  /\ <<w>> \o s \in Seq(Work)
           /\ In(<<w>> \o s, i) <=> In(s, i) \/ CallOf(w) = i
           /\ Once(s, i) /\ (CallOf(w) = i => ~In(s, i)) => Once(<<w>> \o s, i)
BY OneIs, Joined

LEMMA FirstTaken ==
    ASSUME NEW s \in Seq(Work), s # <<>>, NEW i
    PROVE  /\ Tail(s) \in Seq(Work) /\ Head(s) \in Work
           /\ In(Tail(s), i) => In(s, i)
           /\ CallOf(Head(s)) = i => In(s, i)
           /\ Once(s, i) => Once(Tail(s), i) /\ (CallOf(Head(s)) = i => ~In(Tail(s), i))
<1> DEFINE t == Tail(s)
<1>1. Len(s) \in Nat /\ DOMAIN s = 1..Len(s) /\ 1 \in DOMAIN s /\ Head(s) = s[1] /\ Head(s) \in Work
  OBVIOUS
<1>2. t \in Seq(Work) /\ DOMAIN t = 1..(Len(s) - 1) /\ \A a \in 1..(Len(s) - 1) : t[a] = s[a + 1]
  OBVIOUS
<1> HIDE DEF t
<1>3. \A a \in DOMAIN t : a + 1 \in DOMAIN s /\ t[a] = s[a + 1] /\ a \in Nat /\ a + 1 # 1
  BY <1>1, <1>2
<1>4. In(t, i) => In(s, i)
  BY <1>3 DEF In
<1>5. CallOf(Head(s)) = i => In(s, i)
  BY <1>1 DEF In
<1>6. ASSUME Once(s, i), NEW a \in DOMAIN t, NEW b \in DOMAIN t, CallOf(t[a]) = i, CallOf(t[b]) = i PROVE a = b
  <2>1. a + 1 = b + 1
    BY <1>3, <1>6 DEF Once
  <2> QED BY <1>3, <2>1
<1>7. Once(s, i) /\ CallOf(Head(s)) = i => ~In(t, i)
  BY <1>1, <1>3 DEF In, Once
<1> QED BY <1>1, <1>2, <1>4, <1>5, <1>6, <1>7 DEF Once, t

-----------------------------------------------------------------------------
(* The link's queues.  The invariant is about the record that a handler    *)
(* computes on, so that it can be said between two of its calls.           *)

Conn == [open : BOOLEAN, made : Made, enc : BOOLEAN, notes : SUBSET Char]
Channel == [flight : Request \cup {NoReq}, queue : Seq(Request)]
Chain == [conns : [Handle -> Conn], chan : [Handle -> Channel], acl : Seq(Fragment), credits : Nat, sent : Seq(Fragment),
          stack : Seq(Work), posted : Seq(Work)]

\* A fragment is of the connection that is there.
IsOf(q, f) == q.conns[f.h].open /\ f.made = q.conns[f.h].made

\* There is nothing of a connection that is not there.
Bare(q) ==
    \A h \in Handle : ~q.conns[h].open => ~q.conns[h].enc /\ q.conns[h].notes = {} /\ q.chan[h] = EmptyChan

Fits(q) ==
    /\ q \in Chain
    /\ Len(q.acl) <= MaxFragments /\ q.credits + Len(q.sent) <= AclTotal
    /\ \A a \in DOMAIN q.acl : IsOf(q, q.acl[a])
    /\ \A a \in DOMAIN q.sent : IsOf(q, q.sent[a])
    /\ Bare(q)

\* Only fragments have moved.
SameWork(r, q) == r.conns = q.conns /\ r.chan = q.chan /\ r.stack = q.stack /\ r.posted = q.posted

LEMMA Pumped == ASSUME NEW q, Fits(q) PROVE Fits(pump_acl(q)) /\ SameWork(pump_acl(q), q)
<1> DEFINE n == IF q.credits < Len(q.acl) THEN q.credits ELSE Len(q.acl)
           gone == SubSeq(q.acl, 1, n)
           left == SubSeq(q.acl, n + 1, Len(q.acl))
           out == q.sent \o gone
           r == [q EXCEPT !.credits = q.credits - n, !.sent = out, !.acl = left]
<1>1. r = pump_acl(q)
  BY DEF pump_acl
<1>2. q \in Chain /\ Len(q.acl) \in Nat /\ q.credits \in Nat /\ q.acl \in Seq(Fragment) /\ q.sent \in Seq(Fragment)
  BY DEF Fits, Chain
<1>3. n \in 0..Len(q.acl) /\ n <= q.credits
  BY <1>2
<1> HIDE DEF n
<1>4. gone \in Seq(Fragment) /\ Len(gone) = n /\ \A a \in 1..n : gone[a] = q.acl[a]
  BY <1>2, <1>3
<1>5. left \in Seq(Fragment) /\ Len(left) = Len(q.acl) - n /\ \A a \in 1..(Len(q.acl) - n) : left[a] = q.acl[n + a]
  BY <1>2, <1>3
<1> HIDE DEF gone, left
<1>6. /\ out \in Seq(Fragment) /\ Len(out) = Len(q.sent) + n
      /\ \A a \in 1..Len(out) : \/ a \in DOMAIN q.sent /\ out[a] = q.sent[a]
                                \/ a - Len(q.sent) \in 1..n /\ out[a] = gone[a - Len(q.sent)]
  <2>1. out \in Seq(Fragment) /\ Len(out) = Len(q.sent) + n
    BY <1>2, <1>4, ConcatProperties
  <2>2. ASSUME NEW a \in 1..Len(out)
        PROVE  \/ a \in DOMAIN q.sent /\ out[a] = q.sent[a]
               \/ a - Len(q.sent) \in 1..n /\ out[a] = gone[a - Len(q.sent)]
    <3>1. CASE a <= Len(q.sent)
      BY <1>2, <1>4, <2>2, <3>1
    <3>2. CASE a > Len(q.sent)
      BY <1>2, <1>3, <1>4, <2>1, <2>2, <3>2
    <3> QED BY <1>2, <3>1, <3>2
  <2> QED BY <2>1, <2>2
<1> HIDE DEF out
<1>7. q.credits - n \in Nat
  BY <1>2, <1>3
<1>8. /\ r \in Chain /\ SameWork(r, q) /\ r.acl = left /\ r.sent = out /\ r.credits = q.credits - n
  BY <1>2, <1>5, <1>6, <1>7 DEF Chain, SameWork
<1> HIDE DEF r
<1>9. ASSUME NEW f, IsOf(q, f) PROVE IsOf(r, f)
  BY <1>8, <1>9 DEF IsOf, SameWork
<1>10. \A a \in DOMAIN r.acl : IsOf(r, r.acl[a])
  <2> SUFFICES ASSUME NEW a \in 1..(Len(q.acl) - n) PROVE IsOf(r, left[a])
    BY <1>5, <1>8
  <2>1. n + a \in DOMAIN q.acl
    BY <1>2, <1>3
  <2>2. IsOf(q, q.acl[n + a])
    BY <2>1 DEF Fits
  <2> QED BY <1>5, <1>9, <2>2
<1>11. \A a \in DOMAIN r.sent : IsOf(r, r.sent[a])
  <2>0. r.sent = out /\ DOMAIN out = 1..Len(out)
    BY <1>6, <1>8
  <2> SUFFICES ASSUME NEW a \in 1..Len(out) PROVE IsOf(r, out[a])
    BY <2>0
  <2>1. CASE a \in DOMAIN q.sent /\ out[a] = q.sent[a]
    BY <1>9, <2>1 DEF Fits
  <2>2. CASE a - Len(q.sent) \in 1..n /\ out[a] = gone[a - Len(q.sent)]
    <3> DEFINE b == a - Len(q.sent)
    <3>1. b \in 1..n /\ b \in DOMAIN q.acl /\ out[a] = gone[b]
      BY <1>2, <1>3, <2>2
    <3> HIDE DEF b
    <3>2. gone[b] = q.acl[b]
      BY <1>4, <3>1
    <3>3. IsOf(q, q.acl[b])
      BY <3>1 DEF Fits
    <3> QED BY <1>9, <3>1, <3>2, <3>3
  <2> QED BY <1>6, <2>1, <2>2
<1>12. Len(r.acl) <= MaxFragments /\ r.credits + Len(r.sent) <= AclTotal
  <2>1. Len(q.acl) <= MaxFragments /\ q.credits + Len(q.sent) <= AclTotal /\ Len(q.sent) \in Nat
    BY <1>2 DEF Fits
  <2>2. Len(r.acl) = Len(q.acl) - n /\ Len(r.sent) = Len(q.sent) + n /\ r.credits = q.credits - n
    BY <1>5, <1>6, <1>8
  <2>3. n \in Nat /\ Len(q.acl) \in Nat /\ q.credits \in Nat /\ MaxFragments \in Nat /\ AclTotal \in Nat
    BY <1>2, <1>3, HciCameraAssumption DEF HciCameraAssumption
  <2> QED BY <2>1, <2>2, <2>3
<1>13. Bare(r)
  BY <1>8 DEF Fits, Bare, SameWork
<1>14. Fits(r)
  BY <1>8, <1>10, <1>11, <1>12, <1>13 DEF Fits
<1> QED BY <1>1, <1>8, <1>14

FragmentFor(q, h, kind, req) == [h |-> h, made |-> q.conns[h].made, kind |-> kind, req |-> req]

LEMMA Queued ==
    ASSUME NEW q, Fits(q), NEW h \in Handle, CanQueue(q, h), NEW kind, NEW req,
           FragmentFor(q, h, kind, req) \in Fragment
    PROVE  Fits(queue_acl(q, h, kind, req)) /\ SameWork(queue_acl(q, h, kind, req), q)
<1> DEFINE f == FragmentFor(q, h, kind, req)
           line == Append(q.acl, f)
           r == [q EXCEPT !.acl = line]
<1>1. q \in Chain /\ q.acl \in Seq(Fragment) /\ q.conns[h].open /\ Len(q.acl) < MaxFragments
  BY DEF Fits, Chain, CanQueue
<1>2. f \in Fragment /\ f.h = h /\ f.made = q.conns[h].made
  BY DEF FragmentFor
<1> HIDE DEF f
<1>3. line \in Seq(Fragment) /\ Len(line) = Len(q.acl) + 1 /\ DOMAIN line = 1..(Len(q.acl) + 1)
      /\ line[Len(q.acl) + 1] = f /\ \A a \in 1..Len(q.acl) : line[a] = q.acl[a]
  BY <1>1, <1>2
<1> HIDE DEF line
<1>4. r \in Chain /\ SameWork(r, q) /\ r.acl = line /\ r.sent = q.sent /\ r.credits = q.credits
  BY <1>1, <1>3 DEF Chain, SameWork
<1>5. queue_acl(q, h, kind, req) = pump_acl(r)
  BY DEF queue_acl, f, line, FragmentFor
<1> HIDE DEF r
<1>6. ASSUME NEW a \in DOMAIN r.acl PROVE IsOf(r, r.acl[a])
  <2>1. CASE a = Len(q.acl) + 1
    BY <1>1, <1>2, <1>3, <1>4, <2>1 DEF IsOf, SameWork
  <2>2. CASE a \in DOMAIN q.acl
    <3>1. IsOf(q, q.acl[a])
      BY <2>2 DEF Fits
    <3>2. r.acl[a] = q.acl[a]
      BY <1>1, <1>3, <1>4, <2>2
    <3> QED BY <1>4, <3>1, <3>2 DEF IsOf, SameWork
  <2> QED BY <1>1, <1>3, <1>4, <1>6, <2>1, <2>2
<1>7. Len(r.acl) <= MaxFragments
  BY <1>1, <1>3, <1>4, HciCameraAssumption DEF HciCameraAssumption
<1>8. Fits(r)
  BY <1>4, <1>6, <1>7 DEF Fits, IsOf, Bare, SameWork
<1> QED BY <1>4, <1>5, <1>8, Pumped DEF SameWork

LEMMA QueuedAtt ==
    ASSUME NEW q, Fits(q), NEW h \in Handle, CanQueue(q, h), NEW req \in Request
    PROVE  Fits(queue_acl(q, h, "att", req)) /\ SameWork(queue_acl(q, h, "att", req), q)
<1>1. q.conns[h].made \in Made
  BY DEF Fits, Chain, Conn
<1>2. FragmentFor(q, h, "att", req) \in Fragment
  BY <1>1 DEF FragmentFor, Fragment
<1> QED BY <1>2, Queued

LEMMA QueuedSmp ==
    ASSUME NEW q, Fits(q), NEW h \in Handle, CanQueue(q, h)
    PROVE  Fits(queue_acl(q, h, "smp", NoReq)) /\ SameWork(queue_acl(q, h, "smp", NoReq), q)
<1>1. q.conns[h].made \in Made
  BY DEF Fits, Chain, Conn
<1>2. FragmentFor(q, h, "smp", NoReq) \in Fragment
  BY <1>1 DEF FragmentFor, Fragment
<1> QED BY <1>2, Queued

-----------------------------------------------------------------------------
(* A completion is held in one place: on the stack, posted, or with a request *)
(* on a channel.                                                             *)

OnChannel(q, i) == \E h \in Handle : Has(q.chan[h], i)
Holds(q, i) == In(q.stack, i) \/ In(q.posted, i) \/ OnChannel(q, i)
Single(q, i) ==
    /\ Once(q.stack, i) /\ Once(q.posted, i)
    /\ \A h \in Handle : HasOnce(q.chan[h], i)
    /\ \A g, h \in Handle : Has(q.chan[g], i) /\ Has(q.chan[h], i) => g = h
    /\ ~(In(q.stack, i) /\ In(q.posted, i))
    /\ OnChannel(q, i) => ~In(q.stack, i) /\ ~In(q.posted, i)

\* From q to r only the completions of the calls in T are added.
Takes(q, r, T) ==
    \A i \in CallId : /\ Holds(r, i) => Holds(q, i) \/ i \in T
                      /\ Single(q, i) /\ (i \in T => ~Holds(q, i)) => Single(r, i)

\* From q to r the completion of a call is taken out.
Leaves(q, r, c) ==
    \A i \in CallId : /\ Holds(r, i) => Holds(q, i)
                      /\ Single(q, i) => Single(r, i) /\ (i = c => ~Holds(r, i))

\* What can be said of one channel, of its request in flight and its queue.
ChannelTakes(ch, ch2, T) ==
    \A i \in CallId : /\ Has(ch2, i) => Has(ch, i) \/ i \in T
                      /\ HasOnce(ch, i) /\ (i \in T => ~Has(ch, i)) => HasOnce(ch2, i)
ChannelLeaves(ch, ch2, c) ==
    \A i \in CallId : /\ Has(ch2, i) => Has(ch, i)
                      /\ HasOnce(ch, i) => HasOnce(ch2, i) /\ (i = c => ~Has(ch2, i))

\* r is q but for one channel.
OtherwiseSame(q, r, h, ch) ==
    /\ r.conns = q.conns /\ r.stack = q.stack /\ r.posted = q.posted
    /\ r.acl = q.acl /\ r.sent = q.sent /\ r.credits = q.credits
    /\ r.chan[h] = ch /\ \A g \in Handle \ {h} : r.chan[g] = q.chan[g]

LEMMA SameWorkTakes == ASSUME NEW q, NEW r, SameWork(r, q) PROVE Takes(q, r, {})
<1>1. ASSUME NEW i PROVE (Holds(r, i) <=> Holds(q, i)) /\ (Single(r, i) <=> Single(q, i))
  BY DEF SameWork, Holds, Single, OnChannel
<1> QED BY <1>1 DEF Takes

LEMMA ThenNothing ==
    ASSUME NEW q, NEW r, NEW s, NEW T, Takes(q, r, T), Takes(r, s, {})
    PROVE  Takes(q, s, T)
BY DEF Takes

LEMMA NothingThen ==
    ASSUME NEW q, NEW r, NEW s, NEW T, Takes(q, r, {}), Takes(r, s, T)
    PROVE  Takes(q, s, T)
BY DEF Takes

LEMMA BothTaken ==
    ASSUME NEW q, NEW r, NEW s, NEW T, NEW U, Takes(q, r, T), Takes(r, s, U), \A c \in CallId : ~(c \in T /\ c \in U)
    PROVE  Takes(q, s, T \cup U)
BY DEF Takes

\* A completion that is only moved is not added.
LEMMA OnlyMoved ==
    ASSUME NEW q, NEW r, NEW s, NEW c, Leaves(q, r, c), c \in CallId => Holds(q, c), Takes(r, s, {c})
    PROVE  Takes(q, s, {})
BY DEF Takes, Leaves

\* A completion pushed on the stack, or posted.
Push(q, w) == [q EXCEPT !.stack = <<w>> \o q.stack]
Post(q, w) == [q EXCEPT !.posted = Append(q.posted, w)]

LEMMA PushTakes ==
    ASSUME NEW q, Fits(q), NEW w \in Work
    PROVE  Takes(q, Push(q, w), {CallOf(w)}) /\ Fits(Push(q, w)) /\ Push(q, w).conns = q.conns
<1>0. q \in Chain
  BY DEF Fits
<1>1. q.stack \in Seq(Work)
  BY <1>0 DEF Chain
<1> DEFINE t == <<w>> \o q.stack
           r == Push(q, w)
<1>2. t \in Seq(Work)
  BY <1>1
<1>3. ASSUME NEW i PROVE (In(t, i) <=> In(q.stack, i) \/ CallOf(w) = i)
                         /\ (Once(q.stack, i) /\ (CallOf(w) = i => ~In(q.stack, i)) => Once(t, i))
  BY <1>1, Pushed
<1> HIDE DEF t
<1>4. r = [q EXCEPT !.stack = t]
  BY DEF t, Push
<1> HIDE DEF r
<1>5. /\ r \in Chain /\ r.stack = t /\ r.posted = q.posted /\ r.chan = q.chan /\ r.conns = q.conns
      /\ r.acl = q.acl /\ r.sent = q.sent /\ r.credits = q.credits
  BY <1>0, <1>2, <1>4 DEF Chain
<1>6. Takes(q, r, {CallOf(w)})
  BY <1>3, <1>5 DEF Takes, Holds, Single, OnChannel
<1>7. Fits(r)
  BY <1>5 DEF Fits, IsOf, Bare
<1> QED BY <1>5, <1>6, <1>7 DEF r

LEMMA PostTakes ==
    ASSUME NEW q, Fits(q), NEW w \in Work
    PROVE  Takes(q, Post(q, w), {CallOf(w)}) /\ Fits(Post(q, w)) /\ Post(q, w).conns = q.conns
<1>0. q \in Chain
  BY DEF Fits
<1>1. q.posted \in Seq(Work)
  BY <1>0 DEF Chain
<1> DEFINE t == Append(q.posted, w)
           r == Post(q, w)
<1>2. t \in Seq(Work)
  BY <1>1
<1>3. ASSUME NEW i PROVE (In(t, i) <=> In(q.posted, i) \/ CallOf(w) = i)
                         /\ (Once(q.posted, i) /\ (CallOf(w) = i => ~In(q.posted, i)) => Once(t, i))
  BY <1>1, Appended
<1> HIDE DEF t
<1>4. r = [q EXCEPT !.posted = t]
  BY DEF t, Post
<1> HIDE DEF r
<1>5. /\ r \in Chain /\ r.stack = q.stack /\ r.posted = t /\ r.chan = q.chan /\ r.conns = q.conns
      /\ r.acl = q.acl /\ r.sent = q.sent /\ r.credits = q.credits
  BY <1>0, <1>2, <1>4 DEF Chain
<1>6. Takes(q, r, {CallOf(w)})
  BY <1>3, <1>5 DEF Takes, Holds, Single, OnChannel
<1>7. Fits(r)
  BY <1>5 DEF Fits, IsOf, Bare
<1> QED BY <1>5, <1>6, <1>7 DEF r

LEMMA ChannelChanged ==
    ASSUME NEW q \in Chain, NEW h \in Handle, NEW ch \in Channel, NEW r, r = [q EXCEPT !.chan[h] = ch]
    PROVE  /\ r \in Chain /\ OtherwiseSame(q, r, h, ch)
           /\ Fits(q) /\ (~q.conns[h].open => ch = EmptyChan) => Fits(r)
<1> DEFINE cs == [q.chan EXCEPT ![h] = ch]
<1>1. q.chan \in [Handle -> Channel]
  BY DEF Chain
<1>2. cs \in [Handle -> Channel] /\ cs[h] = ch /\ \A g \in Handle \ {h} : cs[g] = q.chan[g]
  BY <1>1
<1> HIDE DEF cs
<1>3. r = [q EXCEPT !.chan = cs]
  BY DEF cs
<1>4. /\ r \in Chain /\ r.chan = cs /\ r.stack = q.stack /\ r.posted = q.posted /\ r.conns = q.conns
      /\ r.acl = q.acl /\ r.sent = q.sent /\ r.credits = q.credits
  BY <1>2, <1>3 DEF Chain
<1> HIDE <1>3
<1>5. OtherwiseSame(q, r, h, ch)
  BY <1>2, <1>4 DEF OtherwiseSame
<1>6. ASSUME Fits(q), ~q.conns[h].open => ch = EmptyChan PROVE Fits(r)
  <2>1. Bare(r)
    <3> SUFFICES ASSUME NEW g \in Handle, ~r.conns[g].open
                 PROVE  ~r.conns[g].enc /\ r.conns[g].notes = {} /\ r.chan[g] = EmptyChan
      BY DEF Bare
    <3>1. ~q.conns[g].open
      BY <1>4
    <3>2. ~q.conns[g].enc /\ q.conns[g].notes = {} /\ q.chan[g] = EmptyChan
      BY <1>6, <3>1 DEF Fits, Bare
    <3>3. r.chan[g] = EmptyChan
      BY <1>2, <1>4, <1>6, <3>1, <3>2
    <3> QED BY <1>4, <3>2, <3>3
  <2> QED BY <1>4, <1>6, <2>1 DEF Fits, IsOf
<1> QED BY <1>4, <1>5, <1>6

LEMMA ChannelTaken ==
    ASSUME NEW q, NEW r, NEW h \in Handle, NEW ch, OtherwiseSame(q, r, h, ch),
           NEW T, ChannelTakes(q.chan[h], ch, T)
    PROVE  Takes(q, r, T)
<1> SUFFICES ASSUME NEW i \in CallId
             PROVE  /\ Holds(r, i) => Holds(q, i) \/ i \in T
                    /\ Single(q, i) /\ (i \in T => ~Holds(q, i)) => Single(r, i)
  BY DEF Takes
<1>1. ASSUME NEW g \in Handle PROVE Has(r.chan[g], i) => Has(q.chan[g], i) \/ (g = h /\ i \in T)
  BY DEF OtherwiseSame, ChannelTakes
<1>2. OnChannel(r, i) => OnChannel(q, i) \/ i \in T
  BY <1>1 DEF OnChannel
<1>3. In(r.stack, i) = In(q.stack, i) /\ In(r.posted, i) = In(q.posted, i)
      /\ Once(r.stack, i) = Once(q.stack, i) /\ Once(r.posted, i) = Once(q.posted, i)
  BY DEF OtherwiseSame
<1>4. Holds(r, i) => Holds(q, i) \/ i \in T
  BY <1>2, <1>3 DEF Holds
<1>5. ASSUME Single(q, i), i \in T => ~Holds(q, i) PROVE Single(r, i)
  <2>1. \A g \in Handle : HasOnce(r.chan[g], i)
    BY <1>5 DEF OtherwiseSame, ChannelTakes, Single, Holds, OnChannel
  <2>2. \A f, g \in Handle : Has(r.chan[f], i) /\ Has(r.chan[g], i) => f = g
    BY <1>1, <1>5 DEF Single, Holds, OnChannel
  <2>3. OnChannel(r, i) => ~In(r.stack, i) /\ ~In(r.posted, i)
    BY <1>2, <1>3, <1>5 DEF Single, Holds
  <2> QED BY <1>3, <1>5, <2>1, <2>2, <2>3 DEF Single
<1> QED BY <1>4, <1>5

LEMMA ChannelLeft ==
    ASSUME NEW q, NEW r, NEW h \in Handle, NEW ch, OtherwiseSame(q, r, h, ch),
           NEW c, ChannelLeaves(q.chan[h], ch, c), c \in CallId => Has(q.chan[h], c)
    PROVE  Leaves(q, r, c)
<1> SUFFICES ASSUME NEW i \in CallId
             PROVE  /\ Holds(r, i) => Holds(q, i)
                    /\ Single(q, i) => Single(r, i) /\ (i = c => ~Holds(r, i))
  BY DEF Leaves
<1>1. ASSUME NEW g \in Handle PROVE Has(r.chan[g], i) => Has(q.chan[g], i)
  BY DEF OtherwiseSame, ChannelLeaves
<1>2. OnChannel(r, i) => OnChannel(q, i)
  BY <1>1 DEF OnChannel
<1>3. In(r.stack, i) = In(q.stack, i) /\ In(r.posted, i) = In(q.posted, i)
      /\ Once(r.stack, i) = Once(q.stack, i) /\ Once(r.posted, i) = Once(q.posted, i)
  BY DEF OtherwiseSame
<1>4. Holds(r, i) => Holds(q, i)
  BY <1>2, <1>3 DEF Holds
<1>5. ASSUME Single(q, i) PROVE Single(r, i)
  <2>1. \A g \in Handle : HasOnce(r.chan[g], i)
    BY <1>5 DEF OtherwiseSame, ChannelLeaves, Single
  <2>2. \A f, g \in Handle : Has(r.chan[f], i) /\ Has(r.chan[g], i) => f = g
    BY <1>1, <1>5 DEF Single
  <2> QED BY <1>2, <1>3, <1>5, <2>1, <2>2 DEF Single
<1>6. ASSUME Single(q, i), i = c PROVE ~Holds(r, i)
  <2>1. Has(q.chan[h], i) /\ OnChannel(q, i)
    BY <1>6 DEF OnChannel
  <2>2. ~In(r.stack, i) /\ ~In(r.posted, i)
    BY <1>3, <1>6, <2>1 DEF Single
  <2>3. ~Has(r.chan[h], i)
    BY <1>6 DEF OtherwiseSame, ChannelLeaves, Single
  <2>4. ASSUME NEW g \in Handle PROVE ~Has(r.chan[g], i)
    BY <1>1, <1>6, <2>1, <2>3, <2>4 DEF Single
  <2> QED BY <2>2, <2>4 DEF Holds, OnChannel
<1> QED BY <1>4, <1>5, <1>6

-----------------------------------------------------------------------------
(* ATT: a request waits, is in flight, and is answered, on one channel *)

LEMMA RequestWaits ==
    ASSUME NEW ch \in Channel, NEW req \in Request
    PROVE  LET ch2 == [ch EXCEPT !.queue = Append(ch.queue, req)]
           IN  ch2 \in Channel /\ ch2.queue # <<>> /\ ChannelTakes(ch, ch2, {req.call})
<1> DEFINE s == ch.queue
           t == Append(s, req)
           ch2 == [ch EXCEPT !.queue = t]
<1>1. s \in Seq(Request) /\ Len(s) \in Nat /\ DOMAIN s = 1..Len(s)
  BY DEF Channel
<1> HIDE DEF s
<1>2. t \in Seq(Request) /\ DOMAIN t = 1..(Len(s) + 1) /\ t[Len(s) + 1] = req /\ (\A a \in 1..Len(s) : t[a] = s[a]) /\ t # <<>>
  BY <1>1
<1> HIDE DEF t
<1> USE DEF s
<1>3. ch2 \in Channel /\ ch2.queue = t /\ ch2.flight = ch.flight
  BY <1>2 DEF Channel
<1> HIDE DEF ch2
<1>4. ASSUME NEW i PROVE Has(ch2, i) => Has(ch, i) \/ i = req.call
  <2>1. \A a \in DOMAIN t : t[a] = req \/ (a \in DOMAIN s /\ t[a] = s[a])
    BY <1>1, <1>2
  <2> QED BY <1>3, <2>1 DEF Has
<1>5. ASSUME NEW i, HasOnce(ch, i), i = req.call => ~Has(ch, i) PROVE HasOnce(ch2, i)
  <2>1. ASSUME NEW a \in DOMAIN t, NEW b \in DOMAIN t, t[a].call = i, t[b].call = i PROVE a = b
    <3>1. CASE a \in 1..Len(s) /\ b \in 1..Len(s)
      <4>1. a \in DOMAIN s /\ b \in DOMAIN s /\ s[a].call = i /\ s[b].call = i
        BY <1>1, <1>2, <2>1, <3>1
      <4> QED BY <1>5, <4>1 DEF HasOnce
    <3>2. CASE a = Len(s) + 1 \/ b = Len(s) + 1
      <4>1. req.call = i /\ \A k \in DOMAIN s : s[k].call # i
        BY <1>2, <1>5, <2>1, <3>2 DEF Has
      <4>2. \A k \in 1..Len(s) : t[k].call # i
        BY <1>1, <1>2, <4>1
      <4> QED BY <1>1, <1>2, <2>1, <3>2, <4>2
    <3> QED BY <1>1, <1>2, <2>1, <3>1, <3>2
  <2>2. ASSUME ch.flight.call = i, NEW a \in DOMAIN t PROVE t[a].call # i
    BY <1>1, <1>2, <1>5, <2>2 DEF Has, HasOnce
  <2> QED BY <1>3, <2>1, <2>2 DEF HasOnce
<1>6. ChannelTakes(ch, ch2, {req.call})
  BY <1>4, <1>5 DEF ChannelTakes
<1> QED BY <1>2, <1>3, <1>6 DEF ch2, t

\* What is left of a queue when its first request goes.
LEMMA FirstGone ==
    ASSUME NEW ch \in Channel, ch.queue # <<>>
    PROVE  /\ Head(ch.queue) \in Request /\ Tail(ch.queue) \in Seq(Request)
           /\ Has(ch, Head(ch.queue).call)
           /\ \A a \in DOMAIN Tail(ch.queue) : a \in Nat /\ a + 1 \in DOMAIN ch.queue /\ a + 1 # 1
                                               /\ Tail(ch.queue)[a] = ch.queue[a + 1]
           /\ 1 \in DOMAIN ch.queue /\ ch.queue[1] = Head(ch.queue)
<1>1. ch.queue \in Seq(Request)
  BY DEF Channel
<1>2. Len(ch.queue) \in Nat /\ DOMAIN ch.queue = 1..Len(ch.queue) /\ 1 \in DOMAIN ch.queue /\ ch.queue[1] = Head(ch.queue)
      /\ Head(ch.queue) \in Request
  BY <1>1
<1> DEFINE t == Tail(ch.queue)
<1>3. t \in Seq(Request) /\ DOMAIN t = 1..(Len(ch.queue) - 1) /\ \A a \in 1..(Len(ch.queue) - 1) : t[a] = ch.queue[a + 1]
  BY <1>1
<1> HIDE DEF t
<1>4. \A a \in DOMAIN t : a \in Nat /\ a + 1 \in DOMAIN ch.queue /\ a + 1 # 1 /\ t[a] = ch.queue[a + 1]
  BY <1>2, <1>3
<1>5. Has(ch, Head(ch.queue).call)
  BY <1>2 DEF Has
<1> QED BY <1>2, <1>3, <1>4, <1>5 DEF t

LEMMA RequestSent ==
    ASSUME NEW ch \in Channel, ch.flight = NoReq, ch.queue # <<>>
    PROVE  LET ch2 == [flight |-> Head(ch.queue), queue |-> Tail(ch.queue)]
           IN  ch2 \in Channel /\ ChannelTakes(ch, ch2, {})
<1> DEFINE t == Tail(ch.queue)
           first == Head(ch.queue)
           ch2 == [flight |-> first, queue |-> t]
<1>1. /\ first \in Request /\ t \in Seq(Request) /\ Has(ch, first.call)
      /\ \A a \in DOMAIN t : a \in Nat /\ a + 1 \in DOMAIN ch.queue /\ a + 1 # 1 /\ t[a] = ch.queue[a + 1]
      /\ 1 \in DOMAIN ch.queue /\ ch.queue[1] = first
  BY FirstGone
<1> HIDE DEF t, first
<1>2. ch2 \in Channel /\ ch2.flight = first /\ ch2.queue = t
  BY <1>1 DEF Channel
<1> HIDE DEF ch2
<1>3. ASSUME NEW i PROVE Has(ch2, i) => Has(ch, i)
  BY <1>1, <1>2 DEF Has
<1>4. ASSUME NEW i, HasOnce(ch, i) PROVE HasOnce(ch2, i)
  <2>1. ASSUME NEW a \in DOMAIN t, NEW b \in DOMAIN t, t[a].call = i, t[b].call = i PROVE a = b
    <3>1. a + 1 = b + 1
      BY <1>1, <1>4, <2>1 DEF HasOnce
    <3> QED BY <1>1, <3>1
  <2>2. ASSUME first.call = i, NEW a \in DOMAIN t PROVE t[a].call # i
    BY <1>1, <1>4, <2>2 DEF HasOnce
  <2> QED BY <1>2, <2>1, <2>2 DEF HasOnce
<1>5. ChannelTakes(ch, ch2, {})
  BY <1>3, <1>4 DEF ChannelTakes
<1> QED BY <1>2, <1>5 DEF ch2, t, first

LEMMA RequestRefused ==
    ASSUME NEW ch \in Channel, ch.flight = NoReq, ch.queue # <<>>
    PROVE  LET ch2 == [ch EXCEPT !.queue = Tail(ch.queue)]
           IN  ch2 \in Channel /\ ChannelLeaves(ch, ch2, Head(ch.queue).call)
<1> DEFINE t == Tail(ch.queue)
           first == Head(ch.queue)
           ch2 == [ch EXCEPT !.queue = t]
<1>1. /\ first \in Request /\ t \in Seq(Request) /\ Has(ch, first.call)
      /\ \A a \in DOMAIN t : a \in Nat /\ a + 1 \in DOMAIN ch.queue /\ a + 1 # 1 /\ t[a] = ch.queue[a + 1]
      /\ 1 \in DOMAIN ch.queue /\ ch.queue[1] = first
  BY FirstGone
<1> HIDE DEF t, first
<1>2. ch2 \in Channel /\ ch2.flight = NoReq /\ ch2.queue = t
  BY <1>1 DEF Channel
<1> HIDE DEF ch2
<1>3. ASSUME NEW i PROVE Has(ch2, i) => Has(ch, i)
  BY <1>1, <1>2 DEF Has
<1>4. ASSUME NEW i, HasOnce(ch, i) PROVE HasOnce(ch2, i)
  <2>1. ASSUME NEW a \in DOMAIN t, NEW b \in DOMAIN t, t[a].call = i, t[b].call = i PROVE a = b
    <3>1. a + 1 = b + 1
      BY <1>1, <1>4, <2>1 DEF HasOnce
    <3> QED BY <1>1, <3>1
  <2>2. ASSUME NoReq.call = i, NEW a \in DOMAIN t PROVE t[a].call # i
    BY <1>1, <1>4, <2>2 DEF HasOnce
  <2> QED BY <1>2, <2>1, <2>2 DEF HasOnce
<1>5. ASSUME NEW i \in CallId, HasOnce(ch, i), i = first.call PROVE ~Has(ch2, i)
  <2>1. NoReq.call # i
    BY DEF NoReq, CallId
  <2>2. \A a \in DOMAIN t : t[a].call # i
    BY <1>1, <1>5 DEF HasOnce
  <2> QED BY <1>2, <2>1, <2>2 DEF Has
<1>6. ChannelLeaves(ch, ch2, first.call)
  BY <1>3, <1>4, <1>5 DEF ChannelLeaves
<1> QED BY <1>2, <1>6 DEF ch2, t, first

LEMMA RequestDone ==
    ASSUME NEW ch \in Channel, ch.flight # NoReq
    PROVE  LET ch2 == [ch EXCEPT !.flight = NoReq]
           IN  /\ ch2 \in Channel /\ ChannelLeaves(ch, ch2, ch.flight.call)
               /\ ch.flight \in Request /\ Has(ch, ch.flight.call)
<1> DEFINE ch2 == [ch EXCEPT !.flight = NoReq]
<1>1. ch2 \in Channel /\ ch2.flight = NoReq /\ ch2.queue = ch.queue
  BY DEF Channel
<1> HIDE DEF ch2
<1>2. ch.flight \in Request
  BY DEF Channel
<1>3. ASSUME NEW i \in CallId PROVE NoReq.call # i
  BY DEF NoReq, CallId
<1>4. ChannelLeaves(ch, ch2, ch.flight.call)
  BY <1>1, <1>3 DEF ChannelLeaves, Has, HasOnce
<1>5. Has(ch, ch.flight.call)
  BY DEF Has
<1> QED BY <1>1, <1>2, <1>4, <1>5 DEF ch2

LEMMA PumpAtt ==
    ASSUME NEW q, Fits(q), NEW h \in Handle
    PROVE  Fits(pump_att(q, h)) /\ Takes(q, pump_att(q, h), {}) /\ pump_att(q, h).conns = q.conns
<1> DEFINE ch == q.chan[h]
           req == Head(ch.queue)
<1>1. q \in Chain /\ ch \in Channel
  BY DEF Fits, Chain
<1>2. CASE ch.flight # NoReq \/ ch.queue = <<>>
  <2>1. pump_att(q, h) = q
    BY <1>2 DEF pump_att
  <2> QED BY <2>1, SameWorkTakes DEF SameWork
<1>3. CASE ch.flight = NoReq /\ ch.queue # <<>> /\ CanQueue(q, h)
  <2> DEFINE ch2 == [flight |-> req, queue |-> Tail(ch.queue)]
             r == [q EXCEPT !.chan[h] = ch2]
             s == queue_acl(r, h, "att", req)
  <2>1. pump_att(q, h) = s
    BY <1>3 DEF pump_att
  <2>2. ch2 \in Channel /\ ChannelTakes(ch, ch2, {})
    BY <1>1, <1>3, RequestSent
  <2>3. req \in Request
    BY <1>1, <1>3, FirstGone
  <2> HIDE DEF ch2
  <2>4. q.conns[h].open
    BY <1>3 DEF CanQueue
  <2>5. OtherwiseSame(q, r, h, ch2) /\ Fits(r)
    BY <1>1, <2>2, <2>4, ChannelChanged
  <2> HIDE DEF r
  <2>6. CanQueue(r, h) /\ r.conns = q.conns
    BY <1>3, <2>5 DEF CanQueue, OtherwiseSame
  <2>7. Takes(q, r, {})
    BY <2>2, <2>5, ChannelTaken
  <2> HIDE DEF req
  <2>8. Fits(s) /\ SameWork(s, r)
    BY <2>3, <2>5, <2>6, QueuedAtt
  <2> HIDE DEF s
  <2>9. Takes(r, s, {})
    BY <2>8, SameWorkTakes
  <2> QED BY <2>1, <2>6, <2>7, <2>8, <2>9, ThenNothing DEF SameWork
<1>4. CASE ch.flight = NoReq /\ ch.queue # <<>> /\ ~CanQueue(q, h)
  <2> DEFINE ch2 == [ch EXCEPT !.queue = Tail(ch.queue)]
             r == [q EXCEPT !.chan[h] = ch2]
             s == Push(r, Failed(req))
  <2>1. pump_att(q, h) = s
    <3>1. r.stack = q.stack
      BY <1>1 DEF Chain
    <3>2. pump_att(q, h) = [q EXCEPT !.chan[h].queue = Tail(@), !.stack = <<Failed(req)>> \o @]
      BY <1>4 DEF pump_att
    <3>3. s = [q EXCEPT !.chan[h] = ch2, !.stack = <<Failed(req)>> \o q.stack]
      BY <3>1 DEF Push
    <3> QED BY <3>2, <3>3 DEF Push
  <2>2. ch2 \in Channel /\ ChannelLeaves(ch, ch2, req.call)
    BY <1>1, <1>4, RequestRefused
  <2>3. req \in Request /\ Has(ch, req.call)
    BY <1>1, <1>4, FirstGone
  <2>4. ~q.conns[h].open => ch = EmptyChan
    BY DEF Fits, Bare
  <2>5. q.conns[h].open
    BY <1>4, <2>4 DEF EmptyChan
  <2> HIDE DEF ch2
  <2>6. r \in Chain /\ OtherwiseSame(q, r, h, ch2) /\ Fits(r)
    BY <1>1, <2>2, <2>5, ChannelChanged
  <2> HIDE DEF r
  <2>7. Leaves(q, r, req.call)
    BY <2>2, <2>3, <2>6, ChannelLeft
  <2>8. Failed(req) \in Work /\ CallOf(Failed(req)) = req.call
    BY <2>3, MadeWork
  <2> HIDE DEF req
  <2>9. Takes(r, s, {req.call}) /\ Fits(s) /\ s.conns = r.conns
    <3>1. Takes(r, Push(r, Failed(req)), {CallOf(Failed(req))}) /\ Fits(Push(r, Failed(req)))
          /\ Push(r, Failed(req)).conns = r.conns
      BY <2>6, <2>8, PushTakes
    <3> QED BY <2>8, <3>1
  <2> HIDE DEF s
  <2>10. Holds(q, req.call)
    BY <2>3 DEF Holds, OnChannel
  <2>11. Takes(q, s, {})
    BY <2>7, <2>9, <2>10, OnlyMoved
  <2> QED BY <2>1, <2>6, <2>9, <2>11 DEF OtherwiseSame
<1> QED BY <1>2, <1>3, <1>4

LEMMA AttRequest ==
    ASSUME NEW q, Fits(q), NEW h \in Handle \cup {0}, NEW req \in Request
    PROVE  /\ Fits(att_request(q, h, req)) /\ Takes(q, att_request(q, h, req), {req.call})
           /\ att_request(q, h, req).conns = q.conns
<1>1. q \in Chain
  BY DEF Fits
<1>2. CASE ~Up \/ h = 0 \/ ~q.conns[IF h = 0 THEN 1 ELSE h].open
  <2> DEFINE r == Post(q, Failed(req))
  <2>1. att_request(q, h, req) = r
    BY <1>2 DEF att_request, Post
  <2>2. Failed(req) \in Work /\ CallOf(Failed(req)) = req.call
    BY MadeWork
  <2>3. Takes(q, r, {CallOf(Failed(req))}) /\ Fits(r) /\ r.conns = q.conns
    BY <2>2, PostTakes
  <2> HIDE DEF r
  <2> QED BY <2>1, <2>2, <2>3
<1>3. CASE ~(~Up \/ h = 0 \/ ~q.conns[IF h = 0 THEN 1 ELSE h].open)
  <2> DEFINE ch == q.chan[h]
             ch2 == [ch EXCEPT !.queue = Append(ch.queue, req)]
             r == [q EXCEPT !.chan[h] = ch2]
  <2>1. h \in Handle /\ q.conns[h].open
    BY <1>3
  <2>2. ch \in Channel
    BY <1>1, <2>1 DEF Chain
  <2>3. att_request(q, h, req) = pump_att(r, h)
    BY <1>3 DEF att_request
  <2>4. ch2 \in Channel /\ ChannelTakes(ch, ch2, {req.call})
    BY <2>2, RequestWaits
  <2> HIDE DEF ch2
  <2>5. OtherwiseSame(q, r, h, ch2) /\ Fits(r)
    BY <1>1, <2>1, <2>4, ChannelChanged
  <2> HIDE DEF r
  <2>6. Takes(q, r, {req.call})
    BY <2>1, <2>4, <2>5, ChannelTaken
  <2>7. Fits(pump_att(r, h)) /\ Takes(r, pump_att(r, h), {}) /\ pump_att(r, h).conns = r.conns
    BY <2>1, <2>5, PumpAtt
  <2>8. r.conns = q.conns
    BY <2>5 DEF OtherwiseSame
  <2> QED BY <2>3, <2>6, <2>7, <2>8, ThenNothing
<1> QED BY <1>2, <1>3

LEMMA FinishAtt ==
    ASSUME NEW q, Fits(q), NEW h \in Handle, q.chan[h].flight # NoReq,
           NEW w \in Work, CallOf(w) = q.chan[h].flight.call
    PROVE  Fits(finish_att(q, h, w)) /\ Takes(q, finish_att(q, h, w), {}) /\ finish_att(q, h, w).conns = q.conns
<1> DEFINE ch == q.chan[h]
           ch2 == [ch EXCEPT !.flight = NoReq]
           r == [q EXCEPT !.chan[h] = ch2]
           s == Push(r, w)
<1>1. q \in Chain /\ ch \in Channel
  BY DEF Fits, Chain
<1>2. finish_att(q, h, w) = pump_att(s, h)
  <2>1. r.stack = q.stack
    BY <1>1 DEF Chain
  <2>2. finish_att(q, h, w) = pump_att([q EXCEPT !.chan[h].flight = NoReq, !.stack = <<w>> \o @], h)
    BY DEF finish_att
  <2>3. s = [q EXCEPT !.chan[h] = ch2, !.stack = <<w>> \o q.stack]
    BY <2>1 DEF Push
  <2> QED BY <2>2, <2>3
<1>3. ch2 \in Channel /\ ChannelLeaves(ch, ch2, ch.flight.call) /\ ch.flight \in Request /\ Has(ch, ch.flight.call)
  BY <1>1, RequestDone
<1>4. q.conns[h].open
  BY DEF Fits, Bare, EmptyChan
<1> HIDE DEF ch2
<1>5. r \in Chain /\ OtherwiseSame(q, r, h, ch2) /\ Fits(r)
  BY <1>1, <1>3, <1>4, ChannelChanged
<1> HIDE DEF r
<1>6. Leaves(q, r, ch.flight.call)
  BY <1>3, <1>5, ChannelLeft
<1>7. Takes(r, s, {CallOf(w)}) /\ Fits(s) /\ s.conns = r.conns
  BY <1>5, PushTakes
<1> HIDE DEF s
<1>8. Holds(q, ch.flight.call)
  BY <1>3 DEF Holds, OnChannel
<1>9. Takes(q, s, {})
  BY <1>6, <1>7, <1>8, OnlyMoved
<1>10. Fits(pump_att(s, h)) /\ Takes(s, pump_att(s, h), {}) /\ pump_att(s, h).conns = s.conns
  BY <1>7, PumpAtt
<1>11. s.conns = q.conns
  BY <1>5, <1>7 DEF OtherwiseSame
<1> QED BY <1>2, <1>9, <1>10, <1>11, ThenNothing

-----------------------------------------------------------------------------
(* What a handler adds, with everything still in its place *)

Adds(q, r, T) == Fits(r) /\ r.conns = q.conns /\ Takes(q, r, T)

LEMMA AddsNothing == ASSUME NEW q, Fits(q) PROVE Adds(q, q, {})
BY SameWorkTakes DEF Adds, SameWork

LEMMA AddsSame == ASSUME NEW q, NEW r, Fits(r), SameWork(r, q) PROVE Adds(q, r, {})
BY SameWorkTakes DEF Adds, SameWork

LEMMA AddsThenNothing ==
    ASSUME NEW q, NEW r, NEW s, NEW T, Adds(q, r, T), Adds(r, s, {})
    PROVE  Adds(q, s, T)
BY ThenNothing DEF Adds

LEMMA AddsNoCall ==
    ASSUME NEW q, NEW r, NEW c, c \notin CallId
    PROVE  Adds(q, r, {c}) <=> Adds(q, r, {})
BY DEF Adds, Takes

LEMMA PushAdds == ASSUME NEW q, Fits(q), NEW w \in Work PROVE Adds(q, Push(q, w), {CallOf(w)})
BY PushTakes DEF Adds

LEMMA PostAdds == ASSUME NEW q, Fits(q), NEW w \in Work PROVE Adds(q, Post(q, w), {CallOf(w)})
BY PostTakes DEF Adds

LEMMA RequestAdds ==
    ASSUME NEW q, Fits(q), NEW h \in Handle \cup {0}, NEW req \in Request
    PROVE  Adds(q, att_request(q, h, req), {req.call})
BY AttRequest DEF Adds

LEMMA FinishAdds ==
    ASSUME NEW q, Fits(q), NEW h \in Handle, q.chan[h].flight # NoReq,
           NEW w \in Work, CallOf(w) = q.chan[h].flight.call
    PROVE  Adds(q, finish_att(q, h, w), {})
BY FinishAtt DEF Adds

LEMMA QueueAdds ==
    ASSUME NEW q, Fits(q), NEW h \in Handle, CanQueue(q, h)
    PROVE  Adds(q, queue_acl(q, h, "smp", NoReq), {})
BY QueuedSmp, AddsSame

LEMMA CompleteAdds ==
    ASSUME NEW q, Fits(q), NEW c \in CallId, NEW ok \in BOOLEAN
    PROVE  Adds(q, Complete(q, c, ok), {c})
<1>1. Result(c, ok) \in Work /\ CallOf(Result(c, ok)) = c
  BY MadeWork
<1>2. Complete(q, c, ok) = Push(q, Result(c, ok))
  BY DEF Complete, Push
<1>3. Adds(q, Push(q, Result(c, ok)), {CallOf(Result(c, ok))})
  BY <1>1, PushAdds
<1> QED BY <1>1, <1>2, <1>3

PairingOK == pairing = NotPairing \/ (pairing \in [state : {"response", "confirm", "random", "ready"}, req : Request])

LEMMA PairingAdds ==
    ASSUME NEW q, Fits(q), NEW ok \in BOOLEAN, PairingOK
    PROVE  Adds(q, PairingOver(q, ok), {pairing.req.call})
<1>1. CASE pairing = NotPairing
  <2>1. PairingOver(q, ok) = q
    BY <1>1 DEF PairingOver
  <2>2. pairing.req.call \notin CallId
    BY <1>1 DEF NotPairing, NoReq, CallId
  <2> QED BY <2>1, <2>2, AddsNothing, AddsNoCall
<1>2. CASE pairing # NotPairing
  <2> DEFINE w == [kind |-> "paired", req |-> pairing.req, ok |-> ok]
  <2>1. pairing.req \in Request
    BY <1>2 DEF PairingOK
  <2>2. w \in Work /\ CallOf(w) = pairing.req.call
    BY <2>1, MadeWork
  <2>3. PairingOver(q, ok) = Push(q, w)
    BY <1>2 DEF PairingOver, Push
  <2> HIDE DEF w
  <2>4. Adds(q, Push(q, w), {CallOf(w)})
    BY <2>2, PushAdds
  <2> QED BY <2>2, <2>3, <2>4
<1> QED BY <1>1, <1>2

-----------------------------------------------------------------------------
(* Who holds the completion of a call.  Outside the queues it may be with the *)
(* attempt to connect, with the pairing, or in the hand of the handler that   *)
(* runs: one of them at most, and only while the call is unanswered.          *)

Unanswered(K, i) == K[i].made /\ K[i].answered = 0

Accounts(q, attempt, paired, hand, K) ==
    \A i \in CallId :
        /\ Single(q, i)
        /\ i \in {attempt, paired, hand} => ~Holds(q, i)
        /\ ~(attempt = i /\ paired = i) /\ ~(attempt = i /\ hand = i) /\ ~(paired = i /\ hand = i)
        /\ Holds(q, i) \/ i \in {attempt, paired, hand} => Unanswered(K, i)

LEMMA HandEmptied ==
    ASSUME NEW q, NEW r, NEW a, NEW p, NEW c, NEW K, Accounts(q, a, p, c, K), Takes(q, r, {c})
    PROVE  Accounts(r, a, p, 0, K)
<1> SUFFICES ASSUME NEW i \in CallId
             PROVE  /\ Single(r, i)
                    /\ i \in {a, p, 0} => ~Holds(r, i)
                    /\ ~(a = i /\ p = i) /\ ~(a = i /\ 0 = i) /\ ~(p = i /\ 0 = i)
                    /\ Holds(r, i) \/ i \in {a, p, 0} => Unanswered(K, i)
  BY DEF Accounts
<1>1. i # 0
  BY DEF CallId
<1>2. Holds(r, i) => Holds(q, i) \/ i = c
  BY DEF Takes
<1>3. Single(q, i) /\ (i = c => ~Holds(q, i)) => Single(r, i)
  BY DEF Takes
<1> QED BY <1>1, <1>2, <1>3 DEF Accounts

LEMMA PairedTold ==
    ASSUME NEW q, NEW r, NEW a, NEW p, NEW c, NEW K, Accounts(q, a, p, c, K), Takes(q, r, {p})
    PROVE  Accounts(r, a, 0, c, K)
<1>1. ASSUME NEW i \in CallId PROVE i # 0
  BY DEF CallId
<1>2. Accounts(q, a, c, p, K)
  BY DEF Accounts
<1>3. Accounts(r, a, c, 0, K)
  BY <1>2, HandEmptied
<1> QED BY <1>3 DEF Accounts

LEMMA AttemptTold ==
    ASSUME NEW q, NEW r, NEW a, NEW p, NEW c, NEW K, Accounts(q, a, p, c, K), Takes(q, r, {a})
    PROVE  Accounts(r, 0, p, c, K)
<1>2. Accounts(q, c, p, a, K)
  BY DEF Accounts
<1>3. Accounts(r, c, p, 0, K)
  BY <1>2, HandEmptied
<1> QED BY <1>3 DEF Accounts

LEMMA NothingTold ==
    ASSUME NEW q, NEW r, NEW a, NEW p, NEW c, NEW K, Accounts(q, a, p, c, K), Takes(q, r, {})
    PROVE  Accounts(r, a, p, c, K)
BY DEF Accounts, Takes

LEMMA HandOver ==
    ASSUME NEW q, NEW a, NEW p, NEW c, NEW K, Accounts(q, a, p, c, K)
    PROVE  /\ p = 0 => Accounts(q, a, c, 0, K)
           /\ a = 0 => Accounts(q, c, p, 0, K)
<1>1. ASSUME NEW i \in CallId PROVE i # 0
  BY DEF CallId
<1> QED BY <1>1 DEF Accounts

-----------------------------------------------------------------------------
(* The invariant *)

CamType == [conn : Handle \cup {0}, subscribed : BOOLEAN, scratch : SUBSET Char,
            chars : [Char -> [found : BOOLEAN, cccd : Char \cup {"none"}]],
            cccds : [Char -> Char \cup {"none"}]]
CallsType == [CallId -> [made : BOOLEAN, answered : 0..2]]
DaemonType == [turn : Turn, waits : CallId \cup {0}]

\* What is kept for a connection is for one that is there.
PerConnection ==
    /\ closing \subseteq Handle /\ \A h \in closing : conns[h].open
    /\ encrypt \in [pending : BOOLEAN, h : Handle \cup {0}]
    /\ encrypt.pending => encrypt.h \in Handle /\ conns[encrypt.h].open
    /\ peer \in [Handle -> Seq(Request)] /\ \A h \in Handle : ~conns[h].open => peer[h] = <<>>

Client ==
    /\ cam \in CamType
    /\ linking = NoLinking \/ linking \in [call : CallId, type : 0..1]
    /\ PairingOK

Caller ==
    /\ link \in Bring \cup {"up", "failed", "closed"}
    /\ daemon \in DaemonType /\ calls \in CallsType /\ AnsweredOnce

CallsAccounted == Accounts(Queues, linking.call, pairing.req.call, 0, calls)

CameraIInv == PerConnection /\ Client /\ Caller /\ Fits(Queues) /\ CallsAccounted

LEMMA BecomesIs ==
    ASSUME NEW r, r \in Chain, Becomes(r)
    PROVE  Queues' = r
BY DEF Becomes, Queues, Chain

\* A step that leaves the queues sound and the accounts straight.
LEMMA QueuesKept ==
    ASSUME NEW r, Becomes(r), Fits(r), Accounts(r, linking'.call, pairing'.req.call, 0, calls')
    PROVE  Fits(Queues)' /\ CallsAccounted'
<1>1. Queues' = r
  BY BecomesIs DEF Fits
<1> QED BY <1>1 DEF CallsAccounted

\* A step that leaves the connections alone, and what is kept for them.
LEMMA ConnectionsKept ==
    ASSUME PerConnection, conns' = conns, UNCHANGED <<closing, encrypt, peer>>
    PROVE  PerConnection'
BY DEF PerConnection

LEMMA QueuesAre ==
    ASSUME Fits(Queues)
    PROVE  /\ Queues \in Chain
           /\ conns \in [Handle -> Conn] /\ chan \in [Handle -> Channel] /\ acl \in Seq(Fragment) /\ credits \in Nat
           /\ sent \in Seq(Fragment) /\ stack \in Seq(Work) /\ posted \in Seq(Work)
           /\ Queues.conns = conns /\ Queues.stack = stack /\ Queues.posted = posted /\ Queues.chan = chan
           /\ Queues.acl = acl /\ Queues.sent = sent /\ Queues.credits = credits
BY DEF Fits, Queues, Chain

LEMMA PoppedIs ==
    ASSUME Fits(Queues), stack # <<>>
    PROVE  /\ Fits(Popped) /\ Popped.conns = conns /\ Leaves(Queues, Popped, CallOf(Work1))
           /\ Work1 \in Work
           /\ CallOf(Work1) \in CallId => Holds(Queues, CallOf(Work1))
<1>1. stack \in Seq(Work) /\ Queues.stack = stack
  BY QueuesAre
<1> DEFINE t == Tail(stack)
<1>2. t \in Seq(Work) /\ Work1 \in Work
  BY <1>1, FirstTaken DEF Work1
<1>3. ASSUME NEW i
      PROVE  /\ In(t, i) => In(stack, i)
             /\ CallOf(Work1) = i => In(stack, i)
             /\ Once(stack, i) => Once(t, i) /\ (CallOf(Work1) = i => ~In(t, i))
  BY <1>1, FirstTaken DEF Work1
<1>4. Popped = [Queues EXCEPT !.stack = t]
  BY <1>1 DEF Popped
<1> HIDE DEF t
<1>5. /\ Popped \in Chain /\ Popped.stack = t /\ Popped.posted = Queues.posted /\ Popped.chan = Queues.chan
      /\ Popped.conns = Queues.conns
      /\ Popped.acl = Queues.acl /\ Popped.sent = Queues.sent /\ Popped.credits = Queues.credits
  BY <1>2, <1>4, QueuesAre DEF Chain
<1>6. Fits(Popped)
  BY <1>5 DEF Fits, IsOf, Bare
<1>7. Leaves(Queues, Popped, CallOf(Work1))
  <2>1. ASSUME NEW i \in CallId PROVE Holds(Popped, i) => Holds(Queues, i)
    BY <1>1, <1>3, <1>5 DEF Holds, OnChannel
  <2>2. ASSUME NEW i \in CallId, Single(Queues, i) PROVE Single(Popped, i)
    BY <1>1, <1>3, <1>5, <2>2 DEF Single, OnChannel
  <2>3. ASSUME NEW i \in CallId, Single(Queues, i), i = CallOf(Work1) PROVE ~Holds(Popped, i)
    BY <1>1, <1>3, <1>5, <2>3 DEF Single, Holds, OnChannel
  <2> QED BY <2>1, <2>2, <2>3 DEF Leaves
<1>8. Holds(Queues, CallOf(Work1))
  BY <1>1, <1>3 DEF Holds
<1> QED BY <1>2, <1>5, <1>6, <1>7, <1>8, QueuesAre

\* What the handler of the first completion starts from.
LEMMA InHand ==
    ASSUME CameraIInv, stack # <<>>
    PROVE  /\ Fits(Popped) /\ Popped.conns = conns /\ Work1 \in Work
           /\ Accounts(Popped, linking.call, pairing.req.call, CallOf(Work1), calls)
<1> DEFINE c == CallOf(Work1)
<1>1. Fits(Popped) /\ Popped.conns = conns /\ Work1 \in Work
      /\ Leaves(Queues, Popped, c) /\ (c \in CallId => Holds(Queues, c))
  BY PoppedIs DEF CameraIInv
<1> HIDE DEF c
<1>2. ASSUME NEW i \in CallId
      PROVE  /\ Single(Popped, i)
             /\ i \in {linking.call, pairing.req.call, c} => ~Holds(Popped, i)
             /\ ~(linking.call = i /\ pairing.req.call = i) /\ ~(linking.call = i /\ c = i) /\ ~(pairing.req.call = i /\ c = i)
             /\ Holds(Popped, i) \/ i \in {linking.call, pairing.req.call, c} => Unanswered(calls, i)
  BY <1>1 DEF CameraIInv, CallsAccounted, Accounts, Leaves
<1>3. Accounts(Popped, linking.call, pairing.req.call, c, calls)
  BY <1>2 DEF Accounts
<1> QED BY <1>1, <1>3 DEF c

-----------------------------------------------------------------------------
(* What the daemon calls *)

LEMMA InitAccounts == CameraInit => CameraIInv
<1> SUFFICES ASSUME CameraInit PROVE CameraIInv
  OBVIOUS
<1> USE DEF CameraInit
<1>0. <<>> \in Seq(Fragment) /\ <<>> \in Seq(Work) /\ <<>> \in Seq(Request) /\ 0 \in Made
  BY HciCameraAssumption DEF HciCameraAssumption, Made
<1>1. PerConnection
  BY <1>0 DEF PerConnection, NoEncrypt
<1>2. Client
  BY DEF Client, CamType, NoChars, PairingOK, NotPairing
<1>3. Caller
  BY DEF Caller, Bring, DaemonType, Turn, CallsType, AnsweredOnce
<1>4. EmptyChan \in Channel
  BY <1>0 DEF EmptyChan, Channel
<1>5. Queues \in Chain
  <2>1. chan \in [Handle -> Channel]
    BY <1>4
  <2>2. conns \in [Handle -> Conn]
    BY <1>0 DEF Conn
  <2>3. credits \in Nat
    BY HciCameraAssumption DEF HciCameraAssumption
  <2> QED BY <1>0, <2>1, <2>2, <2>3 DEF Queues, Chain
<1>6. Fits(Queues)
  <2>1. Len(acl) <= MaxFragments /\ credits + Len(sent) <= AclTotal
    BY HciCameraAssumption DEF HciCameraAssumption
  <2>2. DOMAIN acl = {} /\ DOMAIN sent = {}
    OBVIOUS
  <2>3. \A h \in Handle : ~conns[h].enc /\ conns[h].notes = {} /\ chan[h] = EmptyChan
    OBVIOUS
  <2> QED BY <1>5, <2>1, <2>2, <2>3 DEF Fits, Bare, Queues
<1>7. CallsAccounted
  <2>1. \A i \in CallId : i # 0
    BY DEF CallId
  <2>2. linking.call = 0 /\ pairing.req.call = 0
    BY DEF NoLinking, NotPairing, NoReq
  <2>3. ASSUME NEW i \in CallId, NEW h \in Handle PROVE ~Has(chan[h], i) /\ HasOnce(chan[h], i)
    BY <2>1, <2>3 DEF Has, HasOnce, EmptyChan, NoReq
  <2>4. ASSUME NEW i \in CallId PROVE ~In(stack, i) /\ ~In(posted, i) /\ Once(stack, i) /\ Once(posted, i)
    BY DEF In, Once
  <2>5. Queues.stack = stack /\ Queues.posted = posted /\ Queues.chan = chan
    BY DEF Queues
  <2> HIDE DEF CameraInit
  <2> QED BY <2>1, <2>2, <2>3, <2>4, <2>5 DEF CallsAccounted, Accounts, Single, Holds, OnChannel
<1> QED BY <1>1, <1>2, <1>3, <1>6, <1>7 DEF CameraIInv

\* A step of the link's bring-up, or of the daemon alone.
LEMMA NothingKept ==
    ASSUME CameraIInv, PerConnection', Client', Caller',
           UNCHANGED <<conns, chan, acl, credits, sent, stack, posted, linking, pairing, calls>>
    PROVE  CameraIInv'
<1>1. Queues' = Queues
  BY DEF Queues
<1> QED BY <1>1 DEF CameraIInv, CallsAccounted

LEMMA Inits == ASSUME CameraIInv, init_step \/ init_address PROVE CameraIInv'
<1>1. link' \in Bring \cup {"up", "failed", "closed"}
  BY DEF init_step, init_address, Bring
<1>2. UNCHANGED <<conns, closing, chan, acl, credits, sent, peer, linking, encrypt, cam, pairing,
                  daemon, calls, stack, posted>>
  BY DEF init_step, init_address
<1>3. PerConnection' /\ Client' /\ Caller'
  BY <1>1, <1>2 DEF CameraIInv, PerConnection, Client, PairingOK, Caller, AnsweredOnce
<1> QED BY <1>2, <1>3, NothingKept

LEMMA Cycles == ASSUME CameraIInv, finish_cycle \/ UseHeld PROVE CameraIInv'
<1>1. daemon' \in DaemonType
  BY DEF finish_cycle, UseHeld, CameraIInv, Caller, DaemonType, Turn
<1>2. UNCHANGED <<link, conns, closing, chan, acl, credits, sent, peer, linking, encrypt, cam, pairing,
                  calls, stack, posted>>
  BY DEF finish_cycle, UseHeld
<1>3. PerConnection' /\ Client' /\ Caller'
  BY <1>1, <1>2 DEF CameraIInv, PerConnection, Client, PairingOK, Caller, AnsweredOnce
<1> QED BY <1>2, <1>3, NothingKept

\* A call that is made is in the hand of its handler.
LEMMA Called ==
    ASSUME CameraIInv, NEW i \in NextCall, NEW turn \in Turn, Call(i, turn), link' = link
    PROVE  Caller' /\ i \in CallId /\ Accounts(Queues, linking.call, pairing.req.call, i, calls')
<1>1. i \in CallId /\ ~calls[i].made
  BY DEF NextCall
<1>2. calls \in CallsType /\ calls[i].answered = 0
  <2>1. calls \in CallsType /\ calls[i].answered <= 0
    BY <1>1 DEF CameraIInv, Caller, AnsweredOnce
  <2> QED BY <1>1, <2>1 DEF CallsType
<1>3. /\ calls' \in CallsType /\ calls'[i].made /\ calls'[i].answered = 0
      /\ \A j \in CallId : j # i => calls'[j] = calls[j]
  BY <1>1, <1>2 DEF Call, CallsType
<1>4. Caller'
  <2>1. daemon' \in DaemonType
    BY <1>1 DEF Call, DaemonType
  <2>2. AnsweredOnce'
    BY <1>3 DEF CameraIInv, Caller, AnsweredOnce
  <2> QED BY <1>3, <2>1, <2>2 DEF CameraIInv, Caller
<1>5. ASSUME NEW j \in CallId
      PROVE  /\ Single(Queues, j)
             /\ j \in {linking.call, pairing.req.call, i} => ~Holds(Queues, j)
             /\ ~(linking.call = j /\ pairing.req.call = j) /\ ~(linking.call = j /\ i = j) /\ ~(pairing.req.call = j /\ i = j)
             /\ Holds(Queues, j) \/ j \in {linking.call, pairing.req.call, i} => Unanswered(calls', j)
  <2>1. CASE j = i
    BY <1>1, <1>3, <2>1 DEF CameraIInv, CallsAccounted, Accounts, Unanswered
  <2>2. CASE j # i
    BY <1>3, <2>2 DEF CameraIInv, CallsAccounted, Accounts, Unanswered
  <2> QED BY <2>1, <2>2
<1>6. Accounts(Queues, linking.call, pairing.req.call, i, calls')
  BY <1>5 DEF Accounts
<1> QED BY <1>1, <1>4, <1>6

\* The client lets go of a camera, and asks for it to be disconnected.
LEMMA LettingGo ==
    ASSUME PerConnection, Client, conns' = conns, UNCHANGED <<peer, encrypt>>,
           closing' = AskedToClose
    PROVE  PerConnection' /\ LetGo \in CamType
<1>1. closing' \subseteq Handle /\ \A h \in closing' : conns'[h].open
  BY DEF PerConnection, Client, CamType, AskedToClose, Open
<1>2. LetGo \in CamType
  BY DEF Client, CamType, LetGo
<1> QED BY <1>1, <1>2 DEF PerConnection

LEMMA NotPairingIs == NotPairing.req.call = 0
BY DEF NotPairing, NoReq

LEMMA NoLinkingIs == NoLinking.call = 0
BY DEF NoLinking

LEMMA Connects == ASSUME CameraIInv, connect PROVE CameraIInv'
<1> DEFINE q == PairingOver(Queues, FALSE)
<1>1. PICK i \in NextCall :
          /\ Call(i, "connecting")
          /\ IF ~Up \/ linking # NoLinking
             THEN Becomes(Post(q, Result(i, FALSE))) /\ UNCHANGED linking
             ELSE linking' = [call |-> i, type |-> 0] /\ Becomes(q)
  BY DEF connect, Post
<1>2. UNCHANGED <<link, peer, encrypt>> /\ cam' = LetGo /\ closing' = AskedToClose /\ pairing' = NotPairing
  BY DEF connect
<1>3. "connecting" \in Turn
  BY DEF Turn
<1>4. Caller' /\ i \in CallId /\ Accounts(Queues, linking.call, pairing.req.call, i, calls')
  BY <1>1, <1>2, <1>3, Called
<1>5. Adds(Queues, q, {pairing.req.call})
  BY PairingAdds DEF CameraIInv, Client
<1> HIDE DEF q
<1>6. Fits(q) /\ q.conns = conns /\ Accounts(q, linking.call, 0, i, calls')
  BY <1>4, <1>5, PairedTold, QueuesAre DEF Adds, CameraIInv
<1>7. CASE ~Up \/ linking # NoLinking
  <2> DEFINE w == Result(i, FALSE)
             r == Post(q, w)
  <2>1. w \in Work /\ CallOf(w) = i
    BY <1>4, MadeWork
  <2>2. Becomes(r) /\ linking' = linking
    BY <1>1, <1>7
  <2> HIDE DEF w
  <2>3. Adds(q, r, {CallOf(w)})
    BY <1>6, <2>1, PostAdds
  <2> HIDE DEF r
  <2>4. Fits(r) /\ r.conns = conns /\ Takes(q, r, {i})
    BY <1>6, <2>1, <2>3 DEF Adds
  <2>5. Accounts(r, linking.call, 0, 0, calls')
    BY <1>6, <2>4, HandEmptied
  <2>6. Accounts(r, linking'.call, pairing'.req.call, 0, calls')
    BY <1>2, <2>2, <2>5, NotPairingIs
  <2>7. conns' = conns
    BY <2>2, <2>4 DEF Becomes
  <2>8. PerConnection' /\ LetGo \in CamType
    BY <1>2, <2>7, LettingGo DEF CameraIInv
  <2>9. Client'
    BY <1>2, <2>2, <2>8 DEF CameraIInv, Client, PairingOK
  <2> QED BY <1>4, <2>2, <2>4, <2>6, <2>8, <2>9, QueuesKept DEF CameraIInv
<1>8. CASE ~(~Up \/ linking # NoLinking)
  <2>1. Becomes(q) /\ linking' = [call |-> i, type |-> 0]
    BY <1>1, <1>8
  <2>2. Accounts(q, i, 0, 0, calls')
    BY <1>6, <1>8, HandOver, NoLinkingIs
  <2>3. Accounts(q, linking'.call, pairing'.req.call, 0, calls')
    <3>1. linking'.call = i
      BY <2>1
    <3> QED BY <1>2, <2>2, <3>1, NotPairingIs
  <2>4. conns' = conns
    BY <1>6, <2>1 DEF Becomes
  <2>5. PerConnection' /\ LetGo \in CamType
    BY <1>2, <2>4, LettingGo DEF CameraIInv
  <2>6. Client'
    BY <1>2, <1>4, <2>1, <2>5 DEF CameraIInv, Client, PairingOK
  <2> QED BY <1>4, <1>6, <2>1, <2>3, <2>5, <2>6, QueuesKept DEF CameraIInv
<1> QED BY <1>7, <1>8

LEMMA Disconnects == ASSUME CameraIInv, disconnect PROVE CameraIInv'
<1> DEFINE q == PairingOver(Queues, FALSE)
<1>1. Becomes(q)
  BY DEF disconnect
<1>2. UNCHANGED <<link, peer, linking, encrypt, daemon, calls>> /\ cam' = LetGo /\ closing' = AskedToClose
      /\ pairing' = NotPairing
  BY DEF disconnect
<1>3. Adds(Queues, q, {pairing.req.call})
  BY PairingAdds DEF CameraIInv, Client
<1> HIDE DEF q
<1>4. Fits(q) /\ q.conns = conns /\ Accounts(q, linking.call, 0, 0, calls)
  BY <1>3, PairedTold, QueuesAre DEF Adds, CameraIInv, CallsAccounted
<1>5. conns' = conns
  BY <1>1, <1>4 DEF Becomes
<1>6. PerConnection' /\ LetGo \in CamType
  BY <1>2, <1>5, LettingGo DEF CameraIInv
<1>7. Client' /\ Caller'
  BY <1>2, <1>6 DEF CameraIInv, Client, PairingOK, Caller, AnsweredOnce
<1>8. Accounts(q, linking'.call, pairing'.req.call, 0, calls')
  BY <1>2, <1>4, NotPairingIs
<1> QED BY <1>1, <1>4, <1>6, <1>7, <1>8, QueuesKept DEF CameraIInv

LEMMA SubscribeNextIs ==
    ASSUME Client, NEW n \in Nat \ {0}
    PROVE  SubscribeNext(n) # 0 => /\ SubscribeNext(n) \in 1..2
                                  /\ cam.chars[Order[SubscribeNext(n)]].cccd \in Char
<1> DEFINE rest == {i \in n..2 : cam.chars[Order[i]].cccd # "none"}
<1>1. SubscribeNext(n) = IF rest = {} THEN 0 ELSE Min(rest)
  BY DEF SubscribeNext
<1>2. rest \subseteq 1..2 /\ \A i \in rest : cam.chars[Order[i]].cccd # "none"
  OBVIOUS
<1>3. \A i \in 1..2 : Order[i] \in Char
  BY DEF Order, Char
<1>4. \A c \in Char : cam.chars[c].cccd \in Char \cup {"none"}
  BY DEF Client, CamType
<1> HIDE DEF rest
<1>5. CASE rest = {}
  BY <1>1, <1>5
<1>6. CASE rest # {}
  <2>3. rest \subseteq Nat
    BY <1>2
  <2>1. \E x \in rest : \A y \in rest : x <= y
    BY <1>6, <2>3, LeastNatural
  <2>2. Min(rest) \in rest
    BY <2>1 DEF Min
  <2> QED BY <1>1, <1>2, <1>3, <1>4, <1>6, <2>2
<1> QED BY <1>5, <1>6

\* What may be asked for a call.
LEMMA MadeRequests ==
    /\ \A c \in CallId, ask \in Question, of \in Char \cup {"none"}, round \in Nat :
          (ask = "subscribe" => of \in Char) => Ask(c, ask, of, round) \in Request /\ Ask(c, ask, of, round).call = c
    /\ \A r \in Request : [r EXCEPT !.again = TRUE] \in Request /\ [r EXCEPT !.again = TRUE].call = r.call
<1>1. ASSUME NEW c \in CallId, NEW ask \in Question, NEW of \in Char \cup {"none"}, NEW round \in Nat,
             ask = "subscribe" => of \in Char
      PROVE  Ask(c, ask, of, round) \in Request /\ Ask(c, ask, of, round).call = c
  BY <1>1 DEF Ask, Request
<1>2. ASSUME NEW r \in Request PROVE [r EXCEPT !.again = TRUE] \in Request /\ [r EXCEPT !.again = TRUE].call = r.call
  BY DEF Request
<1> QED BY <1>1, <1>2

LEMMA SubscribeAdds ==
    ASSUME NEW q, Fits(q), Client, NEW c \in CallId, NEW n \in Nat \ {0}, SubscribeNext(n) # 0
    PROVE  Adds(q, AskSubscribe(q, c, SubscribeNext(n)), {c})
<1> DEFINE m == SubscribeNext(n)
           req == Ask(c, "subscribe", cam.chars[Order[m]].cccd, m)
<1>1. m \in 1..2 /\ cam.chars[Order[m]].cccd \in Char
  BY SubscribeNextIs
<1> HIDE DEF m
<1>2. req \in Request /\ req.call = c
  BY <1>1, MadeRequests DEF Question
<1>3. cam.conn \in Handle \cup {0}
  BY DEF Client, CamType
<1>4. AskSubscribe(q, c, m) = att_request(q, cam.conn, req)
  BY DEF AskSubscribe
<1> HIDE DEF req
<1>5. Adds(q, att_request(q, cam.conn, req), {req.call})
  BY <1>2, <1>3, RequestAdds
<1> QED BY <1>2, <1>4, <1>5 DEF m

\* A step of the client that adds the completion in hand, and changes no more
\* than what the client remembers.
LEMMA HandTold ==
    ASSUME CameraIInv, NEW q, NEW r, NEW c, q.conns = conns, Adds(q, r, {c}), Becomes(r),
           Accounts(q, linking.call, pairing.req.call, c, calls'),
           UNCHANGED <<link, closing, peer, linking, encrypt, pairing>>, cam' \in CamType, Caller'
    PROVE  CameraIInv'
<1>1. Fits(r) /\ r.conns = conns /\ Accounts(r, linking.call, pairing.req.call, 0, calls')
  BY HandEmptied DEF Adds
<1>2. conns' = conns
  BY <1>1 DEF Becomes
<1>3. PerConnection'
  BY <1>2, ConnectionsKept DEF CameraIInv
<1>4. Client'
  BY DEF CameraIInv, Client, PairingOK
<1>5. Accounts(r, linking'.call, pairing'.req.call, 0, calls')
  BY <1>1
<1> QED BY <1>1, <1>3, <1>4, <1>5, QueuesKept DEF CameraIInv

LEMMA Subscribes == ASSUME CameraIInv, subscribe PROVE CameraIInv'
<1>1. PICK i \in NextCall :
          /\ Call(i, "subscribing")
          /\ IF cam.conn = 0 \/ cam.subscribed
             THEN Becomes(Post(Queues, Result(i, cam.conn # 0))) /\ UNCHANGED cam
             ELSE IF SubscribeNext(1) = 0
             THEN Becomes(Complete(Queues, i, TRUE)) /\ cam' = [cam EXCEPT !.subscribed = TRUE]
             ELSE Becomes(AskSubscribe(Queues, i, SubscribeNext(1))) /\ UNCHANGED cam
  BY DEF subscribe, Post
<1>2. UNCHANGED <<link, closing, peer, linking, encrypt, pairing>>
  BY DEF subscribe
<1>3. "subscribing" \in Turn
  BY DEF Turn
<1>4. Caller' /\ i \in CallId /\ Accounts(Queues, linking.call, pairing.req.call, i, calls')
  BY <1>1, <1>2, <1>3, Called
<1>5. cam \in CamType /\ [cam EXCEPT !.subscribed = TRUE] \in CamType
  BY DEF CameraIInv, Client, CamType
<1>6. Fits(Queues) /\ Queues.conns = conns
  BY QueuesAre DEF CameraIInv
<1>7. \E r : Adds(Queues, r, {i}) /\ Becomes(r) /\ cam' \in CamType
  <2>1. CASE cam.conn = 0 \/ cam.subscribed
    <3> DEFINE w == Result(i, cam.conn # 0)
    <3>1. w \in Work /\ CallOf(w) = i
      BY <1>4, MadeWork
    <3>2. Becomes(Post(Queues, w)) /\ cam' = cam
      BY <1>1, <2>1
    <3> HIDE DEF w
    <3>3. Adds(Queues, Post(Queues, w), {CallOf(w)})
      BY <1>6, <3>1, PostAdds
    <3> QED BY <1>5, <3>1, <3>2, <3>3
  <2>2. CASE ~(cam.conn = 0 \/ cam.subscribed) /\ SubscribeNext(1) = 0
    <3>1. Adds(Queues, Complete(Queues, i, TRUE), {i})
      BY <1>4, <1>6, CompleteAdds
    <3> QED BY <1>1, <1>5, <2>2, <3>1
  <2>3. CASE ~(cam.conn = 0 \/ cam.subscribed) /\ SubscribeNext(1) # 0
    <3>1. Adds(Queues, AskSubscribe(Queues, i, SubscribeNext(1)), {i})
      BY <1>4, <1>6, <2>3, SubscribeAdds DEF CameraIInv
    <3> QED BY <1>1, <1>5, <2>3, <3>1
  <2> QED BY <2>1, <2>2, <2>3
<1> QED BY <1>2, <1>4, <1>6, <1>7, HandTold

LEMMA Writes == ASSUME CameraIInv, write_control PROVE CameraIInv'
<1>1. PICK i \in NextCall :
          /\ Call(i, "writing")
          /\ Becomes(IF cam.conn = 0 \/ ~cam.chars["outgoing"].found
                     THEN Post(Queues, Result(i, FALSE))
                     ELSE att_request(Queues, cam.conn, Ask(i, "write", "outgoing", 0)))
  BY DEF write_control, Post
<1>2. UNCHANGED <<link, closing, peer, linking, encrypt, cam, pairing>>
  BY DEF write_control
<1>3. "writing" \in Turn
  BY DEF Turn
<1>4. Caller' /\ i \in CallId /\ Accounts(Queues, linking.call, pairing.req.call, i, calls')
  BY <1>1, <1>2, <1>3, Called
<1>5. cam' \in CamType /\ cam.conn \in Handle \cup {0}
  BY <1>2 DEF CameraIInv, Client, CamType
<1>6. Fits(Queues) /\ Queues.conns = conns
  BY QueuesAre DEF CameraIInv
<1>7. \E r : Adds(Queues, r, {i}) /\ Becomes(r)
  <2>1. CASE cam.conn = 0 \/ ~cam.chars["outgoing"].found
    <3> DEFINE w == Result(i, FALSE)
    <3>1. w \in Work /\ CallOf(w) = i
      BY <1>4, MadeWork
    <3>2. Becomes(Post(Queues, w))
      BY <1>1, <2>1
    <3> HIDE DEF w
    <3>3. Adds(Queues, Post(Queues, w), {CallOf(w)})
      BY <1>6, <3>1, PostAdds
    <3> QED BY <3>1, <3>2, <3>3
  <2>2. CASE ~(cam.conn = 0 \/ ~cam.chars["outgoing"].found)
    <3> DEFINE req == Ask(i, "write", "outgoing", 0)
    <3>1. req \in Request /\ req.call = i
      BY <1>4, MadeRequests DEF Question, Char
    <3>2. Becomes(att_request(Queues, cam.conn, req))
      BY <1>1, <2>2
    <3> HIDE DEF req
    <3>3. Adds(Queues, att_request(Queues, cam.conn, req), {req.call})
      BY <1>5, <1>6, <3>1, RequestAdds
    <3> QED BY <3>1, <3>2, <3>3
  <2> QED BY <2>1, <2>2
<1> QED BY <1>2, <1>4, <1>5, <1>6, <1>7, HandTold

-----------------------------------------------------------------------------
(* Connecting *)

FragmentIs == \A f \in Fragment : /\ f.h \in Handle /\ f.made \in Made /\ f.kind \in {"att", "smp"}
                                  /\ f.kind = "att" => f.req \in Request
LEMMA FragmentsAre == FragmentIs
<1> SUFFICES ASSUME NEW f \in Fragment
             PROVE  /\ f.h \in Handle /\ f.made \in Made /\ f.kind \in {"att", "smp"}
                    /\ f.kind = "att" => f.req \in Request
  BY DEF FragmentIs
<1>1. CASE f \in [h : Handle, made : Made, kind : {"att"}, req : Request]
  BY <1>1
<1>2. CASE f \in [h : Handle, made : Made, kind : {"smp"}, req : {NoReq}]
  BY <1>2
<1> QED BY <1>1, <1>2 DEF Fragment

\* What is believed of a connection, or a connection that is made.
Believes(q, h, cn) == [q EXCEPT !.conns[h] = cn]

LEMMA ConnectionMade ==
    ASSUME NEW q, Fits(q), NEW h \in Handle, NEW cn \in Conn, cn.open,
           q.conns[h].open => cn.made = q.conns[h].made
    PROVE  LET r == Believes(q, h, cn)
           IN  /\ Fits(r) /\ Takes(q, r, {})
               /\ r.conns[h] = cn /\ \A g \in Handle \ {h} : r.conns[g] = q.conns[g]
               /\ r.stack = q.stack
<1> DEFINE cs == [q.conns EXCEPT ![h] = cn]
           r == Believes(q, h, cn)
<1>1. q \in Chain /\ q.conns \in [Handle -> Conn]
  BY DEF Fits, Chain
<1>2. cs \in [Handle -> Conn] /\ cs[h] = cn /\ \A g \in Handle \ {h} : cs[g] = q.conns[g]
  BY <1>1
<1> HIDE DEF cs
<1>3. r = [q EXCEPT !.conns = cs]
  BY DEF cs, Believes
<1>4. /\ r \in Chain /\ r.conns = cs /\ r.chan = q.chan /\ r.stack = q.stack /\ r.posted = q.posted
      /\ r.acl = q.acl /\ r.sent = q.sent /\ r.credits = q.credits
  BY <1>1, <1>2, <1>3 DEF Chain
<1> HIDE DEF r
<1>5. ASSUME NEW f \in Fragment, IsOf(q, f) PROVE IsOf(r, f)
  <2>1. f.h \in Handle
    BY FragmentsAre DEF FragmentIs
  <2>2. CASE f.h = h
    BY <1>2, <1>4, <1>5, <2>2 DEF IsOf
  <2>3. CASE f.h # h
    BY <1>2, <1>4, <1>5, <2>1, <2>3 DEF IsOf
  <2> QED BY <2>2, <2>3
<1>6. \A a \in DOMAIN q.acl : q.acl[a] \in Fragment
  BY <1>1 DEF Chain
<1>7. \A a \in DOMAIN q.sent : q.sent[a] \in Fragment
  BY <1>1 DEF Chain
<1>8. Bare(r)
  <2> SUFFICES ASSUME NEW g \in Handle, ~r.conns[g].open
               PROVE  ~r.conns[g].enc /\ r.conns[g].notes = {} /\ r.chan[g] = EmptyChan
    BY DEF Bare
  <2>1. g # h /\ r.conns[g] = q.conns[g]
    BY <1>2, <1>4
  <2> QED BY <1>4, <2>1 DEF Fits, Bare
<1>9. Fits(r)
  BY <1>4, <1>5, <1>6, <1>7, <1>8 DEF Fits
<1>10. Takes(q, r, {})
  <2>1. ASSUME NEW i PROVE (Holds(r, i) <=> Holds(q, i)) /\ (Single(r, i) <=> Single(q, i))
    BY <1>4 DEF Holds, Single, OnChannel
  <2> QED BY <2>1 DEF Takes
<1> QED BY <1>2, <1>4, <1>9, <1>10 DEF r

LEMMA Connecteds == ASSUME CameraIInv, Connected PROVE CameraIInv'
<1>1. PICK h \in Handle, n \in 1..MaxConns :
          /\ ~conns[h].open
          /\ cam' = [cam EXCEPT !.conn = h, !.subscribed = FALSE, !.chars = NoChars]
          /\ peer' = [peer EXCEPT ![h] = <<>>]
          /\ Becomes(att_request([Queues EXCEPT !.conns[h] = [open |-> TRUE, made |-> n, enc |-> FALSE, notes |-> {}]],
                                 h, Ask(linking.call, "mtu", "none", 0)))
  BY DEF Connected
<1>2. linking # NoLinking /\ linking' = NoLinking /\ UNCHANGED <<link, closing, encrypt, pairing, daemon, calls>>
  BY DEF Connected
<1> DEFINE cn == [open |-> TRUE, made |-> n, enc |-> FALSE, notes |-> {}]
           c == linking.call
           req == Ask(c, "mtu", "none", 0)
           q == Believes(Queues, h, cn)
           r == att_request(q, h, req)
<1>3. Becomes(r)
  BY <1>1 DEF Believes
<1>4. cn \in Conn /\ cn.open /\ cn.made = n
  BY HciCameraAssumption DEF Conn, Made, HciCameraAssumption
<1>5. Fits(Queues) /\ Queues.conns = conns /\ conns \in [Handle -> Conn]
  BY QueuesAre DEF CameraIInv
<1> HIDE DEF cn
<1>6. Fits(q) /\ Takes(Queues, q, {}) /\ q.conns[h] = cn /\ \A g \in Handle \ {h} : q.conns[g] = conns[g]
  BY <1>1, <1>4, <1>5, ConnectionMade
<1> HIDE DEF q
<1>7. c \in CallId
  BY <1>2 DEF CameraIInv, Client
<1> HIDE DEF c
<1>8. req \in Request /\ req.call = c
  BY <1>7, MadeRequests DEF Question
<1> HIDE DEF req
<1>9. Fits(r) /\ r.conns = q.conns /\ Takes(q, r, {c})
  BY <1>6, <1>8, RequestAdds DEF Adds
<1> HIDE DEF r
<1>10. Accounts(q, c, pairing.req.call, 0, calls)
  BY <1>6, NothingTold DEF CameraIInv, CallsAccounted, c
<1>11. Accounts(r, 0, pairing.req.call, 0, calls)
  BY <1>9, <1>10, AttemptTold
<1>12. Accounts(r, linking'.call, pairing'.req.call, 0, calls')
  BY <1>2, <1>11, NoLinkingIs
<1>13. conns' = q.conns
  BY <1>3, <1>9 DEF Becomes
<1>14. PerConnection'
  <2>1. \A g \in Handle : conns[g].open => conns'[g].open
    BY <1>4, <1>6, <1>13
  <2>2. \A g \in Handle : ~conns'[g].open => g # h /\ ~conns[g].open
    BY <1>4, <1>6, <1>13
  <2>3. peer' \in [Handle -> Seq(Request)] /\ \A g \in Handle : ~conns'[g].open => peer'[g] = <<>>
    <3>1. peer \in [Handle -> Seq(Request)] /\ \A g \in Handle : ~conns[g].open => peer[g] = <<>>
      BY DEF CameraIInv, PerConnection
    <3>2. <<>> \in Seq(Request)
      OBVIOUS
    <3> QED BY <1>1, <2>2, <3>1, <3>2
  <2> QED BY <1>2, <2>1, <2>3 DEF CameraIInv, PerConnection
<1>15. Client'
  <2>1. cam' \in CamType
    <3>1. NoChars \in [Char -> [found : BOOLEAN, cccd : Char \cup {"none"}]]
      BY DEF NoChars
    <3> QED BY <1>1, <3>1 DEF CameraIInv, Client, CamType
  <2> QED BY <1>2, <2>1 DEF CameraIInv, Client, PairingOK
<1>16. Caller'
  BY <1>2 DEF CameraIInv, Caller, AnsweredOnce
<1> QED BY <1>3, <1>9, <1>12, <1>14, <1>15, <1>16, QueuesKept DEF CameraIInv

\* A handler run, or a timer that fires, on an idle loop: the stack was empty.
LEMMA StackIsPushed ==
    ASSUME Fits(Queues), stack = <<>>, NEW w \in Work, stack' = <<w>>, UNCHANGED <<conns, chan, acl, credits, sent, posted>>
    PROVE  Becomes(Push(Queues, w))
<1>1. <<w>> \o <<>> = <<w>>
  OBVIOUS
<1> QED BY <1>1, QueuesAre DEF Becomes, Push, Queues

LEMMA ConnectTimeouts == ASSUME CameraIInv, ConnectTimeout PROVE CameraIInv'
<1>1. /\ stack = <<>> /\ linking # NoLinking
      /\ UNCHANGED <<link, conns, closing, chan, acl, credits, sent, peer, encrypt, cam, pairing, daemon, calls, posted>>
  BY DEF ConnectTimeout, Resting
<1>2. PerConnection' /\ Caller'
  BY <1>1, ConnectionsKept DEF CameraIInv, Caller, AnsweredOnce
<1>3. linking \in [call : CallId, type : 0..1]
  BY <1>1 DEF CameraIInv, Client
<1>4. CASE linking.type = 0
  <2>1. linking' = [linking EXCEPT !.type = 1] /\ stack' = stack
    BY <1>4 DEF ConnectTimeout
  <2>2. linking' \in [call : CallId, type : 0..1] /\ linking'.call = linking.call
    BY <1>3, <2>1
  <2>3. Client'
    BY <1>1, <2>2 DEF CameraIInv, Client, PairingOK
  <2>4. Queues' = Queues
    BY <1>1, <2>1 DEF Queues
  <2> QED BY <1>1, <1>2, <2>2, <2>3, <2>4 DEF CameraIInv, CallsAccounted
<1>5. CASE linking.type # 0
  <2> DEFINE w == Result(linking.call, FALSE)
  <2>1. linking' = NoLinking /\ stack' = <<w>>
    BY <1>5 DEF ConnectTimeout
  <2>2. w \in Work /\ CallOf(w) = linking.call
    BY <1>3, MadeWork
  <2> HIDE DEF w
  <2>3. Becomes(Push(Queues, w))
    BY <1>1, <2>1, <2>2, StackIsPushed DEF CameraIInv
  <2>4. Adds(Queues, Push(Queues, w), {CallOf(w)})
    BY <2>2, PushAdds DEF CameraIInv
  <2>5. Accounts(Push(Queues, w), 0, pairing.req.call, 0, calls)
    BY <2>2, <2>4, AttemptTold DEF Adds, CameraIInv, CallsAccounted
  <2>6. Accounts(Push(Queues, w), linking'.call, pairing'.req.call, 0, calls')
    BY <1>1, <2>1, <2>5, NoLinkingIs
  <2>7. Client'
    BY <1>1, <2>1 DEF CameraIInv, Client, PairingOK
  <2> QED BY <1>2, <2>3, <2>4, <2>6, <2>7, QueuesKept DEF CameraIInv, Adds
<1> QED BY <1>4, <1>5

-----------------------------------------------------------------------------
(* The client's handlers *)

\* The answer that is being handled.
LEMMA AnswerInHand ==
    ASSUME CameraIInv, NEW ask, Asked(ask)
    PROVE  /\ stack # <<>> /\ Work1 \in Work
           /\ Work1.req \in Request /\ Work1.ok \in BOOLEAN /\ Work1.ans \in Answer /\ Work1.about \in Char \cup {"none"}
           /\ Work1.req.ask = ask
           /\ Work1.req.call \in CallId /\ CallOf(Work1) = Work1.req.call /\ Work1.req.round \in Nat
           /\ Fits(Popped) /\ Popped.conns = conns
           /\ Accounts(Popped, linking.call, pairing.req.call, Work1.req.call, calls)
<1>1. stack # <<>> /\ Work1.kind = "answer" /\ Work1.req.ask = ask
  BY DEF Asked, Now, Work1
<1>2. Fits(Popped) /\ Popped.conns = conns /\ Work1 \in Work
      /\ Accounts(Popped, linking.call, pairing.req.call, CallOf(Work1), calls)
  BY <1>1, InHand
<1>3. /\ Work1.req \in Request /\ Work1.ok \in BOOLEAN /\ Work1.ans \in Answer /\ Work1.about \in Char \cup {"none"}
  BY <1>1, <1>2, WorkIs
<1>4. CallOf(Work1) = Work1.req.call
  BY <1>1 DEF CallOf
<1>5. Work1.req.call \in CallId /\ Work1.req.round \in Nat
  BY <1>3 DEF Request
<1> QED BY <1>1, <1>2, <1>3, <1>4, <1>5

\* A handler that leaves the call to one completion more, and only the client changed.
LEMMA ClientSteps ==
    ASSUME CameraIInv, stack # <<>>, NEW r, Adds(Popped, r, {CallOf(Work1)}), Becomes(r),
           ClientOnly, cam' \in CamType
    PROVE  CameraIInv'
<1>1. Popped.conns = conns /\ Accounts(Popped, linking.call, pairing.req.call, CallOf(Work1), calls)
  BY InHand
<1>2. UNCHANGED <<link, closing, peer, linking, encrypt, pairing, daemon, calls>>
  BY DEF ClientOnly
<1>3. Caller'
  BY <1>2 DEF CameraIInv, Caller, AnsweredOnce
<1>4. Accounts(Popped, linking.call, pairing.req.call, CallOf(Work1), calls')
  BY <1>1, <1>2
<1> DEFINE p == Popped
           c == CallOf(Work1)
<1> HIDE DEF p, c
<1>5. p.conns = conns /\ Adds(p, r, {c}) /\ Accounts(p, linking.call, pairing.req.call, c, calls')
  BY <1>1, <1>4 DEF p, c
<1> QED BY <1>2, <1>3, <1>5, HandTold

LEMMA NextAsked ==
    ASSUME CameraIInv, NEW a, Asked(a), NEW ask \in Question \ {"subscribe"}, NEW of \in Char \cup {"none"}, NEW round \in Nat
    PROVE  Adds(Popped, AskNext(Popped, ask, of, round), {CallOf(Work1)})
<1> DEFINE p == Popped
           req == Ask(Work1.req.call, ask, of, round)
<1>1. Fits(p) /\ Work1.req.call \in CallId /\ CallOf(Work1) = Work1.req.call
  BY AnswerInHand
<1> DEFINE c == Work1.req.call
<1>2. req \in Request /\ req.call = c
  <2>1. c \in CallId /\ ask \in Question /\ ask # "subscribe"
    BY <1>1
  <2>2. req = Ask(c, ask, of, round)
    OBVIOUS
  <2> HIDE DEF c, req
  <2> QED BY <2>1, <2>2, MadeRequests
<1>3. cam.conn \in Handle \cup {0}
  BY DEF CameraIInv, Client, CamType
<1>4. AskNext(p, ask, of, round) = att_request(p, cam.conn, req)
  BY DEF AskNext
<1> HIDE DEF p, req
<1>5. Adds(p, att_request(p, cam.conn, req), {req.call})
  BY <1>1, <1>2, <1>3, RequestAdds
<1> QED BY <1>1, <1>2, <1>4, <1>5 DEF p

\* A failed discovery: the call is told, and whoever waits for the pairing.
LEMMA ToldAndLetGo ==
    ASSUME CameraIInv, stack # <<>>, CallOf(Work1) \in CallId,
           Becomes(PairingOver(Complete(Popped, CallOf(Work1), FALSE), FALSE)),
           closing' = AskedToClose, pairing' = NotPairing, UNCHANGED <<link, peer, linking, encrypt, daemon, calls>>,
           cam' \in CamType
    PROVE  CameraIInv'
<1> DEFINE p == Popped
           c == CallOf(Work1)
           q == Complete(p, c, FALSE)
           r == PairingOver(q, FALSE)
<1>0. Becomes(r) /\ c \in CallId
  OBVIOUS
<1>1. Fits(p) /\ p.conns = conns /\ Accounts(p, linking.call, pairing.req.call, c, calls)
  BY InHand
<1> HIDE DEF p, c
<1>2. Adds(p, q, {c})
  BY <1>0, <1>1, CompleteAdds
<1> HIDE DEF q
<1>3. Fits(q) /\ q.conns = conns /\ Accounts(q, linking.call, pairing.req.call, 0, calls)
  BY <1>1, <1>2, HandEmptied DEF Adds
<1>4. Adds(q, r, {pairing.req.call})
  BY <1>3, PairingAdds DEF CameraIInv, Client
<1> HIDE DEF r
<1>5. Fits(r) /\ r.conns = conns /\ Accounts(r, linking.call, 0, 0, calls)
  BY <1>3, <1>4, PairedTold DEF Adds
<1>6. Accounts(r, linking'.call, pairing'.req.call, 0, calls')
  BY <1>5, NotPairingIs
<1>7. conns' = conns
  BY <1>0, <1>5 DEF Becomes
<1>8. PerConnection'
  BY <1>7, LettingGo DEF CameraIInv
<1>9. Client' /\ Caller'
  BY DEF CameraIInv, Client, PairingOK, Caller, AnsweredOnce
<1> QED BY <1>0, <1>5, <1>6, <1>8, <1>9, QueuesKept DEF CameraIInv

LEMMA GivesUp == ASSUME CameraIInv, NEW ask, Asked(ask), GiveUp PROVE CameraIInv'
<1>1. stack # <<>> /\ CallOf(Work1) = Work1.req.call /\ Work1.req.call \in CallId
  BY AnswerInHand
<1>2. Becomes(PairingOver(Complete(Popped, CallOf(Work1), FALSE), FALSE))
  BY <1>1 DEF GiveUp
<1>3. closing' = AskedToClose /\ pairing' = NotPairing /\ UNCHANGED <<link, peer, linking, encrypt, daemon, calls>>
  BY DEF GiveUp
<1>4. cam' \in CamType
  BY DEF GiveUp, CameraIInv, Client, CamType, LetGo
<1> QED BY <1>1, <1>2, <1>3, <1>4, ToldAndLetGo

LEMMA OnMtus == ASSUME CameraIInv, OnMtu PROVE CameraIInv'
<1>1. Asked("mtu") /\ Becomes(AskNext(Popped, "services", "none", 0)) /\ ClientOnly /\ cam' = [cam EXCEPT !.scratch = {}]
  BY DEF OnMtu
<1>2. stack # <<>>
  BY <1>1, AnswerInHand
<1>3. Adds(Popped, AskNext(Popped, "services", "none", 0), {CallOf(Work1)})
  BY <1>1, NextAsked DEF Question
<1>4. cam' \in CamType
  BY <1>1 DEF CameraIInv, Client, CamType
<1> QED BY <1>1, <1>2, <1>3, <1>4, ClientSteps

LEMMA OnServicess == ASSUME CameraIInv, OnServices PROVE CameraIInv'
<1>0. Asked("services")
  BY DEF OnServices
<1>1. stack # <<>> /\ Work1.req.round \in Nat
  BY <1>0, AnswerInHand
<1>2. CASE Becomes(AskNext(Popped, "chars", "none", 0)) /\ UNCHANGED cam /\ ClientOnly
  <2>1. Adds(Popped, AskNext(Popped, "chars", "none", 0), {CallOf(Work1)})
    BY <1>0, NextAsked DEF Question
  <2> QED BY <1>1, <1>2, <2>1, ClientSteps DEF CameraIInv, Client
<1>3. CASE Becomes(AskNext(Popped, "services", "none", Work1.req.round + 1)) /\ UNCHANGED cam /\ ClientOnly
  <2>2. Work1.req.round + 1 \in Nat
    BY <1>1
  <2>1. Adds(Popped, AskNext(Popped, "services", "none", Work1.req.round + 1), {CallOf(Work1)})
    BY <1>0, <2>2, NextAsked DEF Question
  <2> QED BY <1>1, <1>3, <2>1, ClientSteps DEF CameraIInv, Client
<1>4. CASE GiveUp
  BY <1>0, <1>4, GivesUp
<1> QED BY <1>2, <1>3, <1>4 DEF OnServices

LEMMA FinishesDiscovery ==
    ASSUME CameraIInv, NEW a, Asked(a), NEW found \in SUBSET Char, NEW cccds \in [Char -> Char \cup {"none"}],
           finish_discovery(found, cccds)
    PROVE  CameraIInv'
<1> DEFINE chars == [c \in Char |-> IF c \in found
                                    THEN [found |-> TRUE, cccd |-> IF cccds[c] # "none" THEN cccds[c]
                                                                   ELSE cam.chars[c].cccd]
                                    ELSE cam.chars[c]]
           none == [c \in Char |-> "none"]
           stored == [cam EXCEPT !.chars = chars, !.scratch = found, !.cccds = none]
           let == [stored EXCEPT !.conn = 0, !.subscribed = FALSE]
<1>1. cam \in CamType
  BY DEF CameraIInv, Client
<1>2. chars \in [Char -> [found : BOOLEAN, cccd : Char \cup {"none"}]]
  <2>1. \A c \in Char : cam.chars[c] \in [found : BOOLEAN, cccd : Char \cup {"none"}]
    BY <1>1 DEF CamType
  <2>2. \A c \in Char : cccds[c] \in Char \cup {"none"}
    OBVIOUS
  <2>3. ASSUME NEW c \in Char
        PROVE  (IF c \in found
                THEN [found |-> TRUE, cccd |-> IF cccds[c] # "none" THEN cccds[c] ELSE cam.chars[c].cccd]
                ELSE cam.chars[c]) \in [found : BOOLEAN, cccd : Char \cup {"none"}]
    <3>1. CASE c \in found
      <4>1. (IF cccds[c] # "none" THEN cccds[c] ELSE cam.chars[c].cccd) \in Char \cup {"none"}
        BY <2>1, <2>2
      <4> QED BY <3>1, <4>1
    <3>2. CASE c \notin found
      BY <2>1, <3>2
    <3> QED BY <3>1, <3>2
  <2> QED BY <2>3
<1>3. none \in [Char -> Char \cup {"none"}]
  OBVIOUS
<1>4. \/ cam' = stored /\ Becomes(Complete(Popped, Work1.req.call, TRUE)) /\ ClientOnly
      \/ /\ cam' = let
         /\ Becomes(PairingOver(Complete(Popped, Work1.req.call, FALSE), FALSE))
         /\ closing' = AskedToClose
         /\ pairing' = NotPairing
         /\ UNCHANGED <<link, peer, linking, encrypt, daemon, calls>>
  BY DEF finish_discovery
<1> HIDE DEF chars, none
<1>5. stored \in CamType
  BY <1>1, <1>2, <1>3 DEF CamType
<1>6. let \in CamType
  <2> HIDE DEF stored
  <2> QED BY <1>5 DEF CamType
<1> HIDE DEF stored, let
<1>7. stack # <<>> /\ CallOf(Work1) = Work1.req.call /\ Work1.req.call \in CallId /\ Fits(Popped)
  BY AnswerInHand
<1>8. CASE cam' = stored /\ Becomes(Complete(Popped, Work1.req.call, TRUE)) /\ ClientOnly
  <2>1. Adds(Popped, Complete(Popped, Work1.req.call, TRUE), {CallOf(Work1)})
    BY <1>7, CompleteAdds
  <2> QED BY <1>5, <1>7, <1>8, <2>1, ClientSteps
<1>9. CASE /\ cam' = let
           /\ Becomes(PairingOver(Complete(Popped, Work1.req.call, FALSE), FALSE))
           /\ closing' = AskedToClose
           /\ pairing' = NotPairing
           /\ UNCHANGED <<link, peer, linking, encrypt, daemon, calls>>
  BY <1>6, <1>7, <1>9, ToldAndLetGo
<1> QED BY <1>4, <1>8, <1>9

LEMMA WalksOn ==
    ASSUME CameraIInv, NEW a, Asked(a), NEW found \in SUBSET Char, NEW cccds \in [Char -> Char \cup {"none"}],
           NEW c, walk_cccds(found, cccds, c)
    PROVE  CameraIInv'
<1> DEFINE next == NextWanted(found, c)
           walked == [cam EXCEPT !.scratch = found, !.cccds = cccds]
<1>1. next \in Char \cup {"none"}
  BY DEF NextWanted, Char
<1>2. \/ finish_discovery(found, cccds)
      \/ cam' = walked /\ Becomes(AskNext(Popped, "cccd", next, 0)) /\ ClientOnly
  BY DEF walk_cccds
<1>3. walked \in CamType
  BY DEF CameraIInv, Client, CamType
<1> HIDE DEF next, walked
<1>4. CASE finish_discovery(found, cccds)
  BY <1>4, FinishesDiscovery
<1>5. CASE cam' = walked /\ Becomes(AskNext(Popped, "cccd", next, 0)) /\ ClientOnly
  <2>1. "cccd" \in Question \ {"subscribe"}
    BY DEF Question
  <2>2. Adds(Popped, AskNext(Popped, "cccd", next, 0), {CallOf(Work1)})
    BY <1>1, <2>1, NextAsked
  <2>3. stack # <<>>
    BY AnswerInHand
  <2> QED BY <1>3, <1>5, <2>2, <2>3, ClientSteps
<1> QED BY <1>2, <1>4, <1>5

LEMMA OnCharss == ASSUME CameraIInv, OnChars PROVE CameraIInv'
<1>0. Asked("chars")
  BY DEF OnChars
<1>1. stack # <<>> /\ Work1.req.round + 1 \in Nat
  BY <1>0, AnswerInHand
<1>2. CASE GiveUp
  BY <1>0, <1>2, GivesUp
<1>3. CASE ~GiveUp
  <2>1. PICK new \in {{}, Present, Present \ {"outgoing"}} :
            LET found == cam.scratch \cup new
            IN  \/ /\ cam' = [cam EXCEPT !.scratch = found]
                   /\ Becomes(AskNext(Popped, "chars", "none", Work1.req.round + 1))
                   /\ ClientOnly
                \/ walk_cccds(found, cam.cccds, "first")
    BY <1>3 DEF OnChars
  <2> DEFINE found == cam.scratch \cup new
             walked == [cam EXCEPT !.scratch = found]
  <2>2. found \in SUBSET Char /\ cam.cccds \in [Char -> Char \cup {"none"}]
    BY HciCameraAssumption DEF HciCameraAssumption, CameraIInv, Client, CamType
  <2>3. CASE cam' = walked /\ Becomes(AskNext(Popped, "chars", "none", Work1.req.round + 1)) /\ ClientOnly
    <3>1. cam' \in CamType
      BY <2>2, <2>3 DEF CameraIInv, Client, CamType
    <3>2. "chars" \in Question \ {"subscribe"}
      BY DEF Question
    <3>3. Adds(Popped, AskNext(Popped, "chars", "none", Work1.req.round + 1), {CallOf(Work1)})
      BY <1>0, <1>1, <3>2, NextAsked
    <3> QED BY <1>1, <2>3, <3>1, <3>3, ClientSteps
  <2> HIDE DEF found
  <2>4. CASE walk_cccds(found, cam.cccds, "first")
    BY <1>0, <2>2, <2>4, WalksOn
  <2> QED BY <2>1, <2>3, <2>4 DEF found
<1> QED BY <1>2, <1>3

LEMMA OnCccds == ASSUME CameraIInv, OnCccd PROVE CameraIInv'
<1>0. Asked("cccd")
  BY DEF OnCccd
<1>1. /\ stack # <<>> /\ Work1.req.round + 1 \in Nat /\ Work1.req.of \in Char \cup {"none"}
      /\ Work1.about \in Char \cup {"none"}
  BY <1>0, AnswerInHand DEF Request
<1> DEFINE cccds == IF Work1.ok /\ Work1.ans = "ok" THEN [cam.cccds EXCEPT ![Work1.req.of] = Work1.about] ELSE cam.cccds
<1>2. \/ Becomes(AskNext(Popped, "cccd", Work1.req.of, Work1.req.round + 1)) /\ cam' = cam /\ ClientOnly
      \/ walk_cccds(cam.scratch, cccds, Work1.req.of)
  BY DEF OnCccd
<1>3. cam.scratch \in SUBSET Char /\ cccds \in [Char -> Char \cup {"none"}] /\ cam \in CamType
  BY <1>1 DEF CameraIInv, Client, CamType
<1> HIDE DEF cccds
<1>4. CASE Becomes(AskNext(Popped, "cccd", Work1.req.of, Work1.req.round + 1)) /\ cam' = cam /\ ClientOnly
  <2>1. "cccd" \in Question \ {"subscribe"}
    BY DEF Question
  <2>2. Adds(Popped, AskNext(Popped, "cccd", Work1.req.of, Work1.req.round + 1), {CallOf(Work1)})
    BY <1>0, <1>1, <2>1, NextAsked
  <2> QED BY <1>1, <1>3, <1>4, <2>2, ClientSteps
<1>5. CASE walk_cccds(cam.scratch, cccds, Work1.req.of)
  BY <1>0, <1>3, <1>5, WalksOn
<1> QED BY <1>2, <1>4, <1>5

\* Pairing takes the completion over, or it is told at once that there is none.
LEMMA PairsFor ==
    ASSUME CameraIInv, NEW a, Asked(a), PairFor(Work1.req)
    PROVE  CameraIInv'
<1> DEFINE p == Popped
           c == CallOf(Work1)
<1>1. /\ stack # <<>> /\ Work1.req \in Request /\ c = Work1.req.call /\ c \in CallId /\ Fits(p) /\ p.conns = conns
      /\ Accounts(p, linking.call, pairing.req.call, c, calls)
  BY AnswerInHand
<1>2. UNCHANGED <<link, closing, peer, linking, encrypt, cam, daemon, calls>>
  BY DEF PairFor
<1>3. cam \in CamType /\ cam.conn \in Handle \cup {0}
  BY DEF CameraIInv, Client, CamType
<1>4. \/ \E ok \in BOOLEAN : /\ \/ Becomes(Post(p, [kind |-> "paired", req |-> Work1.req, ok |-> ok]))
                                \/ Becomes(Push(p, [kind |-> "paired", req |-> Work1.req, ok |-> ok]))
                             /\ pairing' = pairing
      \/ /\ cam.conn # 0 /\ pairing = NotPairing
         /\ CanQueue(p, cam.conn)
         /\ pairing' = [state |-> "response", req |-> Work1.req]
         /\ Becomes(queue_acl(p, cam.conn, "smp", NoReq))
  <2>1. CASE cam.conn = 0 \/ (~conns[cam.conn].enc /\ pairing # NotPairing)
    BY <2>1 DEF PairFor, Post
  <2>2. CASE cam.conn # 0 /\ conns[cam.conn].enc
    BY <2>2 DEF PairFor, Post
  <2>3. CASE cam.conn # 0 /\ ~conns[cam.conn].enc /\ pairing = NotPairing
    BY <2>3 DEF PairFor, Push
  <2> QED BY <2>1, <2>2, <2>3
<1> HIDE DEF p
<1>5. ASSUME NEW ok \in BOOLEAN, pairing' = pairing, 
             \/ Becomes(Post(p, [kind |-> "paired", req |-> Work1.req, ok |-> ok]))
             \/ Becomes(Push(p, [kind |-> "paired", req |-> Work1.req, ok |-> ok]))
      PROVE  CameraIInv'
  <2> DEFINE w == [kind |-> "paired", req |-> Work1.req, ok |-> ok]
  <2>1. w \in Work /\ CallOf(w) = c
    BY <1>1, MadeWork
  <2>2. Becomes(Post(p, w)) \/ Becomes(Push(p, w))
    BY <1>5
  <2> HIDE DEF w, c
  <2>3. Adds(p, Post(p, w), {c}) /\ Adds(p, Push(p, w), {c})
    BY <1>1, <2>1, PostAdds, PushAdds
  <2>4. \E r : Adds(Popped, r, {CallOf(Work1)}) /\ Becomes(r)
    BY <2>2, <2>3 DEF p, c
  <2>5. ClientOnly /\ cam' \in CamType
    BY <1>2, <1>3, <1>5 DEF ClientOnly
  <2> QED BY <1>1, <2>4, <2>5, ClientSteps
<1>6. ASSUME cam.conn # 0, pairing = NotPairing, CanQueue(p, cam.conn),
             pairing' = [state |-> "response", req |-> Work1.req],
             Becomes(queue_acl(p, cam.conn, "smp", NoReq))
      PROVE  CameraIInv'
  <2> DEFINE r == queue_acl(p, cam.conn, "smp", NoReq)
  <2> HIDE DEF c
  <2>1. cam.conn \in Handle
    BY <1>3, <1>6
  <2>2. Adds(p, r, {})
    BY <1>1, <1>6, <2>1, QueueAdds
  <2>3. Becomes(r)
    BY <1>6
  <2> HIDE DEF r
  <2>4. Fits(r) /\ r.conns = conns /\ Accounts(r, linking.call, pairing.req.call, c, calls)
    BY <1>1, <2>2, NothingTold DEF Adds
  <2>5. Accounts(r, linking.call, 0, c, calls)
    BY <1>6, <2>4, NotPairingIs
  <2>6. Accounts(r, linking.call, c, 0, calls)
    BY <2>5, HandOver
  <2>7. pairing'.req.call = c
    BY <1>1, <1>6
  <2>8. Accounts(r, linking'.call, pairing'.req.call, 0, calls')
    BY <1>2, <2>6, <2>7
  <2>9. conns' = conns
    BY <2>3, <2>4 DEF Becomes
  <2>10. PerConnection' /\ Caller'
    BY <1>2, <2>9, ConnectionsKept DEF CameraIInv, Caller, AnsweredOnce
  <2>11. Client'
    <3>1. pairing' \in [state : {"response", "confirm", "random", "ready"}, req : Request]
      BY <1>1, <1>6
    <3> QED BY <1>2, <3>1 DEF CameraIInv, Client, PairingOK
  <2> QED BY <2>3, <2>4, <2>8, <2>10, <2>11, QueuesKept DEF CameraIInv
<1> QED BY <1>4, <1>5, <1>6

\* A call ended by its answer, and only the client changed.
LEMMA AnswersCall ==
    ASSUME CameraIInv, NEW a, Asked(a), NEW ok \in BOOLEAN, Becomes(Complete(Popped, Work1.req.call, ok)),
           ClientOnly, cam' \in CamType
    PROVE  CameraIInv'
<1>1. stack # <<>> /\ CallOf(Work1) = Work1.req.call /\ Work1.req.call \in CallId /\ Fits(Popped)
  BY AnswerInHand
<1>2. Adds(Popped, Complete(Popped, Work1.req.call, ok), {CallOf(Work1)})
  BY <1>1, CompleteAdds
<1> QED BY <1>1, <1>2, ClientSteps

LEMMA OnSubscribes == ASSUME CameraIInv, OnSubscribe PROVE CameraIInv'
<1>0. Asked("subscribe")
  BY DEF OnSubscribe
<1>1. /\ stack # <<>> /\ Work1.req.round + 1 \in Nat \ {0}
      /\ CallOf(Work1) = Work1.req.call /\ Work1.req.call \in CallId /\ Fits(Popped)
  BY <1>0, AnswerInHand
<1> DEFINE next == SubscribeNext(Work1.req.round + 1)
<1>2. cam \in CamType /\ [cam EXCEPT !.subscribed = TRUE] \in CamType
  BY DEF CameraIInv, Client, CamType
<1>3. \/ PairFor(Work1.req)
      \/ next # 0 /\ Becomes(AskSubscribe(Popped, Work1.req.call, next)) /\ cam' = cam /\ ClientOnly
      \/ cam' = [cam EXCEPT !.subscribed = TRUE] /\ Becomes(Complete(Popped, Work1.req.call, TRUE)) /\ ClientOnly
      \/ Becomes(Complete(Popped, Work1.req.call, FALSE)) /\ cam' = cam /\ ClientOnly
  BY DEF OnSubscribe
<1>4. CASE PairFor(Work1.req)
  BY <1>0, <1>4, PairsFor
<1>5. CASE next # 0 /\ Becomes(AskSubscribe(Popped, Work1.req.call, next)) /\ cam' = cam /\ ClientOnly
  <2>1. Adds(Popped, AskSubscribe(Popped, Work1.req.call, next), {CallOf(Work1)})
    <3> DEFINE p == Popped
               n == Work1.req.round + 1
               c == Work1.req.call
    <3>1. Fits(p) /\ Client /\ c \in CallId /\ n \in Nat \ {0} /\ SubscribeNext(n) # 0
      BY <1>1, <1>5 DEF CameraIInv
    <3> HIDE DEF p, n, c
    <3>2. Adds(p, AskSubscribe(p, c, SubscribeNext(n)), {c})
      BY <3>1, SubscribeAdds
    <3> QED BY <1>1, <3>2 DEF p, n, c
  <2> QED BY <1>1, <1>2, <1>5, <2>1, ClientSteps
<1>6. CASE cam' = [cam EXCEPT !.subscribed = TRUE] /\ Becomes(Complete(Popped, Work1.req.call, TRUE)) /\ ClientOnly
  BY <1>0, <1>2, <1>6, AnswersCall
<1>7. CASE Becomes(Complete(Popped, Work1.req.call, FALSE)) /\ cam' = cam /\ ClientOnly
  BY <1>0, <1>2, <1>7, AnswersCall
<1> QED BY <1>3, <1>4, <1>5, <1>6, <1>7

LEMMA OnWrites == ASSUME CameraIInv, OnWrite PROVE CameraIInv'
<1>0. Asked("write") /\ cam \in CamType
  BY DEF OnWrite, CameraIInv, Client
<1>1. Work1.ok \in BOOLEAN
  BY <1>0, AnswerInHand
<1>2. CASE PairFor(Work1.req)
  BY <1>0, <1>2, PairsFor
<1>3. CASE ~PairFor(Work1.req)
  <2>1. Becomes(Complete(Popped, Work1.req.call, Work1.ok /\ Work1.ans = "ok")) /\ cam' = cam /\ ClientOnly
    BY <1>3 DEF OnWrite
  <2>2. (Work1.ok /\ Work1.ans = "ok") \in BOOLEAN
    BY <1>1
  <2> QED BY <1>0, <2>1, <2>2, AnswersCall
<1> QED BY <1>2, <1>3

LEMMA OnPaireds == ASSUME CameraIInv, OnPaired PROVE CameraIInv'
<1>1. stack # <<>> /\ Work1.kind = "paired" /\ cam' = cam /\ ClientOnly
  BY DEF OnPaired, Now, Work1
<1>2. Fits(Popped) /\ Work1 \in Work
  BY <1>1, InHand
<1>3. Work1.req \in Request /\ CallOf(Work1) = Work1.req.call
  BY <1>1, <1>2, WorkIs DEF CallOf
<1>4. Work1.req.call \in CallId
  BY <1>3, RequestIs
<1>5. cam \in CamType /\ cam.conn \in Handle \cup {0}
  BY DEF CameraIInv, Client, CamType
<1>6. CASE Work1.ok
  <2> DEFINE req == [Work1.req EXCEPT !.again = TRUE]
             p == Popped
  <2>1. req \in Request /\ req.call = CallOf(Work1)
    BY <1>3, MadeRequests
  <2>2. Becomes(att_request(p, cam.conn, req))
    BY <1>6 DEF OnPaired
  <2>4. Fits(p)
    BY <1>2
  <2> HIDE DEF req, p
  <2>3. Adds(p, att_request(p, cam.conn, req), {req.call})
    BY <1>5, <2>1, <2>4, RequestAdds
  <2>5. \E r : Adds(Popped, r, {CallOf(Work1)}) /\ Becomes(r)
    BY <2>1, <2>2, <2>3 DEF p
  <2> QED BY <1>1, <1>5, <2>5, ClientSteps
<1>7. CASE ~Work1.ok
  <2>1. Becomes(Complete(Popped, Work1.req.call, FALSE))
    BY <1>7 DEF OnPaired
  <2>2. Adds(Popped, Complete(Popped, Work1.req.call, FALSE), {CallOf(Work1)})
    BY <1>2, <1>3, <1>4, CompleteAdds
  <2> QED BY <1>1, <1>5, <2>1, <2>2, ClientSteps
<1> QED BY <1>6, <1>7

\* The pairing is over: whoever waited for it is told.
LEMMA PairingEnds ==
    ASSUME CameraIInv, NEW q, Fits(q), q.conns = conns, Accounts(q, linking.call, pairing.req.call, 0, calls),
           NEW ok \in BOOLEAN, Becomes(PairingOver(q, ok)), pairing' = NotPairing,
           UNCHANGED <<link, closing, peer, linking, encrypt, daemon, calls>>, cam' \in CamType
    PROVE  CameraIInv'
<1> DEFINE r == PairingOver(q, ok)
<1>1. Becomes(r)
  OBVIOUS
<1>2. Adds(q, r, {pairing.req.call})
  BY PairingAdds DEF CameraIInv, Client
<1> HIDE DEF r
<1>3. Fits(r) /\ r.conns = conns /\ Accounts(r, linking.call, 0, 0, calls)
  BY <1>2, PairedTold DEF Adds
<1>4. Accounts(r, linking'.call, pairing'.req.call, 0, calls')
  BY <1>3, NotPairingIs
<1>5. conns' = conns
  BY <1>1, <1>3 DEF Becomes
<1>6. PerConnection' /\ Caller'
  BY <1>5, ConnectionsKept DEF CameraIInv, Caller, AnsweredOnce
<1>7. Client'
  BY DEF CameraIInv, Client, PairingOK
<1> QED BY <1>1, <1>3, <1>4, <1>6, <1>7, QueuesKept DEF CameraIInv

LEMMA OnEncrypteds == ASSUME CameraIInv, OnEncrypted PROVE CameraIInv'
<1>1. stack # <<>> /\ Work1.kind = "encrypted" /\ Becomes(PairingOver(Popped, Work1.ok)) /\ pairing' = NotPairing
      /\ UNCHANGED <<link, closing, peer, linking, encrypt, cam, daemon, calls>>
  BY DEF OnEncrypted, Now, Work1
<1>2. Fits(Popped) /\ Popped.conns = conns /\ Work1 \in Work
      /\ Accounts(Popped, linking.call, pairing.req.call, CallOf(Work1), calls)
  BY <1>1, InHand
<1>3. Work1.ok \in BOOLEAN /\ CallOf(Work1) = 0
  BY <1>1, <1>2, WorkIs DEF CallOf
<1>4. cam' \in CamType
  BY <1>1 DEF CameraIInv, Client
<1> DEFINE p == Popped
           ok == Work1.ok
<1>5. Fits(p) /\ p.conns = conns /\ Accounts(p, linking.call, pairing.req.call, 0, calls) /\ ok \in BOOLEAN
      /\ Becomes(PairingOver(p, ok))
  BY <1>1, <1>2, <1>3
<1> HIDE DEF p, ok
<1> QED BY <1>1, <1>4, <1>5, PairingEnds

LEMMA OnGones == ASSUME CameraIInv, on_gone PROVE CameraIInv'
<1>1. stack # <<>> /\ Work1.kind = "gone" /\ UNCHANGED <<link, closing, peer, linking, encrypt, daemon, calls>>
  BY DEF on_gone, Now, Work1
<1>2. Fits(Popped) /\ Popped.conns = conns /\ Work1 \in Work
      /\ Accounts(Popped, linking.call, pairing.req.call, CallOf(Work1), calls)
  BY <1>1, InHand
<1>3. CallOf(Work1) = 0
  BY <1>1 DEF CallOf
<1> DEFINE p == Popped
<1>4. Fits(p) /\ p.conns = conns /\ Accounts(p, linking.call, pairing.req.call, 0, calls)
  BY <1>2, <1>3
<1>5. CASE Work1.h = cam.conn
  <2>1. cam' = LetGo /\ pairing' = NotPairing /\ Becomes(PairingOver(p, FALSE))
    BY <1>5 DEF on_gone
  <2>2. cam' \in CamType
    BY <2>1 DEF CameraIInv, Client, CamType, LetGo
  <2> HIDE DEF p
  <2> QED BY <1>1, <1>4, <2>1, <2>2, PairingEnds
<1>6. CASE Work1.h # cam.conn
  <2>1. UNCHANGED <<cam, pairing>> /\ Becomes(p)
    BY <1>6 DEF on_gone
  <2> HIDE DEF p
  <2>2. conns' = conns
    BY <1>4, <2>1 DEF Becomes
  <2>3. PerConnection' /\ Caller' /\ Client'
    BY <1>1, <2>1, <2>2, ConnectionsKept DEF CameraIInv, Caller, AnsweredOnce, Client, PairingOK
  <2>4. Accounts(p, linking'.call, pairing'.req.call, 0, calls')
    BY <1>1, <1>4, <2>1
  <2> QED BY <1>4, <2>1, <2>3, <2>4, QueuesKept DEF CameraIInv
<1> QED BY <1>5, <1>6

LEMMA OnResults == ASSUME CameraIInv, OnResult PROVE CameraIInv'
<1> DEFINE p == Popped
           c == Work1.call
<1>1. /\ stack # <<>> /\ Work1.kind = "result" /\ Becomes(p)
      /\ UNCHANGED <<link, closing, peer, linking, encrypt, cam, pairing>>
      /\ calls' = [calls EXCEPT ![c].answered = @ + 1]
  BY DEF OnResult, Now, Work1
<1>2. Fits(p) /\ p.conns = conns /\ Work1 \in Work
      /\ Accounts(p, linking.call, pairing.req.call, CallOf(Work1), calls)
  BY <1>1, InHand
<1>3. CallOf(Work1) = c /\ c \in CallId
  BY <1>1, <1>2, WorkIs DEF CallOf
<1>4. daemon' \in DaemonType
  <2>1. daemon \in DaemonType
    BY DEF CameraIInv, Caller
  <2>2. \/ daemon' = daemon
        \/ \E t \in Turn : daemon' = [turn |-> t, waits |-> 0]
    BY DEF OnResult, Turn
  <2> QED BY <2>1, <2>2 DEF DaemonType
<1> HIDE DEF p, c
<1>5. calls \in CallsType /\ Unanswered(calls, c)
  BY <1>2, <1>3 DEF CameraIInv, Caller, Accounts
<1>6. /\ calls' \in CallsType /\ calls'[c].made /\ calls'[c].answered = 1
      /\ \A i \in CallId : i # c => calls'[i] = calls[i]
  BY <1>1, <1>3, <1>5 DEF CallsType, Unanswered
<1>7. Caller'
  BY <1>1, <1>4, <1>6 DEF CameraIInv, Caller, AnsweredOnce
<1>8. ASSUME NEW i \in CallId
      PROVE  /\ Single(p, i)
             /\ i \in {linking.call, pairing.req.call, 0} => ~Holds(p, i)
             /\ ~(linking.call = i /\ pairing.req.call = i) /\ ~(linking.call = i /\ 0 = i) /\ ~(pairing.req.call = i /\ 0 = i)
             /\ Holds(p, i) \/ i \in {linking.call, pairing.req.call, 0} => Unanswered(calls', i)
  <2>1. i # 0
    BY DEF CallId
  <2>2. CASE i = c
    BY <1>2, <1>3, <2>1, <2>2 DEF Accounts
  <2>3. CASE i # c
    BY <1>2, <1>3, <1>6, <2>1, <2>3 DEF Accounts, Unanswered
  <2> QED BY <2>2, <2>3
<1>9. Accounts(p, linking'.call, pairing'.req.call, 0, calls')
  BY <1>1, <1>8 DEF Accounts
<1>10. conns' = conns
  BY <1>1, <1>2 DEF Becomes
<1>11. PerConnection' /\ Client'
  BY <1>1, <1>10, ConnectionsKept DEF CameraIInv, Client, PairingOK
<1> QED BY <1>1, <1>2, <1>7, <1>9, <1>11, QueuesKept DEF CameraIInv

-----------------------------------------------------------------------------
(* What arrives, and the timers *)

LEMMA EncryptedAdds ==
    ASSUME NEW q, Fits(q), NEW ok \in BOOLEAN
    PROVE  LET w == [kind |-> "encrypted", ok |-> ok]
           IN  w \in Work /\ Adds(q, Push(q, w), {}) /\ Adds(q, Post(q, w), {})
<1> DEFINE w == [kind |-> "encrypted", ok |-> ok]
<1>1. w \in Work /\ CallOf(w) = 0
  BY MadeWork
<1> HIDE DEF w
<1>2. CallOf(w) \notin CallId
  BY <1>1 DEF CallId
<1>3. Adds(q, Push(q, w), {}) /\ Adds(q, Post(q, w), {})
  BY <1>1, <1>2, PushAdds, PostAdds, AddsNoCall
<1> QED BY <1>1, <1>3 DEF w

\* Something arrives that leaves every connection as it was, open or not.
LEMMA Arrives ==
    ASSUME CameraIInv, NEW r, Becomes(r), Fits(r), Takes(Queues, r, {}),
           \A g \in Handle : r.conns[g].open <=> conns[g].open, ArrivesOnly,
           peer' \in [Handle -> Seq(Request)], \A g \in Handle : ~conns[g].open => peer'[g] = <<>>,
           encrypt' \in [pending : BOOLEAN, h : Handle \cup {0}],
           encrypt'.pending => encrypt'.h \in Handle /\ conns[encrypt'.h].open,
           PairingOK', pairing'.req.call = pairing.req.call
    PROVE  CameraIInv'
<1>1. UNCHANGED <<link, closing, linking, cam, daemon, calls>>
  BY DEF ArrivesOnly
<1>2. conns' = r.conns
  BY DEF Becomes
<1>3. PerConnection'
  BY <1>1, <1>2 DEF CameraIInv, PerConnection
<1>4. Client' /\ Caller'
  BY <1>1 DEF CameraIInv, Client, Caller, AnsweredOnce
<1>5. Accounts(r, linking.call, pairing.req.call, 0, calls)
  BY NothingTold DEF CameraIInv, CallsAccounted
<1>6. Accounts(r, linking'.call, pairing'.req.call, 0, calls')
  BY <1>1, <1>5
<1> QED BY <1>3, <1>4, <1>6, QueuesKept DEF CameraIInv

\* The same when what is kept for the connections is not touched either.
LEMMA ArrivesAlone ==
    ASSUME CameraIInv, NEW r, Becomes(r), Adds(Queues, r, {}), ArrivesOnly, UNCHANGED <<peer, encrypt>>,
           PairingOK', pairing'.req.call = pairing.req.call
    PROVE  CameraIInv'
<1>1. Fits(r) /\ Takes(Queues, r, {}) /\ \A g \in Handle : r.conns[g].open <=> conns[g].open
  BY QueuesAre DEF Adds, CameraIInv
<1>2. /\ peer' \in [Handle -> Seq(Request)] /\ \A g \in Handle : ~conns[g].open => peer'[g] = <<>>
      /\ encrypt' \in [pending : BOOLEAN, h : Handle \cup {0}]
      /\ encrypt'.pending => encrypt'.h \in Handle /\ conns[encrypt'.h].open
  BY DEF CameraIInv, PerConnection
<1> QED BY <1>1, <1>2, Arrives

LEMMA PairingStays == ASSUME CameraIInv, pairing' = pairing PROVE PairingOK' /\ pairing'.req.call = pairing.req.call
BY DEF CameraIInv, Client, PairingOK

LEMMA RunsPosted == ASSUME CameraIInv, RunPosted PROVE CameraIInv'
<1> DEFINE t == Tail(posted)
           w == Head(posted)
           q == [Queues EXCEPT !.posted = t]
           r == Push(q, w)
<1>1. stack = <<>> /\ posted # <<>> /\ stack' = <<w>> /\ posted' = t
      /\ UNCHANGED <<link, conns, closing, chan, acl, credits, sent, peer, linking, encrypt, cam, pairing, daemon, calls>>
  BY DEF RunPosted, Resting
<1>2. posted \in Seq(Work) /\ Queues \in Chain /\ Fits(Queues)
  BY QueuesAre DEF CameraIInv
<1>3. t \in Seq(Work) /\ w \in Work
  BY <1>1, <1>2, FirstTaken
<1>4. ASSUME NEW i
      PROVE  /\ In(t, i) => In(posted, i)
             /\ CallOf(w) = i => In(posted, i)
             /\ Once(posted, i) => Once(t, i) /\ (CallOf(w) = i => ~In(t, i))
  BY <1>1, <1>2, FirstTaken
<1> HIDE DEF t, w
<1>5. /\ q \in Chain /\ q.posted = t /\ q.stack = stack /\ q.chan = chan /\ q.conns = conns
      /\ q.acl = acl /\ q.sent = sent /\ q.credits = credits
  <2>1. /\ Queues.stack = stack /\ Queues.chan = chan /\ Queues.conns = conns
        /\ Queues.acl = acl /\ Queues.sent = sent /\ Queues.credits = credits
    BY <1>2, QueuesAre
  <2>2. /\ q \in Chain /\ q.posted = t /\ q.stack = Queues.stack /\ q.chan = Queues.chan /\ q.conns = Queues.conns
        /\ q.acl = Queues.acl /\ q.sent = Queues.sent /\ q.credits = Queues.credits
    BY <1>2, <1>3 DEF Chain
  <2> QED BY <2>1, <2>2
<1> HIDE DEF q
<1>6. Fits(q)
  <2>1. /\ q.chan = Queues.chan /\ q.conns = Queues.conns
        /\ q.acl = Queues.acl /\ q.sent = Queues.sent /\ q.credits = Queues.credits
    BY <1>2, <1>5, QueuesAre
  <2>2. \A f : IsOf(Queues, f) => IsOf(q, f)
    BY <2>1 DEF IsOf
  <2> QED BY <1>2, <1>5, <2>1, <2>2 DEF Fits, Bare
<1>7. Leaves(Queues, q, CallOf(w))
  <2>0. Queues.posted = posted /\ Queues.stack = stack /\ Queues.chan = chan
    BY <1>2, QueuesAre
  <2>1. ASSUME NEW i \in CallId PROVE Holds(q, i) => Holds(Queues, i)
    BY <1>4, <1>5, <2>0 DEF Holds, OnChannel
  <2>2. ASSUME NEW i \in CallId, Single(Queues, i) PROVE Single(q, i)
    BY <1>4, <1>5, <2>0, <2>2 DEF Single, OnChannel
  <2>3. ASSUME NEW i \in CallId, Single(Queues, i), i = CallOf(w) PROVE ~Holds(q, i)
    BY <1>4, <1>5, <2>0, <2>3 DEF Single, Holds, OnChannel
  <2> QED BY <2>1, <2>2, <2>3 DEF Leaves
<1>8. Holds(Queues, CallOf(w))
  BY <1>2, <1>4, QueuesAre DEF Holds
<1>9. Adds(q, r, {CallOf(w)})
  BY <1>3, <1>6, PushAdds
<1>10. Becomes(r)
  <2>1. <<w>> \o <<>> = <<w>>
    BY <1>3
  <2>2. r = [q EXCEPT !.stack = <<w>>]
    BY <1>1, <1>5, <2>1 DEF Push
  <2>3. /\ r.stack = <<w>> /\ r.posted = t /\ r.chan = chan /\ r.conns = conns
        /\ r.acl = acl /\ r.sent = sent /\ r.credits = credits
    BY <1>5, <2>2 DEF Chain
  <2> HIDE DEF r
  <2> QED BY <1>1, <2>3 DEF Becomes
<1> HIDE DEF r
<1>11. Adds(Queues, r, {})
  <2>1. Takes(Queues, r, {})
    BY <1>7, <1>8, <1>9, OnlyMoved DEF Adds
  <2> QED BY <1>2, <1>5, <1>9, <2>1, QueuesAre DEF Adds
<1>12. ArrivesOnly
  BY <1>1 DEF ArrivesOnly
<1>13. PairingOK' /\ pairing'.req.call = pairing.req.call
  BY <1>1, PairingStays
<1> QED BY <1>1, <1>10, <1>11, <1>12, <1>13, ArrivesAlone

LEMMA NumCompleteds == ASSUME CameraIInv, NumCompleted PROVE CameraIInv'
<1> DEFINE f == Head(sent)
           t == Tail(sent)
           q == [Queues EXCEPT !.sent = t, !.credits = credits + 1]
           r == pump_acl(q)
<1>1. /\ sent # <<>>
      /\ peer' = [peer EXCEPT ![f.h] = IF f.kind = "att" /\ conns[f.h].made = f.made THEN Append(@, f.req) ELSE @]
      /\ UNCHANGED <<encrypt, pairing>> /\ ArrivesOnly
  BY DEF NumCompleted
<1>2. /\ Fits(Queues) /\ Queues \in Chain /\ sent \in Seq(Fragment) /\ Queues.sent = sent /\ Queues.credits = credits
      /\ credits \in Nat /\ credits + Len(sent) <= AclTotal /\ Queues.conns = conns
  BY QueuesAre DEF CameraIInv, Fits
<1>3. Becomes(r)
  BY <1>2 DEF NumCompleted
<1>4. /\ f \in Fragment /\ t \in Seq(Fragment) /\ Len(t) = Len(sent) - 1 /\ Len(sent) \in Nat /\ f = sent[1] /\ 1 \in DOMAIN sent
      /\ \A a \in DOMAIN t : a + 1 \in DOMAIN sent /\ t[a] = sent[a + 1]
  BY <1>1, <1>2
<1> HIDE DEF f, t
<1>5. credits + 1 \in Nat
  BY <1>2
<1>6. /\ q \in Chain /\ SameWork(q, Queues) /\ q.acl = Queues.acl /\ q.sent = t /\ q.credits = credits + 1
  BY <1>2, <1>4, <1>5 DEF Chain, SameWork
<1> HIDE DEF q
<1>7. Fits(q)
  <2>1. \A a \in DOMAIN q.sent : IsOf(q, q.sent[a])
    BY <1>2, <1>4, <1>6 DEF Fits, IsOf, SameWork
  <2>2. q.credits + Len(q.sent) <= AclTotal
    BY <1>2, <1>4, <1>6, HciCameraAssumption DEF HciCameraAssumption
  <2> QED BY <1>2, <1>6, <2>1, <2>2 DEF Fits, IsOf, Bare, SameWork
<1>8. Fits(r) /\ SameWork(r, q)
  BY <1>7, Pumped
<1> HIDE DEF r
<1>9. Fits(r) /\ SameWork(r, Queues)
  BY <1>6, <1>8 DEF SameWork
<1>10. Takes(Queues, r, {}) /\ \A g \in Handle : r.conns[g].open <=> conns[g].open
  BY <1>2, <1>9, SameWorkTakes DEF SameWork
<1>11. f.h \in Handle /\ conns[f.h].open /\ (f.kind = "att" => f.req \in Request)
  <2>1. IsOf(Queues, f)
    BY <1>2, <1>4 DEF Fits
  <2> QED BY <1>2, <1>4, <2>1, FragmentsAre DEF FragmentIs, IsOf
<1>12. peer' \in [Handle -> Seq(Request)] /\ \A g \in Handle : ~conns[g].open => peer'[g] = <<>>
  <2>1. peer \in [Handle -> Seq(Request)] /\ \A g \in Handle : ~conns[g].open => peer[g] = <<>>
    BY DEF CameraIInv, PerConnection
  <2>2. f.kind = "att" => Append(peer[f.h], f.req) \in Seq(Request)
    BY <1>11, <2>1
  <2> QED BY <1>1, <1>11, <2>1, <2>2
<1>13. /\ encrypt' \in [pending : BOOLEAN, h : Handle \cup {0}]
       /\ encrypt'.pending => encrypt'.h \in Handle /\ conns[encrypt'.h].open
  BY <1>1 DEF CameraIInv, PerConnection
<1>14. PairingOK' /\ pairing'.req.call = pairing.req.call
  BY <1>1, PairingStays
<1> QED BY <1>1, <1>3, <1>9, <1>10, <1>12, <1>13, <1>14, Arrives

LEMMA Responses == ASSUME CameraIInv, NEW h \in Handle, Response(h) PROVE CameraIInv'
<1> DEFINE o == Head(peer[h])
           flight == chan[h].flight
<1>1. /\ conns[h].open /\ peer[h] # <<>>
      /\ peer' = [peer EXCEPT ![h] = Tail(peer[h])] /\ UNCHANGED <<encrypt, pairing>> /\ ArrivesOnly
  <2>1. peer' = [peer EXCEPT ![h] = Tail(@)]
    BY DEF Response
  <2>2. peer \in [Handle -> Seq(Request)]
    BY DEF CameraIInv, PerConnection
  <2> QED BY <2>1, <2>2 DEF Response, Open
<1>2. PICK ans \in MayAnswer(h, o.ask) :
          LET q == [Queues EXCEPT !.conns[h].notes = IF o.ask = "subscribe" /\ ans = "ok" THEN @ \cup {o.of} ELSE @]
          IN  IF flight # NoReq /\ Opcode(flight.ask) = Opcode(o.ask)
              THEN Becomes(finish_att(q, h, Answered(flight, ans, o.of)))
              ELSE Becomes(q)
  BY DEF Response
<1>3. peer \in [Handle -> Seq(Request)] /\ o \in Request /\ Tail(peer[h]) \in Seq(Request)
  <2>1. peer[h] \in Seq(Request) /\ peer \in [Handle -> Seq(Request)]
    BY DEF CameraIInv, PerConnection
  <2> QED BY <1>1, <2>1
<1>4. o.of \in Char \cup {"none"} /\ (o.ask = "subscribe" => o.of \in Char)
  BY <1>3 DEF Request
<1>5. ans \in Answer
  BY <1>2 DEF MayAnswer, Answer
<1>6. Fits(Queues) /\ Queues \in Chain /\ Queues.conns = conns /\ Queues.chan = chan
      /\ conns \in [Handle -> Conn] /\ chan \in [Handle -> Channel]
  BY QueuesAre DEF CameraIInv
<1> DEFINE notes == IF o.ask = "subscribe" /\ ans = "ok" THEN conns[h].notes \cup {o.of} ELSE conns[h].notes
           cn == [conns[h] EXCEPT !.notes = notes]
           q == Believes(Queues, h, cn)
<1>7. IF flight # NoReq /\ Opcode(flight.ask) = Opcode(o.ask)
      THEN Becomes(finish_att(q, h, Answered(flight, ans, o.of))) ELSE Becomes(q)
  BY <1>2, <1>6 DEF Believes
<1>8. cn \in Conn /\ cn.open /\ cn.made = conns[h].made
  <2>1. notes \in SUBSET Char
    BY <1>4, <1>6 DEF Conn
  <2> HIDE DEF notes
  <2> QED BY <1>1, <1>6, <2>1 DEF Conn
<1> HIDE DEF cn, o
<1>9. Fits(q) /\ Takes(Queues, q, {}) /\ q.conns[h] = cn /\ \A g \in Handle \ {h} : q.conns[g] = conns[g]
  BY <1>6, <1>8, ConnectionMade
<1>10. q.chan[h].flight = flight
  BY <1>6 DEF Believes, Chain
<1> HIDE DEF q, flight
<1>12. PICK r : Becomes(r) /\ Fits(r) /\ Takes(Queues, r, {}) /\ r.conns = q.conns
  <2>1. CASE flight # NoReq /\ Opcode(flight.ask) = Opcode(o.ask)
    <3> DEFINE w == Answered(flight, ans, o.of)
               r == finish_att(q, h, w)
    <3>1. flight \in Request
      BY <1>6, <2>1 DEF Channel, flight
    <3>2. w \in Work /\ CallOf(w) = flight.call
      BY <1>4, <1>5, <3>1, MadeWork
    <3>3. Becomes(r)
      BY <1>7, <2>1
    <3> HIDE DEF w
    <3>4. Adds(q, r, {})
      BY <1>9, <1>10, <2>1, <3>2, FinishAdds
    <3> HIDE DEF r
    <3>5. Takes(Queues, r, {})
      BY <1>9, <3>4, ThenNothing DEF Adds
    <3> QED BY <3>3, <3>4, <3>5 DEF Adds
  <2>2. CASE ~(flight # NoReq /\ Opcode(flight.ask) = Opcode(o.ask))
    BY <1>7, <1>9, <2>2
  <2> QED BY <2>1, <2>2
<1>13. \A g \in Handle : r.conns[g].open <=> conns[g].open
  BY <1>1, <1>8, <1>9, <1>12
<1>14. peer' \in [Handle -> Seq(Request)] /\ \A g \in Handle : ~conns[g].open => peer'[g] = <<>>
  <2>1. \A g \in Handle : ~conns[g].open => peer[g] = <<>>
    BY DEF CameraIInv, PerConnection
  <2> QED BY <1>1, <1>3, <2>1
<1>15. /\ encrypt' \in [pending : BOOLEAN, h : Handle \cup {0}]
       /\ encrypt'.pending => encrypt'.h \in Handle /\ conns[encrypt'.h].open
  BY <1>1 DEF CameraIInv, PerConnection
<1>16. PairingOK' /\ pairing'.req.call = pairing.req.call
  BY <1>1, PairingStays
<1> QED BY <1>1, <1>12, <1>13, <1>14, <1>15, <1>16, Arrives

LEMMA AttTimeouts == ASSUME CameraIInv, NEW h \in Handle, AttTimeout(h) PROVE CameraIInv'
<1> DEFINE w == Failed(chan[h].flight)
           r == finish_att(Queues, h, w)
<1>1. chan[h].flight # NoReq /\ Becomes(r) /\ UNCHANGED <<peer, encrypt, pairing>> /\ ArrivesOnly
  BY DEF AttTimeout
<1>2. Fits(Queues) /\ Queues.chan = chan /\ chan \in [Handle -> Channel]
  BY QueuesAre DEF CameraIInv
<1>3. chan[h].flight \in Request
  BY <1>1, <1>2 DEF Channel
<1>4. w \in Work /\ CallOf(w) = chan[h].flight.call
  BY <1>3, MadeWork
<1> HIDE DEF w
<1>5. Adds(Queues, r, {})
  BY <1>1, <1>2, <1>4, FinishAdds
<1>6. PairingOK' /\ pairing'.req.call = pairing.req.call
  BY <1>1, PairingStays
<1> HIDE DEF r
<1> QED BY <1>1, <1>5, <1>6, ArrivesAlone

LEMMA Smps == ASSUME CameraIInv, NEW good \in BOOLEAN, Smp(good) PROVE CameraIInv'
<1> DEFINE reply == IF CanQueue(Queues, cam.conn) THEN queue_acl(Queues, cam.conn, "smp", NoReq) ELSE Queues
           w == [kind |-> "encrypted", ok |-> FALSE]
<1>1. /\ pairing.state \in {"response", "confirm", "random"} /\ Open(cam.conn) /\ UNCHANGED peer /\ ArrivesOnly
      /\ \/ ~good /\ Becomes(PairingOver(reply, FALSE)) /\ pairing' = NotPairing /\ UNCHANGED encrypt
         \/ Becomes(reply) /\ pairing' = [pairing EXCEPT !.state = "confirm"] /\ UNCHANGED encrypt
         \/ Becomes(reply) /\ pairing' = [pairing EXCEPT !.state = "random"] /\ UNCHANGED encrypt
         \/ /\ pairing' = [pairing EXCEPT !.state = "ready"]
            /\ \/ Becomes(Post(Queues, w)) /\ UNCHANGED encrypt
               \/ encrypt' = [pending |-> TRUE, h |-> cam.conn] /\ Becomes(Queues)
  BY DEF Smp, Post
<1>2. UNCHANGED <<link, closing, linking, cam, daemon, calls>>
  BY <1>1 DEF ArrivesOnly
<1>3. Fits(Queues) /\ Queues.conns = conns
  BY QueuesAre DEF CameraIInv
<1>4. cam.conn \in Handle /\ conns[cam.conn].open /\ cam \in CamType
  BY <1>1 DEF Open, CameraIInv, Client, CamType
<1>5. Adds(Queues, reply, {})
  BY <1>3, <1>4, QueueAdds, AddsNothing
<1>6. Adds(Queues, Post(Queues, w), {}) /\ Adds(Queues, Queues, {})
  BY <1>3, EncryptedAdds, AddsNothing
<1> HIDE DEF reply, w
<1>7. pairing \in [state : {"response", "confirm", "random", "ready"}, req : Request]
  BY <1>1 DEF CameraIInv, Client, PairingOK, NotPairing
<1>8. CASE ~good /\ Becomes(PairingOver(reply, FALSE)) /\ pairing' = NotPairing /\ UNCHANGED encrypt
  <2>1. Fits(reply) /\ reply.conns = conns /\ Accounts(reply, linking.call, pairing.req.call, 0, calls)
    BY <1>3, <1>5, NothingTold DEF Adds, CameraIInv, CallsAccounted
  <2> QED BY <1>1, <1>2, <1>4, <1>8, <2>1, PairingEnds
<1>9. ASSUME NEW s \in {"confirm", "random", "ready"}, pairing' = [pairing EXCEPT !.state = s]
      PROVE  PairingOK' /\ pairing'.req.call = pairing.req.call
  BY <1>7, <1>9 DEF PairingOK
<1>10. CASE Becomes(reply) /\ UNCHANGED encrypt
            /\ (pairing' = [pairing EXCEPT !.state = "confirm"] \/ pairing' = [pairing EXCEPT !.state = "random"])
  BY <1>1, <1>5, <1>9, <1>10, ArrivesAlone
<1>11. CASE pairing' = [pairing EXCEPT !.state = "ready"] /\ Becomes(Post(Queues, w)) /\ UNCHANGED encrypt
  BY <1>1, <1>6, <1>9, <1>11, ArrivesAlone
<1>12. CASE pairing' = [pairing EXCEPT !.state = "ready"] /\ encrypt' = [pending |-> TRUE, h |-> cam.conn]
            /\ Becomes(Queues)
  <2>1. /\ peer' \in [Handle -> Seq(Request)] /\ \A g \in Handle : ~conns[g].open => peer'[g] = <<>>
        /\ encrypt' \in [pending : BOOLEAN, h : Handle \cup {0}]
        /\ encrypt'.pending => encrypt'.h \in Handle /\ conns[encrypt'.h].open
    BY <1>1, <1>4, <1>12 DEF CameraIInv, PerConnection
  <2>2. Takes(Queues, Queues, {}) /\ \A g \in Handle : Queues.conns[g].open <=> conns[g].open
    BY <1>3, <1>6 DEF Adds
  <2>3. PairingOK' /\ pairing'.req.call = pairing.req.call
    BY <1>9, <1>12
  <2> QED BY <1>1, <1>3, <1>12, <2>1, <2>2, <2>3, Arrives
<1> QED BY <1>1, <1>8, <1>10, <1>11, <1>12

LEMMA SmpStrays == ASSUME CameraIInv, SmpStray PROVE CameraIInv'
<1> DEFINE w == [kind |-> "encrypted", ok |-> FALSE]
<1>1. /\ Open(cam.conn) /\ UNCHANGED <<peer, pairing>> /\ ArrivesOnly
      /\ \/ Becomes(Post(Queues, w)) /\ UNCHANGED encrypt
         \/ encrypt' = [pending |-> TRUE, h |-> cam.conn] /\ Becomes(Queues)
  BY DEF SmpStray, Post
<1>2. Fits(Queues) /\ Queues.conns = conns
  BY QueuesAre DEF CameraIInv
<1>3. cam.conn \in Handle /\ conns[cam.conn].open
  BY <1>1 DEF Open, CameraIInv, Client, CamType
<1>4. Adds(Queues, Post(Queues, w), {}) /\ Adds(Queues, Queues, {})
  BY <1>2, EncryptedAdds, AddsNothing
<1> HIDE DEF w
<1>5. PairingOK' /\ pairing'.req.call = pairing.req.call
  BY <1>1, PairingStays
<1>6. CASE Becomes(Post(Queues, w)) /\ UNCHANGED encrypt
  BY <1>1, <1>4, <1>5, <1>6, ArrivesAlone
<1>7. CASE encrypt' = [pending |-> TRUE, h |-> cam.conn] /\ Becomes(Queues)
  <2>1. /\ peer' \in [Handle -> Seq(Request)] /\ \A g \in Handle : ~conns[g].open => peer'[g] = <<>>
        /\ encrypt' \in [pending : BOOLEAN, h : Handle \cup {0}]
        /\ encrypt'.pending => encrypt'.h \in Handle /\ conns[encrypt'.h].open
    BY <1>1, <1>3, <1>7 DEF CameraIInv, PerConnection
  <2>2. Takes(Queues, Queues, {}) /\ \A g \in Handle : Queues.conns[g].open <=> conns[g].open
    BY <1>2, <1>4 DEF Adds
  <2> QED BY <1>1, <1>2, <1>5, <1>7, <2>1, <2>2, Arrives
<1> QED BY <1>1, <1>6, <1>7

LEMMA NoEncryptIs == NoEncrypt \in [pending : BOOLEAN, h : Handle \cup {0}] /\ ~NoEncrypt.pending
BY DEF NoEncrypt

LEMMA EncryptionChanges == ASSUME CameraIInv, NEW ok \in BOOLEAN, EncryptionChange(ok) PROVE CameraIInv'
<1> DEFINE h == encrypt.h
           w == [kind |-> "encrypted", ok |-> ok]
           cn == [conns[h] EXCEPT !.enc = ok]
           q == Believes(Queues, h, cn)
           r == Push(q, w)
<1>1. /\ stack = <<>> /\ encrypt.pending /\ encrypt' = NoEncrypt /\ UNCHANGED <<peer, pairing>> /\ ArrivesOnly
  BY DEF EncryptionChange, Resting
<1>2. h \in Handle /\ conns[h].open
  BY <1>1 DEF CameraIInv, PerConnection
<1>3. Fits(Queues) /\ Queues \in Chain /\ Queues.conns = conns /\ Queues.stack = stack /\ conns \in [Handle -> Conn]
  BY QueuesAre DEF CameraIInv
<1>4. w \in Work
  BY MadeWork
<1>5. Becomes(r)
  <2>1. <<w>> \o <<>> = <<w>>
    OBVIOUS
  <2>2. q.stack = <<>>
    BY <1>1, <1>3 DEF Believes, Chain
  <2>3. r = [q EXCEPT !.stack = <<w>>]
    BY <2>1, <2>2 DEF Push
  <2>4. Becomes([Queues EXCEPT !.conns[h].enc = ok, !.stack = <<w>>])
    BY DEF EncryptionChange
  <2>5. [q EXCEPT !.stack = <<w>>] = [Queues EXCEPT !.conns[h].enc = ok, !.stack = <<w>>]
    BY <1>3 DEF Believes
  <2> QED BY <2>3, <2>4, <2>5
<1>6. cn \in Conn /\ cn.open /\ cn.made = conns[h].made
  BY <1>2, <1>3 DEF Conn
<1>7. \A x \in BOOLEAN : \A p : Fits(p) => Adds(p, Push(p, [kind |-> "encrypted", ok |-> x]), {})
  BY EncryptedAdds
<1> HIDE DEF h, cn
<1>8. Fits(q) /\ Takes(Queues, q, {}) /\ q.conns[h] = cn /\ \A g \in Handle \ {h} : q.conns[g] = conns[g]
  BY <1>2, <1>3, <1>6, ConnectionMade
<1> HIDE DEF q
<1>9. Adds(q, r, {})
  BY <1>7, <1>8
<1> HIDE DEF r, w
<1>10. Fits(r) /\ Takes(Queues, r, {}) /\ \A g \in Handle : r.conns[g].open <=> conns[g].open
  BY <1>2, <1>6, <1>8, <1>9, ThenNothing DEF Adds
<1>11. /\ peer' \in [Handle -> Seq(Request)] /\ \A g \in Handle : ~conns[g].open => peer'[g] = <<>>
       /\ encrypt' \in [pending : BOOLEAN, h : Handle \cup {0}] /\ ~encrypt'.pending
  BY <1>1, NoEncryptIs DEF CameraIInv, PerConnection
<1>12. PairingOK' /\ pairing'.req.call = pairing.req.call
  BY <1>1, PairingStays
<1> QED BY <1>1, <1>5, <1>10, <1>11, <1>12, Arrives

LEMMA EncryptTimeouts == ASSUME CameraIInv, EncryptTimeout PROVE CameraIInv'
<1> DEFINE w == [kind |-> "encrypted", ok |-> FALSE]
<1>1. /\ stack = <<>> /\ stack' = <<w>> /\ encrypt' = NoEncrypt /\ ArrivesOnly
      /\ UNCHANGED <<conns, chan, acl, credits, sent, posted, peer, pairing>>
  BY DEF EncryptTimeout, Resting
<1>2. Fits(Queues) /\ Queues.conns = conns
  BY QueuesAre DEF CameraIInv
<1>3. w \in Work /\ Adds(Queues, Push(Queues, w), {})
  BY <1>2, EncryptedAdds
<1> HIDE DEF w
<1>4. Becomes(Push(Queues, w))
  BY <1>1, <1>2, <1>3, StackIsPushed
<1>5. Fits(Push(Queues, w)) /\ Takes(Queues, Push(Queues, w), {}) /\ \A g \in Handle : Push(Queues, w).conns[g].open <=> conns[g].open
  BY <1>2, <1>3 DEF Adds
<1>6. /\ peer' \in [Handle -> Seq(Request)] /\ \A g \in Handle : ~conns[g].open => peer'[g] = <<>>
      /\ encrypt' \in [pending : BOOLEAN, h : Handle \cup {0}] /\ ~encrypt'.pending
  BY <1>1, NoEncryptIs DEF CameraIInv, PerConnection
<1>7. PairingOK' /\ pairing'.req.call = pairing.req.call
  BY <1>1, PairingStays
<1> QED BY <1>1, <1>4, <1>5, <1>6, <1>7, Arrives

LEMMA PairingTimeouts == ASSUME CameraIInv, PairingTimeout PROVE CameraIInv'
<1>1. Becomes(PairingOver(Queues, FALSE)) /\ pairing' = NotPairing
      /\ UNCHANGED <<link, closing, peer, linking, encrypt, cam, daemon, calls>>
  BY DEF PairingTimeout, ArrivesOnly
<1>2. Fits(Queues) /\ Queues.conns = conns /\ Accounts(Queues, linking.call, pairing.req.call, 0, calls)
  BY QueuesAre DEF CameraIInv, CallsAccounted
<1>3. cam' \in CamType
  BY <1>1 DEF CameraIInv, Client
<1> QED BY <1>1, <1>2, <1>3, PairingEnds

-----------------------------------------------------------------------------
(* A connection that is gone, and a dongle that is *)

\* Whoever waits on a channel is in the line of those that are told, once.
LEMMA WaitingIs ==
    ASSUME NEW h \in Handle, chan[h] \in Channel
    PROVE  /\ Waiting(h) \in Seq(Work)
           /\ \A i \in CallId : /\ In(Waiting(h), i) <=> Has(chan[h], i)
                                /\ HasOnce(chan[h], i) => Once(Waiting(h), i)
<1> DEFINE ch == chan[h]
           s == ch.queue
           first == IF ch.flight = NoReq THEN <<>> ELSE <<Failed(ch.flight)>>
           rest == [a \in DOMAIN s |-> Failed(s[a])]
<1>1. Waiting(h) = first \o rest
  BY DEF Waiting
<1>2. s \in Seq(Request) /\ Len(s) \in Nat /\ DOMAIN s = 1..Len(s) /\ ch.flight \in Request \cup {NoReq}
  BY DEF Channel
<1>3. \A a \in DOMAIN s : s[a] \in Request
  BY <1>2
<1>4. \A r \in Request : Failed(r) \in Work /\ CallOf(Failed(r)) = r.call
  BY MadeWork
<1> HIDE DEF s
<1>5. rest \in Seq(Work) /\ DOMAIN rest = DOMAIN s /\ \A a \in DOMAIN s : CallOf(rest[a]) = s[a].call
  <2>1. \A a \in 1..Len(s) : rest[a] \in Work
    BY <1>2, <1>3, <1>4
  <2>2. rest = [a \in 1..Len(s) |-> rest[a]]
    BY <1>2
  <2>3. DOMAIN rest = DOMAIN s /\ \A a \in DOMAIN s : CallOf(rest[a]) = s[a].call
    BY <1>3, <1>4
  <2> HIDE DEF rest
  <2>4. rest \in Seq(Work)
    BY <1>2, <2>1, <2>2, IsASeq
  <2> QED BY <2>3, <2>4
<1> HIDE DEF rest
<1> SUFFICES ASSUME NEW i \in CallId
             PROVE  /\ first \o rest \in Seq(Work)
                    /\ In(first \o rest, i) <=> Has(ch, i)
                    /\ HasOnce(ch, i) => Once(first \o rest, i)
  <2>1. first \in Seq(Work)
    <3>1. CASE ch.flight = NoReq
      BY <3>1
    <3>2. CASE ch.flight # NoReq
      BY <1>2, <1>4, <3>2
    <3> QED BY <3>1, <3>2
  <2> HIDE DEF first
  <2>2. first \o rest \in Seq(Work)
    BY <1>5, <2>1, ConcatProperties
  <2> QED BY <1>1, <2>2 DEF first
<1>6. first \in Seq(Work) /\ Once(first, i) /\ (In(first, i) <=> ch.flight.call = i)
  <2>1. CASE ch.flight = NoReq
    <3>1. <<>> \in Seq(Work) /\ Once(<<>>, i) /\ ~In(<<>>, i)
      BY DEF Once, In
    <3>2. ch.flight.call # i
      BY <2>1 DEF NoReq, CallId
    <3> QED BY <2>1, <3>1, <3>2
  <2>2. CASE ch.flight # NoReq
    <3>1. Failed(ch.flight) \in Work /\ CallOf(Failed(ch.flight)) = ch.flight.call
      BY <1>2, <1>4, <2>2
    <3>2. first = <<Failed(ch.flight)>>
      BY <2>2
    <3> HIDE DEF first
    <3> DEFINE w == Failed(ch.flight)
    <3> HIDE DEF w
    <3>3. <<w>> \in Seq(Work) /\ (In(<<w>>, i) <=> CallOf(w) = i) /\ Once(<<w>>, i)
      BY <3>1, OneIs DEF w
    <3> QED BY <3>1, <3>2, <3>3 DEF w
  <2> QED BY <2>1, <2>2
<1>7. In(rest, i) <=> \E a \in DOMAIN s : s[a].call = i
  BY <1>5 DEF In
<1>8. HasOnce(ch, i) => Once(rest, i) /\ ~(In(first, i) /\ In(rest, i))
  BY <1>5, <1>6, <1>7 DEF HasOnce, Once, s
<1> HIDE DEF first
<1>9. /\ first \o rest \in Seq(Work)
      /\ In(first \o rest, i) <=> In(first, i) \/ In(rest, i)
      /\ Once(first, i) /\ Once(rest, i) /\ ~(In(first, i) /\ In(rest, i)) => Once(first \o rest, i)
  BY <1>5, <1>6, Joined
<1>10. Has(ch, i) <=> In(first, i) \/ In(rest, i)
  BY <1>6, <1>7 DEF Has, s
<1> QED BY <1>6, <1>8, <1>9, <1>10

\* What is told at the end, to no call.
LEMMA EndsFor ==
    ASSUME NEW s \in Seq(Work), NEW w \in Work, CallOf(w) = 0
    PROVE  /\ s \o <<w>> \in Seq(Work)
           /\ \A i \in CallId : /\ In(s \o <<w>>, i) <=> In(s, i)
                                /\ Once(s, i) => Once(s \o <<w>>, i)
<1>1. <<w>> \in Seq(Work)
  OBVIOUS
<1>2. s \o <<w>> \in Seq(Work)
  BY <1>1, ConcatProperties
<1>3. ASSUME NEW i \in CallId
      PROVE  /\ In(s \o <<w>>, i) <=> In(s, i)
             /\ Once(s, i) => Once(s \o <<w>>, i)
  <2>1. (In(<<w>>, i) <=> CallOf(w) = i) /\ Once(<<w>>, i)
    BY OneIs
  <2>2. ~In(<<w>>, i)
    BY <2>1 DEF CallId
  <2> DEFINE t == <<w>>
  <2> HIDE DEF t
  <2>3. /\ In(s \o t, i) <=> In(s, i) \/ In(t, i)
        /\ Once(s, i) /\ Once(t, i) /\ ~(In(s, i) /\ In(t, i)) => Once(s \o t, i)
    BY <1>1, Joined DEF t
  <2> QED BY <2>1, <2>2, <2>3 DEF t
<1> QED BY <1>2, <1>3

\* The end of an encryption, when one was under way.
EndOfEncryption == IF encrypt.pending THEN <<[kind |-> "encrypted", ok |-> FALSE]>> ELSE <<>>

LEMMA EncryptionEnds ==
    ASSUME NEW s \in Seq(Work)
    PROVE  /\ s \o EndOfEncryption \in Seq(Work)
           /\ \A i \in CallId : /\ In(s \o EndOfEncryption, i) <=> In(s, i)
                                /\ Once(s, i) => Once(s \o EndOfEncryption, i)
<1>1. CASE encrypt.pending
  <2> DEFINE w == [kind |-> "encrypted", ok |-> FALSE]
  <2>1. w \in Work /\ CallOf(w) = 0
    BY MadeWork
  <2>2. EndOfEncryption = <<w>>
    BY <1>1 DEF EndOfEncryption
  <2> HIDE DEF w
  <2> QED BY <2>1, <2>2, EndsFor
<1>2. CASE ~encrypt.pending
  <2>1. EndOfEncryption = <<>>
    BY <1>2 DEF EndOfEncryption
  <2>2. s \o <<>> = s
    OBVIOUS
  <2> QED BY <2>1, <2>2
<1> QED BY <1>1, <1>2

LEMMA Disconnecteds == ASSUME CameraIInv, NEW h \in Handle, Disconnected(h) PROVE CameraIInv'
<1> DEFINE others == Without(sent, h)
           gone == [kind |-> "gone", h |-> h]
           pile == Waiting(h) \o EndOfEncryption \o <<gone>>
           cn == [conns[h] EXCEPT !.open = FALSE, !.enc = FALSE, !.notes = {}]
           cs == [conns EXCEPT ![h] = cn]
           chs == [chan EXCEPT ![h] = EmptyChan]
           ac == Without(acl, h)
<1>1. /\ stack = <<>> /\ conns[h].open /\ peer' = [peer EXCEPT ![h] = <<>>] /\ closing' = closing \ {h}
      /\ encrypt' = NoEncrypt /\ UNCHANGED <<link, linking, cam, pairing, daemon, calls>>
  BY DEF Disconnected, Resting, Open
<1>2. /\ Fits(Queues) /\ Queues \in Chain /\ conns \in [Handle -> Conn] /\ chan \in [Handle -> Channel]
      /\ acl \in Seq(Fragment) /\ sent \in Seq(Fragment) /\ credits \in Nat /\ stack \in Seq(Work) /\ posted \in Seq(Work)
      /\ Queues.conns = conns /\ Queues.chan = chan /\ Queues.acl = acl /\ Queues.sent = sent
      /\ Queues.credits = credits /\ Queues.stack = stack /\ Queues.posted = posted
      /\ Len(acl) <= MaxFragments /\ credits + Len(sent) <= AclTotal
  BY QueuesAre DEF CameraIInv, Fits
<1>3. KeptOf(others, sent, h, Len(sent)) /\ KeptOf(ac, acl, h, Len(acl))
  BY <1>2, WithoutIs
<1>4. PICK told \in {0, Len(sent) - Len(others)} :
          Becomes(pump_acl([drop_connection(h) EXCEPT !.sent = others, !.credits = @ + told]))
  BY DEF Disconnected
<1> DEFINE cr == credits + told
           q == [conns |-> cs, chan |-> chs, acl |-> ac, credits |-> cr, sent |-> others, stack |-> pile, posted |-> posted]
           r == pump_acl(q)
<1>5. Becomes(r)
  <2>1. drop_connection(h) = [Queues EXCEPT !.conns[h] = [@ EXCEPT !.open = FALSE, !.enc = FALSE, !.notes = {}],
                                            !.chan[h] = EmptyChan, !.acl = Without(@, h), !.stack = pile]
    BY DEF drop_connection, EndOfEncryption
  <2> HIDE DEF pile
  <2>2. drop_connection(h) = [conns |-> cs, chan |-> chs, acl |-> ac, credits |-> credits, sent |-> sent, stack |-> pile,
                              posted |-> posted]
    BY <2>1 DEF Queues
  <2> HIDE DEF cs, chs, ac, others
  <2> DEFINE d == drop_connection(h)
             d2 == [d EXCEPT !.sent = others, !.credits = d.credits + told]
  <2>3. d = [conns |-> cs, chan |-> chs, acl |-> ac, credits |-> credits, sent |-> sent, stack |-> pile, posted |-> posted]
    BY <2>2
  <2>4. Becomes(pump_acl(d2))
    BY <1>4
  <2> HIDE DEF d
  <2>5. d2 = [d EXCEPT !.sent = others, !.credits = cr]
    BY <2>3
  <2> HIDE DEF d2, cr
  <2>6. d2 = q
    BY <2>3, <2>5
  <2> HIDE DEF q
  <2>7. Becomes(pump_acl(q))
    BY <2>4, <2>6
  <2> QED BY <2>7
<1>6. cs \in [Handle -> Conn] /\ cs[h] = cn /\ ~cn.open /\ ~cn.enc /\ cn.notes = {} /\ \A g \in Handle \ {h} : cs[g] = conns[g]
  <2>1. conns[h] \in Conn
    BY <1>2
  <2>2. cn \in Conn /\ ~cn.open /\ ~cn.enc /\ cn.notes = {}
    BY <2>1 DEF Conn
  <2> HIDE DEF cn
  <2> QED BY <1>2, <2>2
<1>7. chs \in [Handle -> Channel] /\ chs[h] = EmptyChan /\ \A g \in Handle \ {h} : chs[g] = chan[g]
  <2>1. EmptyChan \in Channel
    <3>1. <<>> \in Seq(Request)
      OBVIOUS
    <3> QED BY <3>1 DEF EmptyChan, Channel
  <2> QED BY <1>2, <2>1
<1>8. chan[h] \in Channel
  BY <1>2
<1>9. /\ pile \in Seq(Work)
      /\ \A i \in CallId : (In(pile, i) <=> Has(chan[h], i)) /\ (HasOnce(chan[h], i) => Once(pile, i))
  <2> DEFINE s == Waiting(h)
             e == s \o EndOfEncryption
  <2>1. s \in Seq(Work) /\ \A i \in CallId : (In(s, i) <=> Has(chan[h], i)) /\ (HasOnce(chan[h], i) => Once(s, i))
    BY <1>8, WaitingIs
  <2> HIDE DEF s
  <2>2. e \in Seq(Work) /\ \A i \in CallId : (In(e, i) <=> In(s, i)) /\ (Once(s, i) => Once(e, i))
    BY <2>1, EncryptionEnds
  <2> HIDE DEF e
  <2>3. gone \in Work /\ CallOf(gone) = 0
    BY MadeWork
  <2>4. pile = e \o <<gone>>
    BY DEF e, s
  <2> HIDE DEF gone, pile
  <2>5. pile \in Seq(Work) /\ \A i \in CallId : (In(pile, i) <=> In(e, i)) /\ (Once(e, i) => Once(pile, i))
    BY <2>2, <2>3, <2>4, EndsFor
  <2> QED BY <2>1, <2>2, <2>5
<1>10. others \in Seq(Fragment) /\ Len(others) <= Len(sent) /\ ac \in Seq(Fragment) /\ Len(ac) <= Len(acl)
       /\ (\A a \in DOMAIN others : \E b \in DOMAIN sent : others[a] = sent[b] /\ sent[b].h # h)
       /\ (\A a \in DOMAIN ac : \E b \in DOMAIN acl : ac[a] = acl[b] /\ acl[b].h # h)
  BY <1>3 DEF KeptOf
<1> HIDE DEF cn, cs, chs, ac, others, pile
<1>11. cr \in Nat /\ cr + Len(others) <= AclTotal
  <2>1. Len(sent) \in Nat /\ Len(others) \in Nat
    BY <1>2, <1>10
  <2> QED BY <1>2, <1>10, <2>1, HciCameraAssumption DEF HciCameraAssumption
<1> HIDE DEF cr
<1>12. /\ q \in Chain /\ q.conns = cs /\ q.chan = chs /\ q.acl = ac /\ q.credits = cr /\ q.sent = others /\ q.stack = pile
       /\ q.posted = posted
  BY <1>2, <1>6, <1>7, <1>9, <1>10, <1>11 DEF Chain
<1> HIDE DEF q
<1>13. ASSUME NEW f \in Fragment, IsOf(Queues, f), f.h # h PROVE IsOf(q, f)
  <2>1. f.h \in Handle
    BY FragmentsAre DEF FragmentIs
  <2> QED BY <1>2, <1>6, <1>12, <1>13, <2>1 DEF IsOf
<1>14. Fits(q)
  <2>1. \A a \in DOMAIN q.acl : IsOf(q, q.acl[a])
    <3>1. \A b \in DOMAIN acl : acl[b] \in Fragment /\ IsOf(Queues, acl[b])
      BY <1>2 DEF Fits
    <3> QED BY <1>10, <1>12, <1>13, <3>1
  <2>2. \A a \in DOMAIN q.sent : IsOf(q, q.sent[a])
    <3>1. \A b \in DOMAIN sent : sent[b] \in Fragment /\ IsOf(Queues, sent[b])
      BY <1>2 DEF Fits
    <3> QED BY <1>10, <1>12, <1>13, <3>1
  <2>3. Bare(q)
    <3> SUFFICES ASSUME NEW g \in Handle, ~q.conns[g].open
                 PROVE  ~q.conns[g].enc /\ q.conns[g].notes = {} /\ q.chan[g] = EmptyChan
      BY DEF Bare
    <3>1. CASE g = h
      BY <1>6, <1>7, <1>12, <3>1
    <3>2. CASE g # h
      BY <1>2, <1>6, <1>7, <1>12, <3>2 DEF Fits, Bare
    <3> QED BY <3>1, <3>2
  <2>4. Len(q.acl) <= MaxFragments
    <3>1. Len(acl) \in Nat /\ Len(ac) \in Nat
      BY <1>2, <1>10
    <3> QED BY <1>2, <1>10, <1>12, <3>1, HciCameraAssumption DEF HciCameraAssumption
  <2> QED BY <1>11, <1>12, <2>1, <2>2, <2>3, <2>4 DEF Fits
<1>15. Takes(Queues, q, {})
  <2> SUFFICES ASSUME NEW i \in CallId
               PROVE  (Holds(q, i) => Holds(Queues, i)) /\ (Single(Queues, i) => Single(q, i))
    BY DEF Takes
  <2>1. ~In(stack, i)
    BY <1>1 DEF In
  <2>2. In(pile, i) <=> Has(chan[h], i)
    BY <1>9
  <2>3. ~Has(EmptyChan, i) /\ HasOnce(EmptyChan, i)
    BY DEF Has, HasOnce, EmptyChan, NoReq, CallId
  <2>4. \A g \in Handle : Has(chs[g], i) <=> g # h /\ Has(chan[g], i)
    BY <1>7, <2>3
  <2>5. OnChannel(q, i) => \E g \in Handle : g # h /\ Has(chan[g], i)
    BY <1>12, <2>4 DEF OnChannel
  <2>6. Has(chan[h], i) => OnChannel(Queues, i)
    BY <1>2 DEF OnChannel
  <2>7. Holds(q, i) => Holds(Queues, i)
    BY <1>2, <1>12, <2>2, <2>5 DEF Holds, OnChannel
  <2>8. ASSUME Single(Queues, i) PROVE Single(q, i)
    <3>1. \A f, g \in Handle : Has(chan[f], i) /\ Has(chan[g], i) => f = g
      BY <1>2, <2>8 DEF Single
    <3>2. Once(q.stack, i) /\ Once(q.posted, i)
      BY <1>2, <1>9, <1>12, <2>8 DEF Single
    <3>3. \A g \in Handle : HasOnce(q.chan[g], i)
      <4>1. \A g \in Handle : HasOnce(chan[g], i)
        BY <1>2, <2>8 DEF Single
      <4> QED BY <1>7, <1>12, <2>3, <4>1
    <3>4. \A f, g \in Handle : Has(q.chan[f], i) /\ Has(q.chan[g], i) => f = g
      BY <1>12, <2>4, <3>1
    <3>5. ~(In(q.stack, i) /\ In(q.posted, i))
      BY <1>2, <1>12, <2>2, <2>6, <2>8 DEF Single
    <3>6. OnChannel(q, i) => ~In(q.stack, i) /\ ~In(q.posted, i)
      <4> SUFFICES ASSUME OnChannel(q, i) PROVE ~In(q.stack, i) /\ ~In(q.posted, i)
        OBVIOUS
      <4>1. PICK g \in Handle : g # h /\ Has(chan[g], i)
        BY <2>5
      <4>2. ~Has(chan[h], i)
        BY <3>1, <4>1
      <4>3. OnChannel(Queues, i)
        BY <1>2, <4>1 DEF OnChannel
      <4> QED BY <1>2, <1>12, <2>2, <2>8, <4>2, <4>3 DEF Single
    <3> QED BY <3>2, <3>3, <3>4, <3>5, <3>6 DEF Single
  <2> QED BY <2>7, <2>8
<1>16. Fits(r) /\ SameWork(r, q)
  BY <1>14, Pumped
<1> HIDE DEF r
<1>17. Takes(Queues, r, {}) /\ r.conns = cs
  <2>1. Takes(q, r, {})
    BY <1>16, SameWorkTakes
  <2> QED BY <1>12, <1>15, <1>16, <2>1, ThenNothing DEF SameWork
<1>18. Accounts(r, linking.call, pairing.req.call, 0, calls)
  BY <1>17, NothingTold DEF CameraIInv, CallsAccounted
<1>19. Accounts(r, linking'.call, pairing'.req.call, 0, calls')
  BY <1>1, <1>18
<1>20. conns' = cs
  BY <1>5, <1>17 DEF Becomes
<1>21. PerConnection'
  <2>1. PerConnection
    BY DEF CameraIInv
  <2>2. closing' \subseteq Handle /\ \A g \in closing' : conns'[g].open
    BY <1>1, <1>6, <1>20, <2>1 DEF PerConnection
  <2>3. encrypt' \in [pending : BOOLEAN, h : Handle \cup {0}] /\ ~encrypt'.pending
    BY <1>1, NoEncryptIs
  <2>4. peer' \in [Handle -> Seq(Request)] /\ \A g \in Handle : ~conns'[g].open => peer'[g] = <<>>
    <3>1. <<>> \in Seq(Request)
      OBVIOUS
    <3> QED BY <1>1, <1>6, <1>20, <2>1, <3>1 DEF PerConnection
  <2> QED BY <2>2, <2>3, <2>4 DEF PerConnection
<1>22. Client' /\ Caller'
  BY <1>1 DEF CameraIInv, Client, PairingOK, Caller, AnsweredOnce
<1> QED BY <1>5, <1>16, <1>19, <1>21, <1>22, QueuesKept DEF CameraIInv

\* Those that wait on the first n connections, one line after another.
StrungOr(s, k) == s \o Waiting(k)
Strings(n, f) == f = [k \in 0..n |-> IF k = 0 THEN <<>> ELSE StrungOr(f[k - 1], k)]

LEMMA StringingOn == ASSUME NEW n \in Nat, NEW f, Strings(n, f) PROVE \E g : Strings(n + 1, g)
<1> DEFINE last == StrungOr(f[n], n + 1)
           g == [k \in 0..(n + 1) |-> IF k <= n THEN f[k] ELSE last]
<1>1. ASSUME NEW k \in 0..(n + 1)
      PROVE  g[k] = IF k = 0 THEN <<>> ELSE StrungOr(g[k - 1], k)
  <2>1. CASE k = 0
    <3>1. f[0] = <<>>
      BY DEF Strings
    <3> QED BY <2>1, <3>1
  <2>2. CASE k \in 1..n
    <3>1. f[k] = StrungOr(f[k - 1], k)
      BY <2>2 DEF Strings
    <3>2. g[k] = f[k] /\ g[k - 1] = f[k - 1] /\ k # 0
      BY <2>2
    <3> HIDE DEF g
    <3> QED BY <3>1, <3>2
  <2>3. CASE k = n + 1
    BY <2>3
  <2> QED BY <2>1, <2>2, <2>3
<1>2. g = [k \in 0..(n + 1) |-> g[k]]
  OBVIOUS
<1> HIDE DEF g
<1>3. Strings(n + 1, g)
  BY <1>1, <1>2 DEF Strings
<1> QED BY <1>3

LEMMA ThereIsAStringing == ASSUME NEW n \in Nat PROVE \E f : Strings(n, f)
<1> DEFINE not == {k \in Nat : ~\E f : Strings(k, f)}
<1> SUFFICES ASSUME not # {} PROVE FALSE
  OBVIOUS
<1>1. PICK k \in not : \A j \in not : k <= j
  BY LeastNatural
<1>2. Strings(0, [i \in 0..0 |-> <<>>])
  BY DEF Strings
<1>3. k - 1 \in Nat /\ k - 1 \notin not
  BY <1>1, <1>2
<1>4. PICK f : Strings(k - 1, f)
  BY <1>3
<1>5. \E g : Strings((k - 1) + 1, g)
  BY <1>3, <1>4, StringingOn
<1>6. (k - 1) + 1 = k
  BY <1>1
<1> QED BY <1>1, <1>5, <1>6

\* Every call that waits on one of the first n connections is told, once.
TellsThe(n, s) ==
    /\ s \in Seq(Work)
    /\ \A i \in CallId : /\ In(s, i) <=> \E h \in 1..n : Has(chan[h], i)
                         /\ Single(Queues, i) => Once(s, i)

LEMMA TellsOneMore ==
    ASSUME Fits(Queues), NEW n \in Nat, n + 1 \in Handle, NEW s, TellsThe(n, s)
    PROVE  TellsThe(n + 1, StrungOr(s, n + 1))
<1> DEFINE w == Waiting(n + 1)
<1>1. chan \in [Handle -> Channel] /\ Queues.chan = chan
  BY QueuesAre
<1>2. /\ w \in Seq(Work)
      /\ \A i \in CallId : /\ In(w, i) <=> Has(chan[n + 1], i)
                           /\ HasOnce(chan[n + 1], i) => Once(w, i)
  BY <1>1, WaitingIs
<1>3. StrungOr(s, n + 1) = s \o w
  BY DEF StrungOr
<1> HIDE DEF w
<1>4. s \in Seq(Work)
  BY DEF TellsThe
<1>5. s \o w \in Seq(Work)
  BY <1>2, <1>4, ConcatProperties
<1>6. ASSUME NEW i \in CallId
      PROVE  /\ In(s \o w, i) <=> \E h \in 1..(n + 1) : Has(chan[h], i)
             /\ Single(Queues, i) => Once(s \o w, i)
  <2>1. /\ In(s \o w, i) <=> In(s, i) \/ In(w, i)
        /\ Once(s, i) /\ Once(w, i) /\ ~(In(s, i) /\ In(w, i)) => Once(s \o w, i)
    BY <1>2, <1>4, Joined
  <2>2. In(s, i) <=> \E h \in 1..n : Has(chan[h], i)
    BY DEF TellsThe
  <2>3. (\E h \in 1..(n + 1) : Has(chan[h], i)) <=> (\E h \in 1..n : Has(chan[h], i)) \/ Has(chan[n + 1], i)
    OBVIOUS
  <2>4. ASSUME Single(Queues, i) PROVE Once(s, i) /\ Once(w, i) /\ ~(In(s, i) /\ In(w, i))
    <3>1. Once(s, i)
      BY <2>4 DEF TellsThe
    <3>2. HasOnce(chan[n + 1], i) /\ \A g, h \in Handle : Has(chan[g], i) /\ Has(chan[h], i) => g = h
      BY <1>1, <2>4 DEF Single
    <3>3. \A h \in 1..n : h \in Handle /\ h # n + 1
      BY HciCameraAssumption DEF HciCameraAssumption, Handle
    <3> QED BY <1>2, <2>2, <3>1, <3>2, <3>3
  <2> QED BY <1>2, <2>1, <2>2, <2>3, <2>4
<1> QED BY <1>3, <1>5, <1>6 DEF TellsThe

LEMMA AllWaitingIs == ASSUME Fits(Queues) PROVE TellsThe(MaxHandle, AllWaiting)
<1> DEFINE f == CHOOSE f : Strings(MaxHandle, f)
           not == {k \in 0..MaxHandle : ~TellsThe(k, f[k])}
<1>1. MaxHandle \in Nat
  BY HciCameraAssumption DEF HciCameraAssumption
<1>2. Strings(MaxHandle, f)
  BY <1>1, ThereIsAStringing
<1>3. AllWaiting = f[MaxHandle]
  BY DEF AllWaiting, Strings, StrungOr
<1> HIDE DEF f
<1>4. TellsThe(0, f[0])
  <2>1. f[0] = <<>>
    BY <1>1, <1>2 DEF Strings
  <2>2. <<>> \in Seq(Work) /\ \A i : ~In(<<>>, i) /\ Once(<<>>, i)
    BY DEF In, Once
  <2>3. 1..0 = {}
    OBVIOUS
  <2> QED BY <2>1, <2>2, <2>3 DEF TellsThe
<1>5. ASSUME NEW k \in 1..MaxHandle, TellsThe(k - 1, f[k - 1]) PROVE TellsThe(k, f[k])
  <2>1. f[k] = StrungOr(f[k - 1], k)
    BY <1>1, <1>2, <1>5 DEF Strings
  <2>2. k - 1 \in Nat /\ (k - 1) + 1 = k /\ k \in Handle
    BY <1>1, <1>5 DEF Handle
  <2> DEFINE n == k - 1
             s == f[n]
  <2>3. n \in Nat /\ n + 1 = k /\ n + 1 \in Handle /\ TellsThe(n, s) /\ f[k] = StrungOr(s, n + 1)
    BY <1>5, <2>1, <2>2
  <2> HIDE DEF n, s
  <2>4. TellsThe(n + 1, StrungOr(s, n + 1))
    BY <2>3, TellsOneMore
  <2> QED BY <2>3, <2>4
<1>6. not = {}
  <2> SUFFICES ASSUME not # {} PROVE FALSE
    OBVIOUS
  <2>1. PICK k \in not : \A j \in not : k <= j
    <3>1. not \subseteq Nat
      BY <1>1
    <3> HIDE DEF not
    <3> QED BY <3>1, LeastNatural
  <2>2. k # 0
    BY <1>4, <2>1
  <2>3. k \in 1..MaxHandle /\ k - 1 \in 0..MaxHandle
    BY <1>1, <2>1, <2>2
  <2>4. k - 1 \notin not
    BY <2>1, <2>3
  <2>5. TellsThe(k - 1, f[k - 1])
    BY <2>3, <2>4
  <2> QED BY <1>5, <2>1, <2>3, <2>5
<1>7. MaxHandle \in 0..MaxHandle
  BY <1>1
<1> QED BY <1>3, <1>6, <1>7

\* The answer to whoever is connecting.
EndOfAttempt == IF linking # NoLinking THEN <<Result(linking.call, FALSE)>> ELSE <<>>

LEMMA AttemptEnds ==
    ASSUME Client
    PROVE  /\ EndOfAttempt \in Seq(Work)
           /\ \A i \in CallId : (In(EndOfAttempt, i) <=> linking.call = i) /\ Once(EndOfAttempt, i)
<1>1. CASE linking # NoLinking
  <2> DEFINE w == Result(linking.call, FALSE)
  <2>1. linking.call \in CallId
    BY <1>1 DEF Client
  <2>2. w \in Work /\ CallOf(w) = linking.call
    BY <2>1, MadeWork
  <2>3. EndOfAttempt = <<w>>
    BY <1>1 DEF EndOfAttempt
  <2> HIDE DEF w
  <2> QED BY <2>2, <2>3, OneIs
<1>2. CASE linking = NoLinking
  <2>1. EndOfAttempt = <<>> /\ linking.call = 0
    BY <1>2 DEF EndOfAttempt, NoLinking
  <2>2. <<>> \in Seq(Work) /\ \A i : ~In(<<>>, i) /\ Once(<<>>, i)
    BY DEF In, Once
  <2>3. \A i \in CallId : i # 0
    BY DEF CallId
  <2> QED BY <2>1, <2>2, <2>3
<1> QED BY <1>1, <1>2

LEMMA Fails == ASSUME CameraIInv, fail PROVE CameraIInv'
<1> DEFINE all == AllWaiting
           two == all \o EndOfAttempt
           pile == two \o EndOfEncryption
           chs == [g \in Handle |-> EmptyChan]
           q == [conns |-> conns, chan |-> chs, acl |-> <<>>, credits |-> credits, sent |-> <<>>, stack |-> pile,
                 posted |-> posted]
<1>1. /\ stack = <<>> /\ link' = "closed" /\ peer' = [g \in Handle |-> <<>>] /\ linking' = NoLinking
      /\ encrypt' = NoEncrypt /\ UNCHANGED <<closing, cam, pairing, daemon, calls>>
  BY DEF fail, Resting
<1>2. /\ Fits(Queues) /\ Queues \in Chain /\ conns \in [Handle -> Conn] /\ chan \in [Handle -> Channel]
      /\ credits \in Nat /\ stack \in Seq(Work) /\ posted \in Seq(Work)
      /\ sent \in Seq(Fragment)
      /\ Queues.conns = conns /\ Queues.chan = chan /\ Queues.sent = sent
      /\ Queues.credits = credits /\ Queues.stack = stack /\ Queues.posted = posted
      /\ credits + Len(sent) <= AclTotal
  BY QueuesAre DEF CameraIInv, Fits
<1>3. Becomes(q)
  <2>1. /\ conns' = conns /\ credits' = credits /\ posted' = posted /\ acl' = <<>> /\ sent' = <<>> /\ chan' = chs
        /\ stack' = pile
    BY DEF fail, EndOfAttempt, EndOfEncryption
  <2> HIDE DEF chs, pile
  <2> QED BY <2>1 DEF Becomes
<1>4. EmptyChan \in Channel /\ \A i \in CallId : ~Has(EmptyChan, i) /\ HasOnce(EmptyChan, i)
  <2>1. <<>> \in Seq(Request)
    OBVIOUS
  <2>2. EmptyChan \in Channel
    BY <2>1 DEF EmptyChan, Channel
  <2>3. \A i \in CallId : ~Has(EmptyChan, i) /\ HasOnce(EmptyChan, i)
    BY DEF Has, HasOnce, EmptyChan, NoReq, CallId
  <2> QED BY <2>2, <2>3
<1>5. chs \in [Handle -> Channel] /\ \A g \in Handle : chs[g] = EmptyChan
  BY <1>4
<1> HIDE DEF chs
<1>6. all \in Seq(Work) /\ \A i \in CallId : (In(all, i) <=> OnChannel(Queues, i)) /\ (Single(Queues, i) => Once(all, i))
  <2>1. TellsThe(MaxHandle, all)
    BY <1>2, AllWaitingIs
  <2>2. Handle = 1..MaxHandle
    BY DEF Handle
  <2> HIDE DEF all
  <2> QED BY <1>2, <2>1, <2>2 DEF TellsThe, OnChannel
<1> HIDE DEF all
<1>7. /\ EndOfAttempt \in Seq(Work)
      /\ \A i \in CallId : (In(EndOfAttempt, i) <=> linking.call = i) /\ Once(EndOfAttempt, i)
  BY AttemptEnds DEF CameraIInv
<1>8. /\ two \in Seq(Work)
      /\ \A i \in CallId : /\ In(two, i) <=> OnChannel(Queues, i) \/ linking.call = i
                           /\ Single(Queues, i) /\ (linking.call = i => ~OnChannel(Queues, i)) => Once(two, i)
  <2>1. two \in Seq(Work)
    BY <1>6, <1>7, ConcatProperties
  <2>2. ASSUME NEW i \in CallId
        PROVE  /\ In(two, i) <=> In(all, i) \/ In(EndOfAttempt, i)
               /\ Once(all, i) /\ Once(EndOfAttempt, i) /\ ~(In(all, i) /\ In(EndOfAttempt, i)) => Once(two, i)
    BY <1>6, <1>7, Joined
  <2> HIDE DEF two
  <2> QED BY <1>6, <1>7, <2>1, <2>2
<1> HIDE DEF two
<1>9. /\ pile \in Seq(Work)
      /\ \A i \in CallId : /\ In(pile, i) <=> OnChannel(Queues, i) \/ linking.call = i
                           /\ Single(Queues, i) /\ (linking.call = i => ~OnChannel(Queues, i)) => Once(pile, i)
  <2>1. pile \in Seq(Work) /\ \A i \in CallId : (In(pile, i) <=> In(two, i)) /\ (Once(two, i) => Once(pile, i))
    BY <1>8, EncryptionEnds
  <2> HIDE DEF pile
  <2> QED BY <1>8, <2>1
<1> HIDE DEF pile
<1>10. /\ q \in Chain /\ q.conns = conns /\ q.chan = chs /\ q.acl = <<>> /\ q.sent = <<>> /\ q.credits = credits
       /\ q.stack = pile /\ q.posted = posted
  <2>1. <<>> \in Seq(Fragment)
    OBVIOUS
  <2> QED BY <1>2, <1>5, <1>9, <2>1 DEF Chain
<1> HIDE DEF q
<1>11. Fits(q)
  <2>1. Bare(q)
    BY <1>2, <1>5, <1>10 DEF Fits, Bare
  <2>2. Len(q.acl) <= MaxFragments /\ q.credits + Len(q.sent) <= AclTotal
    <3>1. Len(sent) \in Nat
      BY <1>2
    <3>2. Len(q.acl) = 0 /\ Len(q.sent) = 0
      BY <1>10
    <3> QED BY <1>2, <1>10, <3>1, <3>2, HciCameraAssumption DEF HciCameraAssumption
  <2>3. (\A a \in DOMAIN q.acl : IsOf(q, q.acl[a])) /\ \A a \in DOMAIN q.sent : IsOf(q, q.sent[a])
    BY <1>10
  <2> QED BY <1>10, <2>1, <2>2, <2>3 DEF Fits
<1>12. Takes(Queues, q, {linking.call})
  <2> SUFFICES ASSUME NEW i \in CallId
               PROVE  /\ Holds(q, i) => Holds(Queues, i) \/ i = linking.call
                      /\ Single(Queues, i) /\ (i = linking.call => ~Holds(Queues, i)) => Single(q, i)
    BY DEF Takes
  <2>1. ~OnChannel(q, i) /\ \A g \in Handle : ~Has(q.chan[g], i) /\ HasOnce(q.chan[g], i)
    BY <1>4, <1>5, <1>10 DEF OnChannel
  <2>2. In(q.stack, i) <=> OnChannel(Queues, i) \/ linking.call = i
    BY <1>9, <1>10
  <2>3. In(q.posted, i) <=> In(Queues.posted, i)
    BY <1>2, <1>10
  <2>4. Holds(q, i) => Holds(Queues, i) \/ i = linking.call
    BY <2>1, <2>2, <2>3 DEF Holds
  <2>5. ASSUME Single(Queues, i), i = linking.call => ~Holds(Queues, i) PROVE Single(q, i)
    <3>1. linking.call = i => ~OnChannel(Queues, i) /\ ~In(Queues.posted, i)
      BY <2>5 DEF Holds
    <3>2. Once(q.stack, i)
      BY <1>9, <1>10, <2>5, <3>1
    <3>3. Once(q.posted, i)
      BY <1>2, <1>10, <2>5 DEF Single
    <3>4. ~(In(q.stack, i) /\ In(q.posted, i))
      BY <2>2, <2>3, <2>5, <3>1 DEF Single
    <3> QED BY <2>1, <3>2, <3>3, <3>4 DEF Single
  <2> QED BY <2>4, <2>5
<1>13. Accounts(q, 0, pairing.req.call, 0, calls)
  <2>1. Accounts(Queues, linking.call, pairing.req.call, 0, calls)
    BY DEF CameraIInv, CallsAccounted
  <2> QED BY <1>12, <2>1, AttemptTold
<1>14. Accounts(q, linking'.call, pairing'.req.call, 0, calls')
  BY <1>1, <1>13, NoLinkingIs
<1>15. conns' = conns
  BY <1>3, <1>10 DEF Becomes
<1>16. PerConnection'
  <2>1. closing' \subseteq Handle /\ \A g \in closing' : conns'[g].open
    BY <1>1, <1>15 DEF CameraIInv, PerConnection
  <2>2. encrypt' \in [pending : BOOLEAN, h : Handle \cup {0}] /\ ~encrypt'.pending
    BY <1>1, NoEncryptIs
  <2>3. peer' \in [Handle -> Seq(Request)] /\ \A g \in Handle : ~conns'[g].open => peer'[g] = <<>>
    <3>1. <<>> \in Seq(Request)
      OBVIOUS
    <3> QED BY <1>1, <3>1
  <2> QED BY <2>1, <2>2, <2>3 DEF PerConnection
<1>17. Client'
  <2>1. UNCHANGED <<cam, pairing>> /\ Client
    BY <1>1 DEF CameraIInv
  <2> QED BY <1>1, <2>1 DEF Client, PairingOK
<1>18. Caller'
  BY <1>1 DEF CameraIInv, Caller, AnsweredOnce
<1> QED BY <1>3, <1>11, <1>14, <1>16, <1>17, <1>18, QueuesKept DEF CameraIInv

-----------------------------------------------------------------------------
(* Every step, and what follows *)

LEMMA HandlersKeep == ASSUME CameraIInv, Handlers PROVE CameraIInv'
BY OnMtus, OnServicess, OnCharss, OnCccds, OnSubscribes, OnWrites, OnPaireds, OnEncrypteds, OnGones, OnResults
   DEF Handlers

LEMMA TimeoutsKeep == ASSUME CameraIInv, Timeouts PROVE CameraIInv'
BY ConnectTimeouts, AttTimeouts, EncryptTimeouts, PairingTimeouts DEF Timeouts

LEMMA StutterKeeps == ASSUME CameraIInv, UNCHANGED cameraVars PROVE CameraIInv'
<1>1. UNCHANGED <<link, conns, closing, chan, acl, credits, sent, peer, linking, encrypt, cam, pairing, daemon, calls>>
      /\ UNCHANGED <<stack, posted>>
  BY DEF cameraVars
<1>2. Queues' = Queues
  BY <1>1 DEF Queues
<1>3. Fits(Queues)' /\ CallsAccounted'
  BY <1>1, <1>2 DEF CameraIInv, CallsAccounted
<1>4. PerConnection' /\ Client' /\ Caller'
  BY <1>1 DEF CameraIInv, PerConnection, Client, PairingOK, Caller, AnsweredOnce
<1> QED BY <1>3, <1>4 DEF CameraIInv

LEMMA CameraStep == ASSUME CameraIInv, [CameraNext]_cameraVars PROVE CameraIInv'
<1>1. CASE init_step \/ init_address
  BY <1>1, Inits
<1>2. CASE connect \/ disconnect \/ subscribe \/ write_control
  BY <1>2, Connects, Disconnects, Subscribes, Writes
<1>3. CASE UseHeld \/ finish_cycle
  BY <1>3, Cycles
<1>4. CASE Connected
  BY <1>4, Connecteds
<1>5. CASE Handlers \/ Timeouts
  BY <1>5, HandlersKeep, TimeoutsKeep
<1>6. CASE RunPosted
  BY <1>6, RunsPosted
<1>7. CASE NumCompleted
  BY <1>7, NumCompleteds
<1>8. CASE \E h \in Handle : Response(h) \/ Disconnected(h)
  BY <1>8, Responses, Disconnecteds
<1>9. CASE \E good \in BOOLEAN : Smp(good) \/ EncryptionChange(good)
  BY <1>9, Smps, EncryptionChanges
<1>10. CASE SmpStray
  BY <1>10, SmpStrays
<1>11. CASE fail
  BY <1>11, Fails
<1>12. CASE UNCHANGED cameraVars
  BY <1>12, StutterKeeps
<1> QED BY <1>1, <1>2, <1>3, <1>4, <1>5, <1>6, <1>7, <1>8, <1>9, <1>10, <1>11, <1>12 DEF CameraNext

\* What the client relies on without saying so: every completion the link, the
\* pairing or the attempt to connect holds is of a call that was made and not
\* answered, it is held in one place, and what is queued, kept or believed for a
\* connection is of the connection that is there.
THEOREM CameraInvariant == CameraSpec => []CameraIInv
<1>1. CameraInit => CameraIInv
  BY InitAccounts
<1>2. CameraIInv /\ [CameraNext]_cameraVars => CameraIInv'
  BY CameraStep
<1> QED BY <1>1, <1>2, PTL DEF CameraSpec

\* Every variable of the client and the link keeps to its type: the queue of
\* fragments to kMaxQueuedFragments, the credits and the fragments out to the
\* controller's buffers (pump_acl()).
THEOREM CameraTypeCorrect == CameraSpec => []CameraTypeOK
<1>1. CameraIInv => CameraTypeOK
  <2> SUFFICES ASSUME CameraIInv PROVE CameraTypeOK
    OBVIOUS
  <2>1. Fits(Queues) /\ PerConnection /\ Client /\ Caller
    BY DEF CameraIInv
  <2>2. /\ conns \in [Handle -> Conn] /\ chan \in [Handle -> Channel] /\ acl \in Seq(Fragment) /\ credits \in Nat
        /\ sent \in Seq(Fragment) /\ stack \in Seq(Work) /\ posted \in Seq(Work)
        /\ Len(acl) <= MaxFragments /\ credits + Len(sent) <= AclTotal
    BY <2>1, QueuesAre DEF Fits
  <2>3. credits \in 0..AclTotal /\ Len(sent) <= AclTotal
    <3>1. Len(sent) \in Nat
      BY <2>2
    <3> QED BY <2>2, <3>1, HciCameraAssumption DEF HciCameraAssumption
  <2>4. linking \in [call : CallId \cup {0}, type : 0..1]
    BY <2>1 DEF Client, NoLinking
  <2>5. pairing \in [state : {"none", "response", "confirm", "random", "ready"}, req : Request \cup {NoReq}]
    BY <2>1 DEF Client, PairingOK, NotPairing
  <2>6. link \in Bring \cup {"up", "failed", "closed"} /\ daemon \in DaemonType /\ calls \in CallsType
    BY <2>1 DEF Caller
  <2>7. cam \in CamType
    BY <2>1 DEF Client
  <2>8. closing \subseteq Handle /\ encrypt \in [pending : BOOLEAN, h : Handle \cup {0}] /\ peer \in [Handle -> Seq(Request)]
    BY <2>1 DEF PerConnection
  <2> QED BY <2>2, <2>3, <2>4, <2>5, <2>6, <2>7, <2>8 DEF CameraTypeOK, Conn, Channel, CamType, CallsType, DaemonType
<1> QED BY <1>1, CameraInvariant, PTL

\* Whatever the camera, the dongle and the daemon do and in whichever order: a
\* call's handler is called once at the most, and a connection begins with
\* nothing of the one that had its number before (drop_connection(), fail()).
THEOREM LinkKeepsItsOwn == CameraSpec => []LinkStateIsItsOwn
<1>1. CameraIInv => LinkStateIsItsOwn
  <2> SUFFICES ASSUME CameraIInv PROVE LinkStateIsItsOwn
    OBVIOUS
  <2>1. Fits(Queues) /\ PerConnection /\ AnsweredOnce
    BY DEF CameraIInv, Caller
  <2>2. /\ acl \in Seq(Fragment) /\ sent \in Seq(Fragment) /\ conns \in [Handle -> Conn]
        /\ Queues.conns = conns /\ Queues.acl = acl /\ Queues.sent = sent /\ Queues.chan = chan
    BY <2>1, QueuesAre
  <2>3. \A h \in Handle : h # 0
    BY DEF Handle
  <2>4. ASSUME NEW f \in Fragment, IsOf(Queues, f) PROVE OfThisConnection(f)
    <3>1. f.h \in Handle
      BY FragmentsAre DEF FragmentIs
    <3> QED BY <2>2, <2>3, <2>4, <3>1 DEF IsOf, OfThisConnection, Open
  <2>5. \A a \in DOMAIN acl : OfThisConnection(acl[a])
    BY <2>1, <2>2, <2>4 DEF Fits
  <2>6. \A a \in DOMAIN sent : OfThisConnection(sent[a])
    BY <2>1, <2>2, <2>4 DEF Fits
  <2>7. (\A h \in closing : Open(h)) /\ (encrypt.pending => Open(encrypt.h))
    BY <2>1, <2>3 DEF PerConnection, Open
  <2>8. \A h \in Handle : ~Open(h) => ~conns[h].enc /\ conns[h].notes = {} /\ chan[h] = EmptyChan /\ peer[h] = <<>>
    BY <2>1, <2>2, <2>3 DEF Fits, Bare, PerConnection, Open
  <2>9. NothingInherited
    BY <2>5, <2>6, <2>7, <2>8 DEF NothingInherited
  <2> QED BY <2>1, <2>9 DEF LinkStateIsItsOwn
<1> QED BY <1>1, CameraInvariant, PTL
=============================================================================
