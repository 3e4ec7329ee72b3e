------------------------------ MODULE Registry ------------------------------
(***************************************************************************)
(* The registry of timecode boxes and the camera (src/registry.cc): what   *)
(* has been heard, against which clock, which boxes count, and when to     *)
(* raise an alarm.  It is fed by the radio and read by everything else.    *)
(*                                                                         *)
(* mono is the monotonic clock; the wall clock is the monotonic one plus a *)
(* jump for every one of "steps".                                          *)
(***************************************************************************)
EXTENDS Integers, Sequences, SequencesExt, FiniteSets

CONSTANTS
    Box,          \* timecode boxes
    Camera,       \* cameras
    Reading,      \* offsets a box may be read at
    Enter, Exit,  \* alert_enter, alert_exit
    Confirm,      \* alert_confirm
    Window, MaxSamples,
    StaleAfter, GoneAfter, ForgetAfter, RenotifyAfter,
    MinSpan, MinSamples,
    MaxMono, MaxSteps,  \* bounds: how long we look, and how often the clock is set
    MaxEvents           \* a bound: events raised in one turn

\* The camera's id is a string of its own, and times are numbers.
ASSUME RegistryAssumption == "none" \notin Camera /\ GoneAfter \in Int /\ ForgetAfter \in Int

VARIABLES
    mono, steps,
    devices,    \* devices_: what is known of each box that has been heard or restored
    last,       \* the steps at the last advertisement, or -1
    events,     \* events_
    camera,     \* camera_
    told,       \* boxes a listener believes are drifting
    streak,     \* per box, what its last medians were judged to be, and how many in a row
    returns     \* how often the camera came up

registryVars == <<mono, steps, devices, last, events, camera, told, streak, returns>>

\* A device nothing has been heard of, and one restored from disk.
Fresh == [seen |-> 0, mine |-> FALSE, samples |-> <<>>, over |-> 0, under |-> 0, alerting |-> FALSE,
          notified |-> 0]

NoCamera == [id |-> "none", present |-> FALSE, seen |-> 0, sessions |-> 0]

\* remember(): what was on disk is listed, and nothing else is known of it.
RegistryInit ==
    /\ mono = 1 /\ steps = 0
    /\ \E restored \in SUBSET Box : devices = [b \in restored |-> Fresh]
    /\ last = -1
    /\ events = <<>>
    /\ camera = NoCamera
    /\ told = {}
    /\ streak = [b \in Box |-> [of |-> "none", length |-> 0]]
    /\ returns = 0

-----------------------------------------------------------------------------
(* Arithmetic.  Medians are doubled, so that they are whole numbers.       *)

median_offset(s) ==
    LET v == SortSeq([i \in DOMAIN s |-> s[i].offset], <)
        n == Len(v)
    IN  IF n % 2 = 1 THEN 2 * v[n \div 2 + 1] ELSE v[n \div 2] + v[n \div 2 + 1]

\* fit_drift_ppm(): a slope needs enough samples over a long enough arm.
fit_drift(s) == s # <<>> /\ Len(s) >= MinSamples /\ s[Len(s)].at - s[1].at >= MinSpan

\* trim(): the front goes as long as it is older than the window, and then as
\* long as there is too much.
trim(s) ==
    LET staying == {i \in DOMAIN s : s[i].at >= mono - Window /\ i > Len(s) - MaxSamples}
    IN  SubSeq(s, Min(staying \cup {Len(s) + 1}), Len(s))

Verdict(s) ==
    LET m == median_offset(s)
        mag == IF m < 0 THEN 0 - m ELSE m
    IN  IF mag > 2 * Enter THEN "over" ELSE IF mag < 2 * Exit THEN "under" ELSE "band"

\* Counting stops where it makes no more difference.
More(n) == IF n < Confirm THEN n + 1 ELSE n

\* update_alert(): the counters hold how many medians in a row were over or
\* under; inside the band neither counts.
Counted(d) ==
    LET v == Verdict(d.samples)
    IN  [d EXCEPT !.over = IF v = "over" THEN More(@) ELSE 0, !.under = IF v = "under" THEN More(@) ELSE 0]

Entering(d) == ~d.alerting /\ d.over >= Confirm
Leaving(d) == d.alerting /\ d.under >= Confirm
Reminding(d) == d.alerting /\ ~Leaving(d) /\ mono - d.notified >= RenotifyAfter

\* Forgets that the alarm was raised.
Judged_Quiet(d) ==
    IF Entering(d) THEN [d EXCEPT !.alerting = TRUE, !.notified = mono] ELSE [d EXCEPT !.alerting = FALSE]

Judged(d) ==
    IF Entering(d) THEN [d EXCEPT !.alerting = TRUE, !.notified = mono]
    ELSE IF Leaving(d) THEN [d EXCEPT !.alerting = FALSE]
    ELSE IF Reminding(d) THEN [d EXCEPT !.notified = mono] ELSE d

Raised(b, d) ==
    IF Entering(d) THEN <<[of |-> b, entering |-> TRUE, repeat |-> FALSE]>>
    ELSE IF Leaving(d) THEN <<[of |-> b, entering |-> FALSE, repeat |-> FALSE]>>
    ELSE IF Reminding(d) THEN <<[of |-> b, entering |-> TRUE, repeat |-> TRUE]>> ELSE <<>>

-----------------------------------------------------------------------------
(* What is heard *)

\* A clock that was set makes every offset jump: all history goes.
AfterStep(b) ==
    IF last \in {-1, steps} THEN devices
    ELSE [x \in DOMAIN devices |-> [devices[x] EXCEPT !.samples = <<>>, !.over = 0, !.under = 0]]

\* Boxes that have genuinely gone away are forgotten (never, when zero); one
\* restored from disk has no age to go by.
Gone(known, b) ==
    {x \in DOMAIN known : ForgetAfter > 0 /\ x # b /\ known[x].mine /\ mono - known[x].seen > ForgetAfter}

\* What was judged against the old clock no longer counts.
Streaks == IF last \in {-1, steps} THEN streak ELSE [b \in Box |-> [of |-> "none", length |-> 0]]

\* observe(): one advertisement of box b; r holds its offset,
\* or nothing that can be read.
observe(b, r) ==
    LET known == AfterStep(b)
        heard == [(IF b \in DOMAIN known THEN known[b] ELSE Fresh) EXCEPT !.seen = mono, !.mine = TRUE]
        sampled == [heard EXCEPT !.samples = trim(Append(@, [at |-> mono, offset |-> r[1], steps |-> steps]))]
        counted == Counted(sampled)
    IN  /\ Len(events) < MaxEvents
        /\ last' = steps
        /\ IF r = <<>>
           THEN /\ devices' = [x \in DOMAIN known \cup {b} |-> IF x = b THEN heard ELSE known[x]]
                /\ streak' = Streaks
                /\ UNCHANGED <<events, told>>
           ELSE LET all == [x \in DOMAIN known \cup {b} |-> IF x = b THEN Judged(counted) ELSE known[x]]
                    gone == Gone(all, b)
                IN  /\ devices' = [x \in DOMAIN all \ gone |-> all[x]]
                    /\ events' = events \o Raised(b, counted)
                    /\ told' = told \ gone
                    /\ streak' = [Streaks EXCEPT ![b] =
                          LET v == Verdict(sampled.samples)
                          IN  [of |-> v, length |-> IF v = @.of THEN More(@.length) ELSE 1]]
        /\ UNCHANGED <<mono, steps, camera, returns>>

\* age_camera(): silence for too long is absence.
age_camera(c) == IF c.present /\ mono - c.seen > GoneAfter THEN [c EXCEPT !.present = FALSE] ELSE c

Sighted(c, k) ==
    LET aged == age_camera(c)
    IN  [aged EXCEPT !.id = k, !.seen = mono, !.present = TRUE,
                     !.sessions = IF aged.present THEN @ ELSE @ + 1]

\* observe_camera(): the first camera heard is the camera.
observe_camera(k) ==
    /\ camera' = IF camera.id \in {"none", k} THEN Sighted(camera, k) ELSE camera
    /\ returns' = IF camera.id = "none" \/ (camera.id = k /\ mono - camera.seen > GoneAfter)
                  THEN returns + 1 ELSE returns
    /\ UNCHANGED <<mono, steps, devices, last, events, told, streak>>

-----------------------------------------------------------------------------
(* What is asked *)

\* snapshot() ages the camera; all else it does is read.
snapshot ==
    /\ camera' = age_camera(camera)
    /\ UNCHANGED <<mono, steps, devices, last, events, told, streak, returns>>

Live(b) == devices[b].mine /\ mono - devices[b].seen <= StaleAfter
Voting == {b \in DOMAIN devices : Live(b) /\ devices[b].samples # <<>>}

\* A listener goes by the last it was told of each box.
Believed ==
    {b \in Box :
        \/ b \in told /\ \A i \in DOMAIN events : events[i].of # b
        \/ \E i \in DOMAIN events :
              /\ events[i].of = b /\ events[i].entering
              /\ \A j \in DOMAIN events : events[j].of = b => j <= i}

\* take_events(): the listener is told everything that was raised.
take_events ==
    /\ events # <<>>
    /\ told' = Believed
    /\ events' = <<>>
    /\ UNCHANGED <<mono, steps, devices, last, camera, streak, returns>>

\* forget(): a command, served after the last turn's events were taken.
forget(x) ==
    /\ events = <<>>
    /\ devices' = [b \in DOMAIN devices \ {x} |-> devices[b]]
    /\ camera' = IF camera.id = x THEN NoCamera ELSE camera
    /\ returns' = IF camera.id = x THEN 0 ELSE returns
    /\ told' = told \ {x}
    /\ streak' = IF x \in Box THEN [streak EXCEPT ![x] = [of |-> "none", length |-> 0]] ELSE streak
    /\ UNCHANGED <<mono, steps, last, events>>

-----------------------------------------------------------------------------
\* Events are taken on every turn, long before it is later by anything that
\* counts here.
Pass ==
    /\ mono < MaxMono /\ events = <<>>
    /\ mono' = mono + 1
    /\ UNCHANGED <<steps, devices, last, events, camera, told, streak, returns>>

\* Somebody, or the network, sets this machine's clock.
SetClock ==
    /\ steps < MaxSteps
    /\ steps' = steps + 1
    /\ UNCHANGED <<mono, devices, last, events, camera, told, streak, returns>>

BoxesNext ==
    \/ \E b \in Box, r \in {<<>>} \cup {<<x>> : x \in Reading} : observe(b, r)
    \/ take_events
    \/ \E b \in Box : forget(b)
    \/ Pass \/ SetClock

CameraNext ==
    \/ \E k \in Camera : observe_camera(k)
    \/ snapshot
    \/ \E k \in Camera : forget(k)
    \/ Pass

-----------------------------------------------------------------------------
(* Properties *)

\* The bench, and every drift, is worked out from samples taken against one
\* clock: nothing reaches across the moment this machine's clock was set.
OneClock ==
    /\ \A b, c \in Voting : \A i \in DOMAIN devices[b].samples, j \in DOMAIN devices[c].samples :
          devices[b].samples[i].steps = devices[c].samples[j].steps
    /\ \A b \in DOMAIN devices : fit_drift(devices[b].samples) =>
          \A i, j \in DOMAIN devices[b].samples : devices[b].samples[i].steps = devices[b].samples[j].steps

\* An alarm is raised or cleared only by as many medians in a row as it takes.
AlarmsAreEarned ==
    [][\A b \in DOMAIN devices \cap DOMAIN devices' :
          devices'[b].alerting # devices[b].alerting =>
              streak'[b] = [of |-> IF devices'[b].alerting THEN "over" ELSE "under", length |-> Confirm]]_registryVars

\* Once the events are taken, a listener believes exactly what is the case.
AlarmsAreTold == events = <<>> => told = {b \in DOMAIN devices : devices[b].alerting}

\* A camera that was silent for too long and came back was switched off: that
\* is a new session, whether or not anybody asked in between.
PowerCyclesAreCounted == camera.sessions = returns

\* What the registry says of the bench, of its alarms and of its camera is the
\* case, however the clock was set and whatever went silent in between.
RegistryIsHonest == [](OneClock /\ AlarmsAreTold /\ PowerCyclesAreCounted) /\ AlarmsAreEarned
=============================================================================
