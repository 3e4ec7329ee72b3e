------------------------------ MODULE BootGuard ------------------------------
(***************************************************************************)
(* How a dongle starts, dies and comes back: the boot guard and the fault  *)
(* record in memory that a reset leaves alone (firmware/src/faultlog.cc),  *)
(* safe mode and the order of bring-up (firmware/src/main.cc), and the     *)
(* watchdog with its two checks (src/watchdog.cc, hwwatchdog.cc).          *)
(*                                                                         *)
(* Time is counted in feeds of the watchdog: one every quarter of its      *)
(* timeout.  A check of the wire that runs at all is answered within one.  *)
(***************************************************************************)
EXTENDS Integers, FiniteSets

CONSTANTS
    Flaw,             \* where images may be broken: stages of Stage, or "none"
    MaxBootAttempts,  \* kMaxBootAttempts
    Timeout,          \* kWatchdogTimeout, in feeds
    Patience,         \* kWirePatience, in feeds
    MaxGlitches,      \* a bound: how often a run in progress is upset
    MaxCycles         \* a bound: how often it is unplugged or flashed

Check == {"loop", "wire"}

ASSUME BootGuardAssumption ==
    /\ Flaw \subseteq {"none", "drivers", "quiet", "safe", "bringup", "working"}
    /\ MaxBootAttempts \in Nat /\ MaxBootAttempts > 1
    /\ Timeout \in Nat \ {0} /\ Patience \in Nat

VARIABLES
    image,      \* where the image on it dies whenever it gets there
    stage,      \* where the box is
    retained,   \* g_retained
    cause,      \* whether the hardware says the watchdog did it
    safe,       \* safe_mode
    said,       \* the note about the last run, for whoever asks
    unsettled,  \* the settle timer runs
    stuck,      \* what has stopped: "none", "loop" or "wire"
    left,       \* per watchdog channel, feeds it may still miss
    probe,      \* ProbeLiveness
    ended,      \* what really ended the last run
    failures,   \* starts in a row that ended before they settled
    glitches, cycles

bootVars == <<image, stage, retained, cause, safe, said, unsettled, stuck, left, probe, ended, failures, glitches, cycles>>

\* What is in the memory after power was lost: nothing with a marker on it.
Lost == [boots |-> "unset", attempts |-> 0, fault |-> FALSE, count |-> 0, starved |-> "unset"]

NoProbe == [started |-> FALSE, waiting |-> FALSE, since |-> 0]

BootInit ==
    /\ image \in Flaw
    /\ stage = "off"
    /\ retained = Lost
    /\ cause = FALSE /\ safe = FALSE /\ said = <<>> /\ unsettled = FALSE
    /\ stuck = "none"
    /\ left = [c \in Check |-> 0]
    /\ probe = NoProbe
    /\ ended = "power"
    /\ failures = 0
    /\ glitches = 0 /\ cycles = 0

-----------------------------------------------------------------------------
(* Starting *)

PowerOn ==
    /\ stage = "off"
    /\ stage' = "guard"
    /\ UNCHANGED <<image, retained, cause, safe, said, unsettled, stuck, left, probe, ended, failures, glitches, cycles>>

\* Counts, and goes on.
octo_boot_guard_Endless ==
    /\ stage = "guard"
    /\ retained' = [retained EXCEPT !.boots = "set",
                                    !.attempts = IF retained.boots = "set" /\ @ <= MaxBootAttempts THEN @ + 1 ELSE 1]
    /\ stage' = "drivers"
    /\ UNCHANGED <<image, cause, safe, said, unsettled, stuck, left, probe, ended, failures, glitches, cycles>>

\* octo_boot_guard(): before the drivers.  Too many attempts end in the
\* bootloader, with the count cleared.
octo_boot_guard ==
    LET n == IF retained.boots = "set" THEN retained.attempts + 1 ELSE 1
    IN  /\ stage = "guard"
        /\ retained' = [retained EXCEPT !.boots = "set", !.attempts = IF n > MaxBootAttempts THEN 0 ELSE n]
        /\ stage' = IF n > MaxBootAttempts THEN "dfu" ELSE "drivers"
        /\ UNCHANGED <<image, cause, safe, said, unsettled, stuck, left, probe, ended, failures, glitches, cycles>>

Drivers ==
    /\ stage = "drivers" /\ image # "drivers"
    /\ stage' = "main"
    /\ UNCHANGED <<image, retained, cause, safe, said, unsettled, stuck, left, probe, ended, failures, glitches, cycles>>

\* describe_fault(): the hardware's word first.
Described ==
    IF cause THEN <<"watchdog", retained.starved>>
    ELSE IF retained.fault THEN <<"fault">> ELSE <<>>

\* main(), up to the loop: the record is taken and cleared, and a second
\* attempt in a row is a port and nothing else.
Main ==
    /\ stage = "main"
    /\ said' = Described
    /\ cause' = FALSE
    /\ retained' = [retained EXCEPT !.starved = "unset", !.fault = FALSE,
                                    !.count = IF retained.fault THEN @ ELSE 0]
    /\ safe' = (retained.attempts > 1)
    /\ stage' = "quiet"
    /\ UNCHANGED <<image, unsettled, stuck, left, probe, ended, failures, glitches, cycles>>

\* kQuietStart later: the work that may not survive.
BringUp ==
    /\ stage = "quiet"
    /\ stage' = IF safe THEN "safe" ELSE "bringup"
    /\ UNCHANGED <<image, retained, cause, safe, said, unsettled, stuck, left, probe, ended, failures, glitches, cycles>>

\* arm_settle_timer(), start_watchdog()
Working ==
    /\ stage = "bringup" /\ image # "bringup"
    /\ stage' = "working"
    /\ unsettled' = TRUE
    /\ left' = [c \in Check |-> Timeout]
    /\ probe' = NoProbe
    /\ UNCHANGED <<image, retained, cause, safe, said, stuck, ended, failures, glitches, cycles>>

\* mark_run_settled(): from an interrupt, thirty seconds in.
mark_run_settled ==
    /\ stage = "working" /\ unsettled
    /\ retained' = [retained EXCEPT !.attempts = 0, !.count = 0]
    /\ unsettled' = FALSE /\ failures' = 0
    /\ UNCHANGED <<image, stage, cause, safe, said, stuck, left, probe, ended, glitches, cycles>>

-----------------------------------------------------------------------------
(* Dying *)

\* A reset: memory stays, all else goes.  A run that had settled is not a
\* start that failed.
Reset(why) ==
    /\ stage' = "guard"
    /\ ended' = why
    /\ failures' = IF (stage = "working" /\ ~unsettled) \/ failures > MaxBootAttempts THEN failures ELSE failures + 1
    /\ safe' = FALSE /\ unsettled' = FALSE /\ stuck' = "none"
    /\ left' = [c \in Check |-> 0]
    /\ probe' = NoProbe

\* k_sys_fatal_error_handler(); counting stops where nothing looks any more.
Fault ==
    /\ retained' = [retained EXCEPT !.fault = TRUE, !.count = IF @ > 3 THEN @ ELSE @ + 1]
    /\ Reset("fault")
    /\ UNCHANGED <<image, cause, said, cycles>>

Dies ==
    /\ stage = image
    /\ Fault
    /\ UNCHANGED glitches

Glitch ==
    /\ glitches < MaxGlitches /\ stage \in {"quiet", "safe", "bringup", "working"} /\ stuck # "loop"
    /\ glitches' = glitches + 1
    /\ \/ Fault
       \/ /\ stage = "working" /\ stuck = "none"
          /\ stuck' \in Check
          /\ UNCHANGED <<image, stage, retained, cause, safe, said, unsettled, left, probe, ended, failures, cycles>>

\* The wire was only busy.
Recovers ==
    /\ stuck = "wire"
    /\ stuck' = "none"
    /\ UNCHANGED <<image, stage, retained, cause, safe, said, unsettled, left, probe, ended, failures, glitches, cycles>>

-----------------------------------------------------------------------------
(* The watchdog *)

\* ProbeLiveness::poll(): a baseline, then a poke a period, each of which
\* must be answered before patience runs out.
poll(p, answered) ==
    IF ~p.started THEN [ok |-> TRUE, p |-> [started |-> TRUE, waiting |-> FALSE, since |-> 0]]
    ELSE IF p.waiting
    THEN IF answered THEN [ok |-> TRUE, p |-> [p EXCEPT !.waiting = FALSE, !.since = 0]]
         ELSE [ok |-> p.since + 1 <= Patience, p |-> [p EXCEPT !.since = IF @ > Patience THEN @ ELSE @ + 1]]
    ELSE [ok |-> TRUE, p |-> [p EXCEPT !.waiting = TRUE, !.since = 0]]

\* What the last look found.
Unanswered(p) == p.waiting /\ p.since > Patience

\* note_watchdog_state(), every time round.
Noted(r, ok) == [r EXCEPT !.starved = IF ok THEN "ok" ELSE "wire"]

\* A feed's time passes: a loop that runs polls, feeds what passed and writes
\* down what did not; the hardware counts either way.
Tick ==
    LET asked == poll(probe, stuck # "wire")
        fed == IF stuck = "loop" THEN {} ELSE IF asked.ok THEN Check ELSE {"loop"}
        now == [c \in Check |-> IF c \in fed THEN Timeout ELSE left[c] - 1]
    IN  /\ stage = "working"
        /\ IF \E c \in Check : now[c] = 0
           THEN /\ cause' = TRUE
                /\ Reset(IF stuck = "loop" /\ ~Unanswered(probe) THEN "loop" ELSE "wire")
                /\ retained' = IF stuck = "loop" THEN retained ELSE Noted(retained, asked.ok)
           ELSE /\ left' = now
                /\ probe' = IF stuck = "loop" THEN probe ELSE asked.p
                /\ retained' = IF stuck = "loop" THEN retained ELSE Noted(retained, asked.ok)
                /\ UNCHANGED <<stage, cause, safe, unsettled, stuck, ended, failures>>
        /\ UNCHANGED <<image, said, glitches, cycles>>

-----------------------------------------------------------------------------
(* People *)

\* The dfu verb, where there is a port and a loop behind it.
dfu ==
    /\ stage \in {"quiet", "safe", "working"} /\ stuck = "none"
    /\ retained' = [retained EXCEPT !.attempts = 0, !.count = 0]
    /\ stage' = "dfu"
    /\ failures' = 0 /\ ended' = "dfu"
    /\ safe' = FALSE /\ unsettled' = FALSE
    /\ left' = [c \in Check |-> 0]
    /\ UNCHANGED <<image, cause, said, stuck, probe, glitches, cycles>>

\* The bootloader takes another image and starts it.
Flash ==
    /\ stage = "dfu" /\ cycles < MaxCycles
    /\ image' \in Flaw
    /\ stage' = "guard"
    /\ cycles' = cycles + 1
    /\ failures' = 0
    /\ UNCHANGED <<retained, cause, safe, said, unsettled, stuck, left, probe, ended, glitches>>

Unplug ==
    /\ stage # "off" /\ cycles < MaxCycles
    /\ stage' = "off"
    /\ cycles' = cycles + 1
    /\ retained' = Lost /\ cause' = FALSE
    /\ failures' = 0 /\ ended' = "power"
    /\ safe' = FALSE /\ unsettled' = FALSE /\ stuck' = "none"
    /\ left' = [c \in Check |-> 0]
    /\ probe' = NoProbe
    /\ UNCHANGED <<image, said, glitches>>

BootNext ==
    \/ PowerOn \/ octo_boot_guard \/ Drivers \/ Main \/ BringUp \/ Working \/ mark_run_settled
    \/ Dies \/ Glitch \/ Recovers \/ Tick
    \/ dfu \/ Flash \/ Unplug

\* The way up, one stage at a time, or down again.
Starts == PowerOn \/ octo_boot_guard \/ Drivers \/ Main \/ BringUp \/ Working \/ Dies

-----------------------------------------------------------------------------
(* Properties *)

\* Whatever killed a start is not run again: the code that may not survive is
\* reached only by a box whose last start lasted, safe mode only by one whose
\* last start did not, and the bootloader is waited in only after every attempt
\* is used up or somebody asked.
RiskIsNotRepeated ==
    /\ stage = "bringup" => failures = 0
    /\ stage = "safe" => failures > 0
    /\ stage = "dfu" => ended = "dfu" \/ failures >= MaxBootAttempts

\* What the box says of its last run is what ended it; a wire is blamed only
\* when it was not answering at the last look.
BlameIsRight ==
    stage \in {"quiet", "safe", "bringup", "working"} =>
        CASE ended \in {"power", "dfu"} -> said = <<>>
          [] ended = "fault" -> said = <<"fault">>
          [] ended = "wire" -> said = <<"watchdog", "wire">>
          [] ended = "loop" -> said \in {<<"watchdog", "ok">>, <<"watchdog", "unset">>}

\* A box that has power, whatever its image, ends up where somebody can reach it instead of
\* starting for ever.
EndsUpReachable == []<>(stage # "off") => <>[](stage \in {"safe", "dfu", "working"})

\* A box of which a part has stopped resets itself.
WedgedIsReset == (stuck # "none") ~> (stuck = "none")

\* However its image, its faults and its power treat it, a box recovers: it
\* resets what is wedged, blames the right thing for it, does not run what
\* killed it again and ends up where it can be reached.
BoxRecovers == [](RiskIsNotRepeated /\ BlameIsRight) /\ WedgedIsReset /\ EndsUpReachable
=============================================================================
