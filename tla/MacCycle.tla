------------------------------ MODULE MacCycle ------------------------------
(***************************************************************************)
(* The Mac's sync program: run_cycle() and what it calls in                *)
(* src/src/octomancer-sync.cc, one blocking call after another on the main *)
(* thread, over the link of MacCamera.  Control has the main loop around   *)
(* it and CamSync the arithmetic; here is which body each step is about.   *)
(*                                                                         *)
(* A figure is represented by the bodies it was measured on.  What decide()*)
(* makes of an error is any of its answers the permission allows.          *)
(***************************************************************************)
EXTENDS MacCamera

CONSTANTS
    Wants,   \* what cycles are asked for: AnyBody, or [cam, by], by id or by name
    AnyBody

ASSUME MacCycleAssumption == AnyBody \in Wants

VARIABLES
    mpc,      \* where the cycle is
    want,     \* target_camera
    pick,     \* the body a scan turned up
    bound,    \* state.camera_id
    obs,      \* on whose clock the drift baselines stand
    from,     \* on whom the bias and the lead were learnt last
    known,    \* what the camera database has of each body, and learnt on whom
    mode,     \* opt.mode: the daemon's loop, or one of the probes
    hold,     \* opt.hold, on unless --no-hold
    may       \* the bodies whose writes are enabled

cycleVars == <<mpc, want, pick, bound, obs, from, known, mode, hold, may>>
macVars == <<linkVars, cycleVars>>

Matches(w, c) == w # AnyBody => w.cam = c

\* An id that is already what the program is bound to; a name never is.
bound_is_wanted(w) ==
    w # AnyBody => bound # Nobody /\ w.by = "id" /\ w.cam = bound

Unknown == "unknown"
Seen == "seen"         \* note_seen() only

-----------------------------------------------------------------------------
(* connect_camera().                                                       *)

\* The bench has been read; without one nothing is looked for and nothing of
\* this changes.  A held connection is used; a body that is known is tried first; anything
\* else is scanned for.
Begin(w) ==
    /\ mpc = "idle" /\ mode # "scan"
    /\ want' = w
    /\ IF bound_is_wanted(w) /\ subscribed
       THEN mpc' = "await" /\ UNCHANGED linkVars
       ELSE IF bound_is_wanted(w) /\ bound # Nobody
       THEN mpc' = "direct" /\ connect(bound) /\ UNCHANGED <<finding, telling>>
       ELSE mpc' = "scan" /\ UNCHANGED linkVars
    /\ UNCHANGED <<pick, bound, obs, from, known, mode, hold, may>>

Direct ==
    /\ mpc = "direct"
    /\ \/ ConnectOk /\ mpc' = "subscribe"
       \/ ConnectFailed /\ mpc' = "scan"
    /\ UNCHANGED <<finding, telling, want, pick, bound, obs, from, known, mode, hold, may>>

\* A probe ends where a cycle does.
Ended == mpc' = IF mode = "loop" THEN "idle" ELSE "exit"

NotFound ==
    /\ Ended
    /\ pick' = Nobody

Scan ==
    /\ mpc = "scan"
    /\ \/ NotFound /\ UNCHANGED <<phy, lk>>
       \/ \E c \in Advertising({d \in Bodies : Matches(want, d)}) :
             /\ connect(c)
             /\ pick' = c /\ mpc' = "dial"
    /\ UNCHANGED <<finding, telling, want, bound, obs, from, known, mode, hold, may>>

\* The probes that only look have no database.
KeepsNotes == mode \in {"loop", "rtc"}

\* seed_from_db(): what the database has replaces what the state has, one
\* figure at a time; a body it has never seen replaces nothing.
seed_from_db(c) == IF known[c] \in {Unknown, Seen} THEN {from} ELSE {known[c], from}

\* Mutant: the baselines are kept across a change of body.
BindTo_Kept(c) ==
    /\ bound' = c
    /\ obs' = obs
    /\ IF bound = c \/ ~KeepsNotes THEN UNCHANGED <<from, known>>
       ELSE /\ from' \in seed_from_db(c)
            /\ known' = [known EXCEPT ![c] = IF @ = Unknown THEN Seen ELSE @]

\* A different body: forget_drift(), which leaves the bias and the lead.
BindTo(c) ==
    /\ bound' = c
    /\ obs' = IF bound # Nobody /\ bound # c THEN Nobody ELSE obs
    /\ IF bound = c \/ ~KeepsNotes THEN UNCHANGED <<from, known>>
       ELSE /\ from' \in seed_from_db(c)
            /\ known' = [known EXCEPT ![c] = IF @ = Unknown THEN Seen ELSE @]

Dial ==
    /\ mpc = "dial"
    /\ \/ ConnectOk /\ BindTo(pick) /\ pick' = Nobody /\ mpc' = "subscribe"
       \/ ConnectFailed /\ NotFound /\ UNCHANGED <<bound, obs, from, known>>
    /\ UNCHANGED <<finding, telling, want, mode, hold, may>>

-----------------------------------------------------------------------------
(* run_cycle() once there is a connection.                                 *)

\* release(), and the cycle is over; a probe lets go in any case.
Over ==
    /\ Ended
    /\ IF hold /\ mode = "loop" THEN UNCHANGED <<phy, lk>> ELSE disconnect

Subscribe ==
    /\ mpc = "subscribe"
    /\ IF subscribed THEN mpc' = "await" /\ UNCHANGED finding
       ELSE mpc' = "subscribing" /\ discover
    /\ UNCHANGED <<phy, lk, telling, want, pick, bound, obs, from, known, mode, hold, may>>

\* subscribe() returns; without the outgoing characteristic the cycle ends.
Subscribed ==
    /\ mpc = "subscribing"
    /\ IF lk.out \/ mode = "pair" THEN mpc' = "await" /\ UNCHANGED <<phy, lk>> ELSE Over
    /\ UNCHANGED <<finding, telling, want, pick, bound, obs, from, known, mode, hold, may>>

\* The errand that sets the timecode source, refused if writes are disabled.
AwaitSource ==
    /\ mpc = "await" /\ mode = "loop"
    /\ IF bound \in may THEN mpc' = "source" /\ UNCHANGED <<phy, lk>> ELSE Over
    /\ UNCHANGED <<finding, telling, want, pick, bound, obs, from, known, mode, hold, may>>

\* Its write, which is believed only if the camera says so afterwards.
WriteSource ==
    /\ mpc = "source"
    /\ Over
    /\ UNCHANGED <<finding, telling, want, pick, bound, obs, from, known, mode, hold, may>>

\* conf.writes_enabled(state->camera_id); the default is off.
Permitted == bound \in may

\* What await_state() came back with is measured against the bench, observe()
\* moves the baselines to it, and decide() writes or does not.
Measure ==
    /\ mpc = "await" /\ mode = "loop"
    /\ obs' = IF lk.tc = Nobody THEN obs ELSE lk.tc
    /\ \/ Over
       \/ lk.tc # Nobody /\ Permitted /\ mpc' = "write" /\ UNCHANGED <<phy, lk>>
    /\ UNCHANGED <<finding, telling, want, pick, bound, from, known, mode, hold, may>>

\* aligned_write(), then forget_timecode().
Write ==
    /\ mpc = "write"
    /\ \/ Over
       \/ /\ Reaches
          /\ lk' = forget_timecode /\ UNCHANGED phy
          /\ mpc' = "verify"
    /\ UNCHANGED <<finding, telling, want, pick, bound, obs, from, known, mode, hold, may>>

\* judge_write(), which may move the bias; then the sample is recorded, the
\* lead taken from the body's own samples if there are enough of them, and
\* both are put down as this body's.
Verify ==
    /\ mpc = "verify"
    /\ IF lk.tc = Nobody THEN UNCHANGED <<obs, from, known>>
       ELSE /\ obs' = lk.tc
            /\ from' \in {from, lk.tc}
            /\ known' = IF bound = Nobody THEN known ELSE [known EXCEPT ![bound] = from']
    /\ Over
    /\ UNCHANGED <<finding, telling, want, pick, bound, mode, hold, may>>

-----------------------------------------------------------------------------
(* The probes, which make the same connection.                             *)

AfterProbe == UNCHANGED <<finding, telling, want, pick, bound, obs, from, known, mode, hold, may>>

mode_scan_only ==
    /\ mpc = "idle" /\ mode = "scan"
    /\ mpc' = "exit"
    /\ UNCHANGED <<phy, lk>> /\ AfterProbe

\* It goes on though it could not subscribe: read_status() is what asks the
\* camera to pair.
mode_pair ==
    /\ mpc = "await" /\ mode = "pair"
    /\ Over /\ AfterProbe

mode_watch ==
    /\ mpc = "await" /\ mode = "watch"
    /\ Over /\ AfterProbe

\* Refused while the camera records; otherwise one packet after another.
mode_poke ==
    /\ mode = "poke" /\ mpc \in {"await", "poke"}
    /\ \/ mpc' = "poke" /\ UNCHANGED <<phy, lk>>
       \/ Over
    /\ AfterProbe

\* A clock an hour slow, if there is a timecode to see it by.
mode_rtc_test ==
    /\ mode = "rtc" /\ mpc \in {"await", "rtc"}
    /\ \/ /\ mpc = "await" /\ lk.tc # Nobody /\ Reaches
          /\ lk' = forget_timecode /\ mpc' = "rtc" /\ UNCHANGED phy
       \/ Over
    /\ AfterProbe

-----------------------------------------------------------------------------
(* The main loop between cycles.                                           *)

\* The camera came up: forget_drift().
CameUp ==
    /\ mpc = "idle" /\ mode = "loop" /\ obs # Nobody
    /\ obs' = Nobody
    /\ UNCHANGED <<linkVars, mpc, want, pick, bound, from, known, mode, hold, may>>

\* A body is removed; the state goes with it if it is the one it is about,
\* the connection does not.
RemoveBody(c) ==
    /\ mpc = "idle" /\ mode = "loop" /\ known[c] # Unknown
    /\ known' = [known EXCEPT ![c] = Unknown]
    /\ may' = may \ {c}
    /\ IF bound = c
       THEN bound' = Nobody /\ obs' = Nobody /\ from' = Nobody
       ELSE UNCHANGED <<bound, obs, from>>
    /\ UNCHANGED <<linkVars, mpc, want, pick, mode, hold>>

\* The configuration is edited and reloaded.
Permit(c) ==
    /\ mpc = "idle" /\ mode = "loop" /\ c \notin may
    /\ may' = may \cup {c}
    /\ UNCHANGED <<linkVars, mpc, want, pick, bound, obs, from, known, mode, hold>>

CycleInit ==
    /\ LinkInit
    /\ mpc = "idle" /\ want = AnyBody /\ pick = Nobody /\ bound = Nobody
    /\ obs = Nobody /\ from = Nobody
    /\ known = [c \in Bodies |-> Unknown]
    /\ mode \in {"loop", "scan", "pair", "watch", "poke", "rtc"}
    /\ hold \in BOOLEAN
    /\ may = {}

CycleNext ==
    \/ \E w \in Wants : Begin(w)
    \/ Direct
    \/ Scan
    \/ Dial
    \/ Subscribe
    \/ Subscribed
    \/ AwaitSource
    \/ WriteSource
    \/ Measure
    \/ Write
    \/ Verify
    \/ mode_scan_only
    \/ mode_pair
    \/ mode_watch
    \/ mode_poke
    \/ mode_rtc_test
    \/ CameUp
    \/ \E c \in Bodies : RemoveBody(c) \/ Permit(c)
    \/ (\E c \in Bodies : Callback(c)) /\ UNCHANGED cycleVars

-----------------------------------------------------------------------------
(* Properties.                                                             *)

\* connect_camera: "A different body. Nothing measured about the last one's
\* clock says anything about this one's": with --no-hold, the baselines a
\* decision is made on stand on the clock of the body the program is bound to.
MacMeasuresBound == ~hold /\ bound # Nobody => obs \in {bound, Nobody}

\* run_cycle: "'Writes are disabled' has to cover the timecode source as well
\* as the clock": whatever happened to the connection since the permission was
\* read, the body a write would reach is one whose writes are enabled.
MacWritesWherePermitted == mpc \in {"source", "write"} /\ Reaches => lk.per \in may

\* The two together: whichever body CoreBluetooth's callbacks are about, what
\* the program decides on and what it writes to are those of the body it is
\* bound to, and of one it may write to.
MacActsOnItsBody == MacMeasuresBound /\ MacWritesWherePermitted
=============================================================================
