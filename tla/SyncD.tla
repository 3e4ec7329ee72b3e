------------------------------- MODULE SyncD -------------------------------
(***************************************************************************)
(* The sync daemon of src/src/syncd.cc: one cycle at a time, told as a     *)
(* state machine on the event loop, with at most one step timer, one cycle *)
(* timer and completions that come back from the camera backend whenever   *)
(* it pleases.  Every handler runs to its end on the loop's thread, so a   *)
(* handler with everything it calls is one step here.                      *)
(*                                                                         *)
(* Handlers call each other (done_connect -> step_subscribe ->             *)
(* step_observe -> evaluate ...), so each is an operator on x, the part of *)
(* the state the caller has already updated (see World); the handler that  *)
(* ends the chain, Await or FinishCycle, assigns the primed variables.     *)
(***************************************************************************)
EXTENDS Naturals

CONSTANTS
    Cams,         \* the camera bodies in the room
    NoCam,        \* the empty camera id
    OptWant,      \* opt_.camera: the camera this daemon was configured for
    AskWants,     \* the cameras a request may name
    Hold,         \* opt_.hold: keep the camera connected between cycles
    TentacleBench,\* opt_.tentacle_bench: the boxes are the reference
    DryRun,       \* opt_.sync.dry_run
    HasClock,     \* wall_known(wall()): the host has a clock of its own
    MaxFailures,  \* opt_.sync.max_failures
    MaxAdapts     \* opt_.sync.max_adapts

\* A camera is asked for by its id, by (part of) its name, or not at all.
NoWant == [by |-> "any", cam |-> NoCam]
Want == [by : {"id", "name"}, cam : Cams] \cup {NoWant}

ASSUME SyncDAssumption ==
    /\ NoCam \notin Cams
    /\ OptWant \in Want
    /\ AskWants \subseteq Want
    /\ Hold \in BOOLEAN
    /\ TentacleBench \in BOOLEAN
    /\ DryRun \in BOOLEAN
    /\ HasClock \in BOOLEAN
    /\ MaxFailures \in Nat \ {0}
    /\ MaxAdapts \in Nat

VARIABLES
    started,   \* started_
    phase,     \* phase_
    step,      \* what step_timer_ will run, "none" when it is not armed
    next,      \* why cycle_timer_ is armed, "none" when it is not
    cur,       \* cur_, the cycle in flight or the last one
    pend,      \* pending_sync_, pending_force_, pending_source_, pending_camera_
    st,        \* state_: what the policy remembers between cycles
    missed,    \* misses_ > 0
    cam,       \* the backend: the connection and what the camera has said
    calls,     \* completions the backend still owes
    told,      \* told_date_
    backend    \* camera_ != nullptr

vars == <<started, phase, step, next, cur, pend, st, missed, cam, calls,
          told, backend>>

Phase == {"Stopped", "Idle", "Scanning", "Connecting", "Subscribing",
          "Observing", "SourceWrite", "Aligning", "Writing", "Verifying"}
Step == {"none", "connect", "scan", "subscribe", "observe", "source", "echo",
         "align", "write", "settle", "verify"}
NextLook == {"none", "now", "floor", "plan", "reacquire"}
Outcome == {"none", "skip:no-camera", "skip:no-date", "skip", "write", "source"}
Op == {"connect", "scan", "subscribe", "write", "source"}
Body == Cams \cup {NoCam}

\* A completion carries the number of the cycle that issued it; `live` says
\* that this number is still cur_.seq.  Two abandoned calls alike are one.
Call == [op : Op, cam : Body, live : BOOLEAN]

\* `live` is cur_.seq # 0, `auth` is the body whose permission evaluate()
\* read (state_.camera_id), `outcome` is report.action to its class, and `reported`
\* says that finish_cycle() has reported it.
Cycle == [live : BOOLEAN, forced : BOOLEAN, source : BOOLEAN, want : Want,
          tried : BOOLEAN, try : Body, looked : BOOLEAN, reached : BOOLEAN,
          error : BOOLEAN, may : BOOLEAN, auth : Body,
          outcome : Outcome, reported : BOOLEAN]

\* `obs`: there is a reading since the last write to compare the next with.
\* failures is counted to MaxFailures: decide() tells no larger values apart.
Memory == [id : Body, failures : 0..MaxFailures, adapts : 0..MaxAdapts,
           obs : BOOLEAN]

View == [id : Body, sub : BOOLEAN, tc : BOOLEAN,
         transport : {"unknown", "stopped", "record"}]

Pending == [sync : BOOLEAN, force : BOOLEAN, source : BOOLEAN, want : Want]

NoCycle == [live |-> FALSE, forced |-> FALSE, source |-> FALSE, want |-> NoWant,
            tried |-> FALSE, try |-> NoCam, looked |-> FALSE, reached |-> FALSE,
            error |-> FALSE, may |-> FALSE, auth |-> NoCam,
            outcome |-> "none", reported |-> FALSE]
NoRequest == [sync |-> FALSE, force |-> FALSE, source |-> FALSE, want |-> NoWant]

\* A connection just made: CameraView() and not subscribed.
Fresh(c) == [id |-> c, sub |-> FALSE, tc |-> FALSE, transport |-> "unknown"]

busy == phase \notin {"Idle", "Stopped"}
date_known == HasClock \/ told

\* The state a chain of handlers works on.
World == [cur : Cycle, pend : Pending, st : Memory, missed : BOOLEAN,
          cam : View, calls : SUBSET Call, next : NextLook]
Here == [cur |-> cur, pend |-> pend, st |-> st, missed |-> missed,
         cam |-> cam, calls |-> calls, next |-> next]

-----------------------------------------------------------------------------
(* How a handler ends: by waiting for something, or by ending the cycle.   *)

\* Assigns what the chain has built, and arms `k` as the only step timer.
Await(x, ph, k) ==
    /\ phase' = ph
    /\ step' = k
    /\ cur' = x.cur
    /\ pend' = x.pend
    /\ st' = x.st
    /\ missed' = x.missed
    /\ cam' = x.cam
    /\ calls' = x.calls
    /\ next' = x.next

\* Once the daemon knows the camera is gone nobody reads the view that is left
\* behind: a chain that reads one comes from a connection, which resets it.
Disconnected == Fresh(NoCam)

\* Until then what the camera has said stays to be read.
Lost(v) == [v EXCEPT !.id = NoCam, !.sub = FALSE]

\* A cycle that missed the camera schedules nothing.
NextReason_Forgotten(x) ==
    IF x.cur.reached /\ x.cur.error THEN "plan"
    ELSE IF x.cur.looked /\ ~x.cur.reached /\ x.missed THEN "none"
    ELSE "floor"

NextReason(x) ==
    IF x.cur.reached /\ x.cur.error THEN "plan"
    ELSE IF x.cur.looked /\ ~x.cur.reached /\ x.missed THEN "reacquire"
    ELSE "floor"

\* A request that arrived during the cycle gets its own cycle at once.
Rescheduled(x) ==
    IF x.pend.sync \/ x.pend.source THEN "now" ELSE NextReason(x)

\* cur_.seq is left as it was: completions of this cycle still count as live.
FinishCycle(x, outcome) ==
    /\ phase' = "Idle"
    /\ step' = "none"
    /\ cur' = [x.cur EXCEPT !.outcome = outcome, !.reported = TRUE]
    /\ pend' = x.pend
    /\ st' = x.st
    /\ missed' = x.missed
    /\ cam' = IF ~Hold THEN Disconnected ELSE x.cam
    /\ calls' = x.calls
    /\ next' = Rescheduled(x)

\* A camera call: the completion is tagged with the running cycle.  connect()
\* starts by disconnecting, which leaves nothing that can still touch the
\* camera but an older connect().
Issue(x, op, c) ==
    [x EXCEPT !.calls = {d \in @ : op = "connect" => d.op = "connect"}
                            \cup {[op |-> op, cam |-> c, live |-> TRUE]},
              !.cam = IF op = "connect" THEN Disconnected ELSE @]

Miss(x) == [x EXCEPT !.missed = TRUE]
Failed(x) ==
    [x EXCEPT !.st.failures = IF @ < MaxFailures THEN @ + 1 ELSE @]

-----------------------------------------------------------------------------
(* The policy of src/src/camsync.cc, to the outcomes the cycle tells apart. *)

forget_drift(s) == [s EXCEPT !.obs = FALSE, !.failures = 0, !.adapts = 0]

\* A jump larger than restart_step since the last reading is a power cycle.
Observe(s, jumped) ==
    [(IF jumped /\ s.obs THEN forget_drift(s) ELSE s) EXCEPT !.obs = TRUE]

\* decide(): the gates in their order.  `may`: cameras.conf allows writes;
\* `follows`: the timecode follows the clock; `off`: the error is outside the
\* tolerance; `early`: less than min_write_interval since the last write.
Decide(s, v, may, follows, off, early) ==
    IF ~may THEN "writes-disabled"
    ELSE IF v.transport = "record" THEN "recording"
    ELSE IF ~follows THEN "timecode-source"
    ELSE IF s.failures >= MaxFailures THEN "external"
    ELSE IF ~off THEN "in-tolerance"
    ELSE IF s.adapts = 0 /\ early THEN "rate-limited"
    ELSE IF DryRun THEN "dry-run"
    ELSE "write"

\* Which verdicts somebody asking by hand overrules.
gate_is_advisory(a) == a \in {"in-tolerance", "rate-limited", "external"}

Writes(x, action) ==
    action = "write" \/ (x.cur.forced /\ gate_is_advisory(action))

\* judge_write(): `good` is ok || improved.
JudgeWrite(s, good) ==
    LET t == [s EXCEPT !.obs = FALSE]
    IN  IF good THEN [t EXCEPT !.failures = 0, !.adapts = 0]
        ELSE IF s.adapts < MaxAdapts THEN [t EXCEPT !.adapts = @ + 1]
        ELSE [t EXCEPT !.adapts = 0,
                       !.failures = IF @ < MaxFailures THEN @ + 1 ELSE @]

-----------------------------------------------------------------------------
(* The steps of a cycle, last first.                                       *)

\* Mutant: the permission covers the clock only.
step_source_write_Ungated(x) ==
    Await(Issue(x, "source", x.cam.id), "SourceWrite", "source")

step_source_write(x) ==
    IF x.cur.may
    THEN Await(Issue(x, "source", x.cam.id), "SourceWrite", "source")
    ELSE FinishCycle(x, "skip")

step_align(x) == Await(x, "Aligning", "align")

\* What cameras.conf says of the bound camera, where its timecode comes from
\* and what the reading comes to are whatever they are at this moment.
Gated(x, may) == [x EXCEPT !.cur.may = may, !.cur.auth = x.st.id]
Measured(x, jumped) == [x EXCEPT !.st = Observe(@, jumped), !.cur.error = TRUE]
Verdicts(x) == {Decide(x.st, x.cam, x.cur.may, follows, off, early) :
                   follows, off, early \in BOOLEAN}

decided(x) ==
    \E action \in Verdicts(x) :
       IF Writes(x, action) THEN step_align(x) ELSE FinishCycle(x, "skip")

evaluate(x0) ==
    \E may, jumped \in BOOLEAN :
       LET x == Gated(x0, may)
       IN  IF x.cur.source THEN step_source_write(x)
           ELSE IF ~x.cam.tc THEN FinishCycle(x, "skip")
           ELSE decided(Measured(x, jumped))

\* `fresh`: the reading in the view is at most kMaxReadingAge old.
step_observe(x0, fresh) ==
    LET x == [x0 EXCEPT !.cur.reached = TRUE]
    IN  IF x.cur.source \/ (x.cam.tc /\ fresh /\ x.cam.transport # "unknown")
        THEN evaluate(x)
        ELSE Await(x, "Observing", "observe")

step_subscribe(x) ==
    IF x.cam.sub
    THEN \E fresh \in BOOLEAN : step_observe(x, fresh)
    ELSE Await(Issue(x, "subscribe", x.cam.id), "Subscribing", "subscribe")

connect_to(x, c) ==
    Await(Issue([x EXCEPT !.cur.try = c], "connect", c), "Connecting", "connect")

step_scan(x) ==
    Await(Issue([x EXCEPT !.cur.tried = TRUE], "scan", NoCam),
          "Scanning", "scan")

\* Mutant: no camera named is not taken for any camera.
bound_is_wanted_ById(x) ==
    x.st.id # NoCam /\ x.cur.want = [by |-> "id", cam |-> x.st.id]

bound_is_wanted(x) ==
    \/ x.cur.want.by = "any"
    \/ /\ x.st.id # NoCam
       /\ x.cur.want = [by |-> "id", cam |-> x.st.id]

\* `heard` is the camera the registry calls present, NoCam when there is none.
step_connect(x, heard) ==
    IF bound_is_wanted(x) /\ x.cam.id # NoCam /\ x.cam.sub
    THEN \E fresh \in BOOLEAN :
           step_observe([x EXCEPT !.missed = FALSE], fresh)
    ELSE IF bound_is_wanted(x) /\ x.st.id # NoCam THEN connect_to(x, x.st.id)
    ELSE IF x.cur.want.by = "any" /\ heard # NoCam THEN connect_to(x, heard)
    ELSE step_scan(x)

step_write(x) ==
    Await(Issue(x, "write", x.cam.id), "Writing", "write")

judge(x) ==
    IF ~x.cam.tc THEN FinishCycle(Failed(x), "write")
    ELSE \E good \in BOOLEAN :
           FinishCycle([x EXCEPT !.st = JudgeWrite(@, good)], "write")

\* Mutant: the wait for a reading after the write has no deadline.
step_verify_Forever(x) ==
    IF x.cam.tc THEN judge(x) ELSE Await(x, "Verifying", "none")

step_verify(x) ==
    IF x.cam.tc THEN judge(x) ELSE Await(x, "Verifying", "verify")

-----------------------------------------------------------------------------
(* Completions.                                                            *)

\* Mutant: the first camera stays the bound one.
Bind_First(s, c) == IF s.id = NoCam THEN [s EXCEPT !.id = c] ELSE s

\* Nothing measured about the last body's clock says anything about this one.
Bind(s, c) ==
    [(IF s.id # NoCam /\ s.id # c THEN forget_drift(s) ELSE s) EXCEPT !.id = c]

done_connect(x, ok) ==
    IF ok
    THEN step_subscribe([x EXCEPT !.st = Bind(@, x.cur.try), !.missed = FALSE])
    ELSE IF ~x.cur.tried THEN step_scan(x)
    ELSE FinishCycle(Miss(x), "skip:no-camera")

\* The scan reports what advertised: a connected camera does not.
Matches(want, c) == want.by = "any" \/ want.cam = c

on_scan(x, pick) ==
    IF pick = NoCam THEN FinishCycle(Miss(x), "skip:no-camera")
    ELSE connect_to(x, pick)

done_subscribe(x, ok) ==
    IF ok THEN \E fresh \in BOOLEAN : step_observe(x, fresh)
    ELSE FinishCycle(x, "skip")

done_source(x, ok) ==
    IF ok THEN Await(x, "SourceWrite", "echo") ELSE FinishCycle(x, "source")

done_write(x, ok) ==
    IF ok THEN Await([x EXCEPT !.cam.tc = FALSE], "Writing", "settle")
    ELSE FinishCycle(Failed(x), "write")

\* guard_done and current(): a completion of another cycle is dropped, after
\* the backend has done its part.
Answered(call, v) ==
    [Here EXCEPT !.calls = @ \ {call}, !.cam = v]

Drop(x) ==
    /\ cam' = x.cam
    /\ calls' = x.calls
    /\ UNCHANGED <<started, phase, step, next, cur, pend, st, missed>>

Current(call) == phase # "Stopped" /\ cur.live /\ call.live

env == <<told, backend>>

\* A radio has one initiator and a camera object one connection, so once one
\* connect() has come up any other under way is a connect to nobody.
Doomed(cs) ==
    {[d EXCEPT !.cam = IF d.op = "connect" THEN NoCam ELSE @] : d \in cs}

ConnectOk(call) ==
    [Here EXCEPT !.calls = Doomed(@ \ {call}), !.cam = Fresh(call.cam)]

\* One that fails in discovery disconnects whatever is connected by then.
AnswerConnect(call, ok) ==
    /\ call.op = "connect"
    /\ ok => call.cam # NoCam
    /\ \E x \in IF ok THEN {ConnectOk(call)}
               ELSE {Answered(call, v) : v \in {cam, Lost(cam)}} :
          IF Current(call) THEN done_connect(x, ok) /\ UNCHANGED started
          ELSE Drop(x)
    /\ UNCHANGED env

AnswerScan(call, pick) ==
    /\ call.op = "scan"
    /\ pick # NoCam => pick # cam.id /\ Matches(cur.want, pick)
    /\ IF Current(call) THEN on_scan(Answered(call, cam), pick) /\ UNCHANGED started
       ELSE Drop(Answered(call, cam))
    /\ UNCHANGED env

AnswerSubscribe(call, ok) ==
    /\ call.op = "subscribe"
    /\ ok => cam.id # NoCam /\ cam.id = call.cam
    /\ LET x == Answered(call, IF ok THEN [cam EXCEPT !.sub = TRUE] ELSE cam)
       IN  IF Current(call) THEN done_subscribe(x, ok) /\ UNCHANGED started
           ELSE Drop(x)
    /\ UNCHANGED env

AnswerControl(call, ok) ==
    /\ call.op \in {"write", "source"}
    /\ ok => cam.id # NoCam /\ cam.id = call.cam
    /\ LET x == Answered(call, cam)
       IN  IF ~Current(call) THEN Drop(x)
           ELSE /\ IF call.op = "write" THEN done_write(x, ok)
                   ELSE done_source(x, ok)
                /\ UNCHANGED started
    /\ UNCHANGED env

-----------------------------------------------------------------------------
(* The cycle timer and the step timer.                                     *)

\* Mutants: a source errand that is never taken off the list; a date nobody
\* checks.
Taken_KeepsSource(p) == [NoRequest EXCEPT !.source = p.source]
dateless_Unchecked == FALSE

Abandoned(cs) == {[c EXCEPT !.live = FALSE] : c \in cs}
Taken(p) == NoRequest
dateless == ~date_known

\* begin_cycle(): a new number, so every completion still out is another
\* cycle's.  It does not ask whether a cycle is running.
begin_cycle(benchOk, heard) ==
    LET x == [Here EXCEPT
                !.cur = [NoCycle EXCEPT
                           !.live = TRUE,
                           !.forced = pend.force,
                           !.source = pend.source,
                           !.want = IF pend.want = NoWant THEN OptWant
                                    ELSE pend.want],
                !.pend = Taken(@),
                !.calls = Abandoned(@),
                !.next = "none"]
    IN  IF TentacleBench /\ ~benchOk THEN FinishCycle(x, "skip")
        ELSE IF dateless THEN FinishCycle(x, "skip:no-date")
        ELSE IF ~backend THEN FinishCycle(x, "skip")
        ELSE step_connect([x EXCEPT !.cur.looked = TRUE], heard)

CycleTimer ==
    /\ started
    /\ next # "none"
    /\ \E benchOk \in BOOLEAN, heard \in Body : begin_cycle(benchOk, heard)
    /\ UNCHANGED started
    /\ UNCHANGED env

\* What each armed step does when its time comes.  The first three, "source"
\* and "write" are the backstops against a backend that never answers.
StepTimer ==
    /\ cur.live
    /\ CASE step \in {"connect", "scan"} ->
                FinishCycle(Miss(Here), "skip:no-camera")
         [] step = "subscribe" -> FinishCycle(Here, "skip")
         [] step = "observe" -> evaluate(Here)
         [] step \in {"source", "echo"} -> FinishCycle(Here, "source")
         [] step = "align" -> step_write(Here)
         [] step = "write" -> FinishCycle(Failed(Here), "write")
         [] step = "settle" -> step_verify(Here)
         [] step = "verify" -> judge(Here)
         [] OTHER -> FALSE
    /\ UNCHANGED started
    /\ UNCHANGED env

-----------------------------------------------------------------------------
(* The outside: the operator, the camera and the radio.                    *)

start ==
    /\ ~started
    /\ started' = TRUE
    /\ phase' = "Idle"
    /\ next' = "now"
    /\ UNCHANGED <<step, cur, pend, st, missed, cam, calls>>
    /\ UNCHANGED env

stop ==
    /\ started
    /\ started' = FALSE
    /\ phase' = "Stopped"
    /\ step' = "none"
    /\ next' = "none"
    /\ cur' = [cur EXCEPT !.live = FALSE]
    /\ calls' = Abandoned(calls)
    /\ cam' = Disconnected
    /\ UNCHANGED <<pend, st, missed>>
    /\ UNCHANGED env

Request(sync, force, source, want) ==
    /\ pend' = [sync |-> pend.sync \/ sync,
                force |-> pend.force \/ force,
                source |-> pend.source \/ source,
                want |-> IF want = NoWant THEN pend.want ELSE want]
    /\ next' = IF started /\ ~busy THEN "now" ELSE next
    /\ UNCHANGED <<started, phase, step, cur, st, missed, cam, calls>>
    /\ UNCHANGED env

request_sync(want, force) == Request(TRUE, force, FALSE, want)

request_source(want) == Request(FALSE, FALSE, TRUE, want)

\* The camera says something; the view handler runs with the view it makes.
on_view(v, fresh) ==
    LET x == [Here EXCEPT !.cam = v]
    IN  /\ cam.id # NoCam
        /\ IF phase = "Observing" /\ v.tc /\ fresh /\ v.transport # "unknown"
           THEN evaluate(x)
           ELSE IF phase = "Verifying" /\ v.tc THEN judge(x)
           ELSE /\ cam' = v
                /\ UNCHANGED <<phase, step, next, cur, pend, st, missed, calls>>
        /\ UNCHANGED started
        /\ UNCHANGED env

NotifyTimecode == on_view([cam EXCEPT !.tc = TRUE], TRUE)

NotifyTransport(t, fresh) == on_view([cam EXCEPT !.transport = t], fresh)

on_camera_gone ==
    LET x == [Here EXCEPT !.cam = Disconnected]
    IN  /\ cam.id # NoCam
        /\ IF busy THEN FinishCycle(Miss(x), "skip")
           ELSE /\ cam' = x.cam
                /\ UNCHANGED <<phase, step, next, cur, pend, st, missed, calls>>
        /\ UNCHANGED started
        /\ UNCHANGED env

\* An advertisement of a camera the daemon took to be away.
observe_camera ==
    /\ missed
    /\ missed' = FALSE
    /\ UNCHANGED <<started, phase, step, next, cur, pend, st, cam, calls>>
    /\ UNCHANGED env

\* A host without a clock is told the date.
SetDate ==
    /\ ~date_known
    /\ told' = TRUE
    /\ UNCHANGED <<started, phase, step, next, cur, pend, st, missed, cam, calls,
                   backend>>

-----------------------------------------------------------------------------
Init ==
    /\ started = FALSE
    /\ phase = "Stopped"
    /\ step = "none"
    /\ next = "none"
    /\ cur = NoCycle
    /\ pend = NoRequest
    /\ st \in [id : Body, failures : {0}, adapts : {0}, obs : {FALSE}]
    /\ missed = FALSE
    /\ cam = Fresh(NoCam)
    /\ calls = {}
    /\ told = FALSE
    /\ backend \in BOOLEAN

Answer ==
    \E call \in calls :
       \/ \E ok \in BOOLEAN : \/ AnswerConnect(call, ok)
                              \/ AnswerSubscribe(call, ok)
                              \/ AnswerControl(call, ok)
       \/ \E pick \in Body : AnswerScan(call, pick)

Camera ==
    \/ NotifyTimecode
    \/ \E t \in {"stopped", "record"}, fresh \in BOOLEAN :
          NotifyTransport(t, fresh)
    \/ on_camera_gone
    \/ observe_camera

Operator ==
    \/ start
    \/ stop
    \/ \E want \in AskWants :
          \/ \E force \in BOOLEAN : request_sync(want, force)
          \/ request_source(want)
    \/ SetDate

Next == CycleTimer \/ StepTimer \/ Answer \/ Camera \/ Operator

\* The loop runs a timer that is due; nothing makes the backend, the camera
\* or the operator do anything.
Fairness == WF_vars(CycleTimer) /\ WF_vars(StepTimer)

Spec == Init /\ [][Next]_vars /\ Fairness

-----------------------------------------------------------------------------
(* Properties.                                                             *)

\* Every variable holds what its declaration in syncd.h allows.
TypeOK ==
    /\ started \in BOOLEAN
    /\ phase \in Phase
    /\ step \in Step
    /\ next \in NextLook
    /\ cur \in Cycle
    /\ pend \in Pending
    /\ st \in Memory
    /\ missed \in BOOLEAN
    /\ cam \in View
    /\ calls \subseteq Call
    /\ told \in BOOLEAN
    /\ backend \in BOOLEAN

\* The phase each armed step belongs to.
PhaseOf == [connect |-> "Connecting", scan |-> "Scanning",
            subscribe |-> "Subscribing", observe |-> "Observing",
            source |-> "SourceWrite", echo |-> "SourceWrite",
            align |-> "Aligning", write |-> "Writing", settle |-> "Writing",
            verify |-> "Verifying"]

\* "A cycle that gives up early cannot leave the daemon without a next cycle"
\* (syncd.h): an idle daemon has its cycle timer armed, a busy one the step
\* timer of exactly the phase it is in, and a stopped one nothing at all,
\* whatever was abandoned, answered late or asked for on the way.
NeverWedged ==
    /\ started <=> phase # "Stopped"
    /\ phase = "Stopped" => step = "none" /\ next = "none"
    /\ phase = "Idle" => step = "none" /\ next # "none"
    /\ busy => cur.live /\ step # "none" /\ PhaseOf[step] = phase

\* A request that arrives while the daemon cannot act on it is looked at as
\* soon as it can (request_sync, finish_cycle): an idle daemon with a request
\* waiting is about to look now, not at the end of the poll interval.
NoIdleRequest ==
    phase = "Idle" /\ (pend.sync \/ pend.source) => next = "now"

\* The step of a backstop and the call it guards against.
Guarded == {"connect", "scan", "subscribe", "write", "source"}
Live == {c \in calls : c.live}

\* "A state machine waiting on two things at once is one that will be advanced
\* twice" (arm_step): the running cycle never owes itself two completions, and
\* while it waits for one the timer armed is that call's own backstop, so no
\* completion can cancel a timer it does not belong to.
OneThingAtATime ==
    /\ \A c, d \in Live : c = d
    /\ busy => \A c \in Live : step = c.op
    /\ busy /\ step \in Guarded => \E c \in Live : c.op = step

\* arm_step, schedule_cycle, request_sync and finish_cycle together: whatever
\* is abandoned, answered late or asked for, the daemon goes on from exactly
\* one thing, which is armed and is the right one.
SchedulingIsSound == NeverWedged /\ NoIdleRequest /\ OneThingAtATime

\* From the subscription to the verdict the daemon talks to the body it is
\* bound to (done_connect binds, then everything reads state_.camera_id): a
\* connection some abandoned cycle asked for cannot come up under it.
TalksToBoundBody ==
    phase \in {"Subscribing", "Observing", "SourceWrite", "Aligning",
               "Writing", "Verifying"} => cam.id \in {NoCam, st.id}

\* A control write the running cycle owes was issued to the body evaluate()
\* read the permission of, with permission, in that cycle: "writes are
\* disabled" covers clock and timecode source both (evaluate).
WritesArePermitted ==
    \A c \in Live : c.op \in {"write", "source"} /\ c.cam # NoCam =>
        cur.may /\ c.cam = cur.auth /\ cur.source = (c.op = "source")

\* A clock write is dated by somebody who knows the date (begin_cycle's check,
\* made once and relied on by step_write seconds later).
WritesAreDated ==
    phase \in {"Aligning", "Writing", "Verifying"} => HasClock \/ told

\* A cycle that gives up for want of a camera does not do so while the daemon
\* holds a subscribed connection to a camera the cycle would have taken
\* (step_connect: "this is what holding buys"), except one asked for by name,
\* which "has to be looked for".
HeldCameraIsUsed ==
    phase = "Idle" /\ cur.outcome = "skip:no-camera" /\ cam.sub
        => cur.want.by = "name" \/ ~Matches(cur.want, cam.id)

\* Every cycle ends, however little the backend answers (connect_to: "a
\* backend that never answers must not wedge the daemon").
CyclesEnd == busy ~> ~busy

\* A request is taken up by a cycle unless the daemon is stopped.
RequestsAreTaken ==
    /\ pend.sync ~> ~pend.sync \/ ~started
    /\ pend.source ~> ~pend.source \/ ~started
=============================================================================
