---------------------------- MODULE SyncD_proofs ----------------------------
(***************************************************************************)
(* Proofs about the sync daemon, for any set of cameras, any options and   *)
(* any number of failures and adjustments.                                 *)
(*                                                                         *)
(* A step of SyncD is a chain of handlers on x, the state built so far, so *)
(* the argument follows the chain: Await and FinishCycle establish the     *)
(* invariant from what they are given, and every handler hands on a world  *)
(* that is Ready (no completion of this cycle is owed) until it waits.     *)
(* The same chains are followed twice: once for what is armed and owed     *)
(* (IInv), once for which body it is all about (BodyInv).                  *)
(***************************************************************************)
EXTENDS SyncD, TLAPS

\* The inductive invariant.
IInv == TypeOK /\ NeverWedged /\ NoIdleRequest /\ OneThingAtATime

\* A world in which the running cycle owes itself at most one completion.
Whole(x) ==
    /\ x \in World
    /\ x.cur.live
    /\ \A c, d \in x.calls : c.live /\ d.live => c = d

\* A world in which it owes itself none.
Ready(x) ==
    /\ x \in World
    /\ x.cur.live
    /\ \A c \in x.calls : ~c.live

\* What a handler leaves alone.
Aside == started = TRUE /\ started' = started /\ env' = env
         /\ told \in BOOLEAN /\ backend \in BOOLEAN

-----------------------------------------------------------------------------
\* Owing none is owing at most one.
LEMMA ReadyIsWhole == ASSUME NEW x, Ready(x) PROVE Whole(x)
BY DEF Ready, Whole

\* Any end of a cycle leaves an idle daemon with its next look scheduled.
LEMMA FinishInv ==
    ASSUME NEW x, NEW o \in Outcome, Whole(x), Aside, FinishCycle(x, o)
    PROVE  IInv'
<1>1. TypeOK'
  <2>1. cur' \in Cycle
    BY DEF FinishCycle, Whole, World, Cycle
  <2>2. next' \in NextLook
    BY DEF FinishCycle, Rescheduled, NextReason, NextLook
  <2>3. cam' \in View
    BY DEF FinishCycle, Whole, World, Disconnected, Fresh, View, Body
  <2> QED
    BY <2>1, <2>2, <2>3 DEF FinishCycle, Whole, World, TypeOK, Aside, env, Phase, Step
<1>2. next' # "none"
  BY DEF FinishCycle, Rescheduled, NextReason
<1>3. NeverWedged'
  BY <1>2 DEF NeverWedged, FinishCycle, Aside, busy
<1>4. NoIdleRequest'
  BY DEF NoIdleRequest, FinishCycle, Rescheduled
<1>5. OneThingAtATime'
  BY DEF OneThingAtATime, Live, FinishCycle, Whole, busy
<1> QED BY <1>1, <1>3, <1>4, <1>5 DEF IInv

\* Waiting with a step of its own phase and nothing owed.
LEMMA AwaitInv ==
    ASSUME NEW x, NEW k \in {"observe", "echo", "align", "settle", "verify"},
           Ready(x), Aside, Await(x, PhaseOf[k], k)
    PROVE  IInv'
<1>0. PhaseOf[k] \in Phase \ {"Stopped", "Idle"}
  BY DEF PhaseOf, Phase
<1>1. TypeOK'
  BY <1>0 DEF Await, Ready, World, TypeOK, Aside, env, Step
<1>2. NeverWedged'
  BY <1>0 DEF NeverWedged, Await, Aside, busy, Ready
<1>3. NoIdleRequest'
  BY <1>0 DEF NoIdleRequest, Await
<1>4. OneThingAtATime'
  BY DEF OneThingAtATime, Live, Await, Ready, Guarded
<1> QED BY <1>1, <1>2, <1>3, <1>4 DEF IInv

\* A call made with nothing owed: the completion and its backstop agree.
LEMMA CallInv ==
    ASSUME NEW x, NEW op \in Op, NEW c \in Body, Ready(x), Aside,
           Await(Issue(x, op, c), PhaseOf[op], op)
    PROVE  IInv'
<1> DEFINE y == Issue(x, op, c)
<1>0. /\ PhaseOf[op] \in Phase \ {"Stopped", "Idle"}
      /\ op \in Step \ {"none"}
      /\ op \in Guarded
  BY DEF PhaseOf, Phase, Op, Step, Guarded
<1>1. /\ y \in World
      /\ y.cur = x.cur
      /\ [op |-> op, cam |-> c, live |-> TRUE] \in y.calls
      /\ \A d \in y.calls : d.live => d = [op |-> op, cam |-> c, live |-> TRUE]
  <2>1. [op |-> op, cam |-> c, live |-> TRUE] \in Call
    BY DEF Call
  <2>2. Disconnected \in View
    BY DEF Disconnected, Fresh, View, Body
  <2>3. x \in World /\ x.calls \in SUBSET Call /\ \A d \in x.calls : ~d.live
    BY DEF Ready, World
  <2> DEFINE cs == {d \in x.calls : op = "connect" => d.op = "connect"}
                      \cup {[op |-> op, cam |-> c, live |-> TRUE]}
             v == IF op = "connect" THEN Disconnected ELSE x.cam
  <2>4. y = [x EXCEPT !.calls = cs, !.cam = v]
    BY DEF Issue
  <2>5. cs \in SUBSET Call
    BY <2>1, <2>3
  <2>6. v \in View
    BY <2>2, <2>3 DEF World
  <2>7. /\ [op |-> op, cam |-> c, live |-> TRUE] \in cs
        /\ \A d \in cs : d.live => d = [op |-> op, cam |-> c, live |-> TRUE]
    BY <2>3
  <2> HIDE DEF cs, v, y
  <2> QED BY <2>3, <2>4, <2>5, <2>6, <2>7 DEF World
<1> HIDE DEF y
<1>2. Await(y, PhaseOf[op], op)
  BY DEF y
<1>3. TypeOK'
  BY <1>0, <1>1, <1>2 DEF Await, World, TypeOK, Aside, env
<1>4. NeverWedged'
  BY <1>0, <1>1, <1>2 DEF NeverWedged, Await, Aside, busy, Ready
<1>5. NoIdleRequest'
  BY <1>0, <1>2 DEF NoIdleRequest, Await
<1>6. OneThingAtATime'
  <2> DEFINE call == [op |-> op, cam |-> c, live |-> TRUE]
  <2>1. call.op = op /\ call.live
    OBVIOUS
  <2>2. /\ call \in calls'
        /\ \A d \in calls' : d.live => d = call
        /\ step' = op
    BY <1>1, <1>2 DEF Await
  <2> HIDE DEF call
  <2>3. Live' = {call}
    BY <2>1, <2>2 DEF Live
  <2> QED BY <2>1, <2>2, <2>3 DEF OneThingAtATime
<1> QED BY <1>3, <1>4, <1>5, <1>6 DEF IInv

-----------------------------------------------------------------------------
(* The policy keeps the memory in its type.                                *)

\* forget_drift() leaves a memory of the right type.
LEMMA ForgetType == ASSUME NEW s \in Memory PROVE forget_drift(s) \in Memory
<1>1. 0 \in 0..MaxFailures /\ 0 \in 0..MaxAdapts
  BY SyncDAssumption
<1> QED BY <1>1 DEF forget_drift, Memory

\* observe() returns a memory of the right type, whatever was read.
LEMMA ObserveType ==
    ASSUME NEW s \in Memory, NEW j \in BOOLEAN PROVE Observe(s, j) \in Memory
BY ForgetType DEF Observe, Memory

\* Binding to a body, the same or another, returns a memory of the right type.
LEMMA BindType ==
    ASSUME NEW s \in Memory, NEW c \in Body PROVE Bind(s, c) \in Memory
BY ForgetType DEF Bind, Memory

\* judge_write() returns a memory of the right type.
LEMMA JudgeType ==
    ASSUME NEW s \in Memory, NEW good \in BOOLEAN
    PROVE  JudgeWrite(s, good) \in Memory
<1> DEFINE f == IF s.failures < MaxFailures THEN s.failures + 1 ELSE s.failures
<1>1. /\ 0 \in 0..MaxFailures
      /\ 0 \in 0..MaxAdapts
      /\ f \in 0..MaxFailures
      /\ s.adapts < MaxAdapts => s.adapts + 1 \in 0..MaxAdapts
  BY SyncDAssumption DEF Memory
<1>2. /\ good => JudgeWrite(s, good)
                   = [s EXCEPT !.obs = FALSE, !.failures = 0, !.adapts = 0]
      /\ ~good /\ s.adapts < MaxAdapts =>
            JudgeWrite(s, good) = [s EXCEPT !.obs = FALSE, !.adapts = s.adapts + 1]
      /\ ~good /\ ~(s.adapts < MaxAdapts) =>
            JudgeWrite(s, good) = [s EXCEPT !.obs = FALSE, !.adapts = 0, !.failures = f]
  BY DEF JudgeWrite, Memory
<1> HIDE DEF f
<1> QED BY <1>1, <1>2 DEF Memory

\* A cycle marked as failed is still ready to end.
LEMMA FailedReady == ASSUME NEW x, Ready(x) PROVE Ready(Failed(x))
BY SyncDAssumption DEF Failed, Ready, World, Memory

\* A cycle marked as failed is still whole.
LEMMA FailedWhole == ASSUME NEW x, Whole(x) PROVE Whole(Failed(x))
BY SyncDAssumption DEF Failed, Whole, World, Memory

\* A cycle that missed the camera is still whole.
LEMMA MissWhole == ASSUME NEW x, Whole(x) PROVE Whole(Miss(x))
BY DEF Miss, Whole, World

\* Remembering what was learnt of the body leaves the cycle ready.
LEMMA RememberReady ==
    ASSUME NEW x, NEW s \in Memory, Ready(x) PROVE Ready([x EXCEPT !.st = s])
BY DEF Ready, World

\* The cycle begin_cycle() starts from is ready for its first step.
LEMMA CycleReady ==
    ASSUME NEW x, NEW c \in Cycle, Ready(x), c.live
    PROVE  Ready([x EXCEPT !.cur = c])
BY DEF Ready, World

-----------------------------------------------------------------------------
(* The handlers, in the order of the module.                               *)

\* Sending the timecode-source command keeps the invariant.
LEMMA SourceWriteInv ==
    ASSUME NEW x, Ready(x), Aside, step_source_write(x) PROVE IInv'
<1>1. CASE x.cur.may
  <2>1. x.cam.id \in Body
    BY DEF Ready, World, View
  <2>2. "source" \in Op /\ PhaseOf["source"] = "SourceWrite"
    BY DEF Op, PhaseOf
  <2> QED BY <1>1, <2>1, <2>2, CallInv DEF step_source_write
<1>2. CASE ~x.cur.may
  <2>1. "skip" \in Outcome
    BY DEF Outcome
  <2> QED BY <1>2, <2>1, ReadyIsWhole, FinishInv DEF step_source_write
<1> QED BY <1>1, <1>2

\* evaluate(), through each of its verdicts, keeps the invariant.
LEMMA EvaluateInv ==
    ASSUME NEW x0, Ready(x0), Aside, evaluate(x0) PROVE IInv'
<1>1. PICK may, jumped \in BOOLEAN :
        IF Gated(x0, may).cur.source THEN step_source_write(Gated(x0, may))
        ELSE IF ~Gated(x0, may).cam.tc THEN FinishCycle(Gated(x0, may), "skip")
        ELSE decided(Measured(Gated(x0, may), jumped))
  BY DEF evaluate
<1>2. Ready(Gated(x0, may))
  <2> DEFINE c == [x0.cur EXCEPT !.may = may, !.auth = x0.st.id]
  <2>1. x0.cur \in Cycle /\ x0.cur.live /\ x0.st.id \in Body
    BY DEF Ready, World, Memory
  <2>2. c \in Cycle /\ c.live
    BY <2>1 DEF Cycle
  <2>3. Gated(x0, may) = [x0 EXCEPT !.cur = c]
    BY <2>1 DEF Gated, Ready, World, Cycle
  <2> HIDE DEF c
  <2> QED BY <2>2, <2>3, CycleReady
<1> DEFINE x == Gated(x0, may)
           y == Measured(x, jumped)
<1> HIDE DEF x
<1>3. Ready(y)
  <2> DEFINE c == [x.cur EXCEPT !.error = TRUE]
             s == Observe(x.st, jumped)
  <2>0. Ready(x)
    BY <1>2 DEF x
  <2>1. c \in Cycle /\ c.live
    BY <2>0 DEF Ready, World, Cycle
  <2>2. s \in Memory
    BY <2>0, ObserveType DEF Ready, World
  <2>3. y = [[x EXCEPT !.st = s] EXCEPT !.cur = c]
    BY <2>0 DEF Measured, Ready, World
  <2> HIDE DEF c, s, y
  <2> QED BY <2>0, <2>1, <2>2, <2>3, CycleReady, RememberReady
<1>4. IF x.cur.source THEN step_source_write(x)
      ELSE IF ~x.cam.tc THEN FinishCycle(x, "skip")
      ELSE decided(y)
  BY <1>1 DEF x
<1>5. "skip" \in Outcome /\ PhaseOf["align"] = "Aligning"
  BY DEF Outcome, PhaseOf
<1> HIDE DEF y
<1>6. decided(y) => step_align(y) \/ FinishCycle(y, "skip")
  BY DEF decided
<1>7. step_align(y) => IInv'
  BY <1>3, <1>5, AwaitInv DEF step_align
<1>8. FinishCycle(y, "skip") => IInv'
  BY <1>3, <1>5, ReadyIsWhole, FinishInv
<1>9. Ready(x)
  BY <1>2 DEF x
<1> QED BY <1>4, <1>5, <1>6, <1>7, <1>8, <1>9, SourceWriteInv, ReadyIsWhole, FinishInv

\* step_observe() keeps the invariant, with or without a reading.
LEMMA ObserveInv ==
    ASSUME NEW x0, NEW fresh, Ready(x0), Aside, step_observe(x0, fresh)
    PROVE  IInv'
<1> DEFINE x == [x0 EXCEPT !.cur.reached = TRUE]
<1>1. Ready(x)
  <2> DEFINE c == [x0.cur EXCEPT !.reached = TRUE]
  <2>1. c \in Cycle /\ c.live
    BY DEF Ready, World, Cycle
  <2>2. x = [x0 EXCEPT !.cur = c]
    BY DEF Ready, World
  <2> HIDE DEF c, x
  <2> QED BY <2>1, <2>2, CycleReady
<1>2. evaluate(x) \/ Await(x, "Observing", "observe")
  BY DEF step_observe
<1>3. PhaseOf["observe"] = "Observing"
  BY DEF PhaseOf
<1> HIDE DEF x
<1> QED BY <1>1, <1>2, <1>3, EvaluateInv, AwaitInv

\* step_subscribe() keeps the invariant.
LEMMA SubscribeInv ==
    ASSUME NEW x, Ready(x), Aside, step_subscribe(x) PROVE IInv'
<1>1. x.cam.id \in Body
  BY DEF Ready, World, View
<1>2. "subscribe" \in Op /\ PhaseOf["subscribe"] = "Subscribing"
  BY DEF Op, PhaseOf
<1> QED BY <1>1, <1>2, ObserveInv, CallInv DEF step_subscribe

\* Asking for the connection to one peer keeps the invariant.
LEMMA ConnectToInv ==
    ASSUME NEW x, NEW c \in Body, Ready(x), Aside, connect_to(x, c) PROVE IInv'
<1> DEFINE y == [x EXCEPT !.cur.try = c]
<1>1. Ready(y)
  <2> DEFINE d == [x.cur EXCEPT !.try = c]
  <2>1. d \in Cycle /\ d.live
    BY DEF Ready, World, Cycle
  <2>2. y = [x EXCEPT !.cur = d]
    BY DEF Ready, World
  <2> HIDE DEF d, y
  <2> QED BY <2>1, <2>2, CycleReady
<1>2. "connect" \in Op /\ PhaseOf["connect"] = "Connecting"
  BY DEF Op, PhaseOf
<1>3. Await(Issue(y, "connect", c), "Connecting", "connect")
  BY DEF connect_to
<1> HIDE DEF y
<1> QED BY <1>1, <1>2, <1>3, CallInv

\* step_scan() keeps the invariant.
LEMMA ScanInv == ASSUME NEW x, Ready(x), Aside, step_scan(x) PROVE IInv'
<1> DEFINE y == [x EXCEPT !.cur.tried = TRUE]
<1>1. Ready(y)
  <2> DEFINE d == [x.cur EXCEPT !.tried = TRUE]
  <2>1. d \in Cycle /\ d.live
    BY DEF Ready, World, Cycle
  <2>2. y = [x EXCEPT !.cur = d]
    BY DEF Ready, World
  <2> HIDE DEF d, y
  <2> QED BY <2>1, <2>2, CycleReady
<1>2. "scan" \in Op /\ PhaseOf["scan"] = "Scanning" /\ NoCam \in Body
  BY DEF Op, PhaseOf, Body
<1>3. Await(Issue(y, "scan", NoCam), "Scanning", "scan")
  BY DEF step_scan
<1> HIDE DEF y
<1> QED BY <1>1, <1>2, <1>3, CallInv

\* step_connect() keeps the invariant, connected already or not.
LEMMA ConnectInv ==
    ASSUME NEW x, NEW heard \in Body, Ready(x), Aside, step_connect(x, heard)
    PROVE  IInv'
<1>1. x.st.id \in Body
  BY DEF Ready, World, Memory
<1>2. Ready([x EXCEPT !.missed = FALSE])
  BY DEF Ready, World
<1>3. \/ \E fresh \in BOOLEAN : step_observe([x EXCEPT !.missed = FALSE], fresh)
      \/ connect_to(x, x.st.id)
      \/ connect_to(x, heard)
      \/ step_scan(x)
  BY DEF step_connect
<1> QED BY <1>1, <1>2, <1>3, ObserveInv, ConnectToInv, ScanInv

\* step_write() keeps the invariant.
LEMMA WriteInv == ASSUME NEW x, Ready(x), Aside, step_write(x) PROVE IInv'
<1>1. x.cam.id \in Body
  BY DEF Ready, World, View
<1>2. "write" \in Op /\ PhaseOf["write"] = "Writing"
  BY DEF Op, PhaseOf
<1> QED BY <1>1, <1>2, CallInv DEF step_write

\* judge(), which ends the cycle, keeps the invariant.
LEMMA JudgeInv == ASSUME NEW x, Ready(x), Aside, judge(x) PROVE IInv'
<1>1. "write" \in Outcome
  BY DEF Outcome
<1>2. CASE ~x.cam.tc
  BY <1>1, <1>2, FailedReady, ReadyIsWhole, FinishInv DEF judge
<1>3. CASE x.cam.tc
  <2>1. PICK good \in BOOLEAN :
          FinishCycle([x EXCEPT !.st = JudgeWrite(@, good)], "write")
    BY <1>3 DEF judge
  <2>2. JudgeWrite(x.st, good) \in Memory
    BY JudgeType DEF Ready, World
  <2>3. Ready([x EXCEPT !.st = JudgeWrite(@, good)])
    BY <2>2, RememberReady
  <2> QED BY <1>1, <2>1, <2>3, ReadyIsWhole, FinishInv
<1> QED BY <1>2, <1>3

\* step_verify() keeps the invariant.
LEMMA VerifyInv == ASSUME NEW x, Ready(x), Aside, step_verify(x) PROVE IInv'
<1>1. PhaseOf["verify"] = "Verifying"
  BY DEF PhaseOf
<1> QED BY <1>1, JudgeInv, AwaitInv DEF step_verify

\* The answer to the connect keeps the invariant, whichever it is.
LEMMA DoneConnectInv ==
    ASSUME NEW x, NEW ok \in BOOLEAN, Ready(x), Aside, done_connect(x, ok)
    PROVE  IInv'
<1> DEFINE y == [x EXCEPT !.st = Bind(@, x.cur.try), !.missed = FALSE]
<1>1. Ready(y)
  <2>1. Bind(x.st, x.cur.try) \in Memory
    BY BindType DEF Ready, World, Cycle
  <2> QED BY <2>1 DEF Ready, World
<1>2. "skip:no-camera" \in Outcome
  BY DEF Outcome
<1>3. \/ step_subscribe(y)
      \/ step_scan(x)
      \/ FinishCycle(Miss(x), "skip:no-camera")
  BY DEF done_connect
<1> HIDE DEF y
<1> QED BY <1>1, <1>2, <1>3, SubscribeInv, ScanInv, ReadyIsWhole, MissWhole, FinishInv

\* The end of a scan keeps the invariant.
LEMMA OnScanInv ==
    ASSUME NEW x, NEW pick \in Body, Ready(x), Aside, on_scan(x, pick)
    PROVE  IInv'
<1>1. "skip:no-camera" \in Outcome
  BY DEF Outcome
<1> QED BY <1>1, ConnectToInv, ReadyIsWhole, MissWhole, FinishInv DEF on_scan

\* The answer to the subscription keeps the invariant.
LEMMA DoneSubscribeInv ==
    ASSUME NEW x, NEW ok \in BOOLEAN, Ready(x), Aside, done_subscribe(x, ok)
    PROVE  IInv'
<1>1. "skip" \in Outcome
  BY DEF Outcome
<1> QED BY <1>1, ObserveInv, ReadyIsWhole, FinishInv DEF done_subscribe

\* The answer to the timecode-source command keeps the invariant.
LEMMA DoneSourceInv ==
    ASSUME NEW x, NEW ok \in BOOLEAN, Ready(x), Aside, done_source(x, ok)
    PROVE  IInv'
<1>1. "source" \in Outcome /\ PhaseOf["echo"] = "SourceWrite"
  BY DEF Outcome, PhaseOf
<1> QED BY <1>1, AwaitInv, ReadyIsWhole, FinishInv DEF done_source

\* The answer to the clock write keeps the invariant.
LEMMA DoneWriteInv ==
    ASSUME NEW x, NEW ok \in BOOLEAN, Ready(x), Aside, done_write(x, ok)
    PROVE  IInv'
<1> DEFINE y == [x EXCEPT !.cam.tc = FALSE]
<1>1. Ready(y)
  BY DEF Ready, World, Memory, View
<1>2. "write" \in Outcome /\ PhaseOf["settle"] = "Writing"
  BY DEF Outcome, PhaseOf
<1>3. Await(y, "Writing", "settle") \/ FinishCycle(Failed(x), "write")
  BY DEF done_write
<1> HIDE DEF y
<1> QED BY <1>1, <1>2, <1>3, AwaitInv, FailedReady, ReadyIsWhole, FinishInv

-----------------------------------------------------------------------------
(* The steps of Next.                                                      *)

\* What the invariant says of the state a handler starts from.
LEMMA HereWhole ==
    ASSUME IInv, busy
    PROVE  /\ Whole(Here)
           /\ step \notin Guarded => Ready(Here)
           /\ started = TRUE /\ told \in BOOLEAN /\ backend \in BOOLEAN
<1>1. Here \in World
  BY DEF IInv, TypeOK, Here, World
<1>2. /\ Here.cur = cur /\ Here.calls = calls
      /\ cur.live /\ started = TRUE
  BY DEF Here, IInv, NeverWedged, TypeOK, busy
<1>3. \A c, d \in calls : c.live /\ d.live => c = d
  BY DEF IInv, OneThingAtATime, Live
<1>4. step \notin Guarded => \A c \in calls : ~c.live
  <2>1. \A c \in Live : step = c.op
    BY DEF IInv, OneThingAtATime
  <2>2. \A c \in calls : c.op \in Guarded
    BY DEF IInv, TypeOK, Call, Op, Guarded
  <2> QED BY <2>1, <2>2 DEF Live
<1> QED BY <1>1, <1>2, <1>3, <1>4 DEF Whole, Ready, IInv, TypeOK

\* A current completion was the only one owed.
LEMMA AnsweredReady ==
    ASSUME IInv, NEW call \in calls, NEW v \in View, Current(call)
    PROVE  Ready(Answered(call, v)) /\ started = TRUE
           /\ told \in BOOLEAN /\ backend \in BOOLEAN
<1>1. Answered(call, v) \in World
  BY DEF Answered, Here, World, IInv, TypeOK
<1>2. /\ Answered(call, v).cur = cur
      /\ Answered(call, v).calls = calls \ {call}
  BY DEF Answered, Here
<1>3. \A c \in calls \ {call} : ~c.live
  BY DEF IInv, OneThingAtATime, Live, Current
<1> QED BY <1>1, <1>2, <1>3 DEF Ready, Current, IInv, TypeOK, NeverWedged

\* A completion of another cycle is dropped.
LEMMA DropInv ==
    ASSUME IInv, NEW call \in calls, NEW v \in View, ~Current(call),
           Drop(Answered(call, v)), env' = env
    PROVE  IInv'
<1>1. cam' = v /\ calls' = calls \ {call}
  BY DEF Drop, Answered, Here
<1>2. TypeOK'
  BY <1>1 DEF Drop, env, IInv, TypeOK
<1>3. NeverWedged' /\ NoIdleRequest'
  BY DEF Drop, IInv, NeverWedged, NoIdleRequest, busy
<1>4. OneThingAtATime'
  <2>1. busy' = busy /\ step' = step
    BY DEF Drop, busy
  <2>2. Live' = Live \ {call}
    BY <1>1 DEF Live
  <2>3. busy => call \notin Live
    BY DEF Current, Live, busy, IInv, NeverWedged
  <2> QED BY <2>1, <2>2, <2>3 DEF IInv, OneThingAtATime
<1> QED BY <1>2, <1>3, <1>4 DEF IInv

\* A connection that comes up leaves the other connects under way to nobody:
\* which cycle they belong to, and what they are, stays as it was.
LEMMA DoomedCalls ==
    ASSUME NEW cs, cs \subseteq Call
    PROVE  /\ Doomed(cs) \subseteq Call
           /\ \A e \in Doomed(cs) : \E d \in cs : e.live = d.live /\ e.op = d.op
           /\ \A d \in cs : \E e \in Doomed(cs) : e.live = d.live /\ e.op = d.op
           /\ (\A c, d \in cs : c.live /\ d.live => c = d)
                 => \A c, d \in Doomed(cs) : c.live /\ d.live => c = d
<1> DEFINE f(d) == [d EXCEPT !.cam = IF d.op = "connect" THEN NoCam ELSE @]
<1>1. \A d \in Call : f(d) \in Call /\ f(d).live = d.live /\ f(d).op = d.op
  BY DEF Call, Body
<1>2. Doomed(cs) = {f(d) : d \in cs}
  BY DEF Doomed
<1> HIDE DEF f
<1> QED BY <1>1, <1>2

\* The running cycle's own connect, come up, was the only call owed.
LEMMA ConnectedReady ==
    ASSUME IInv, NEW call \in calls, call.cam \in Body, Current(call)
    PROVE  Ready(ConnectOk(call)) /\ started = TRUE
           /\ told \in BOOLEAN /\ backend \in BOOLEAN
<1> DEFINE cs == Doomed(calls \ {call})
<1>1. calls \ {call} \subseteq Call /\ \A c \in calls \ {call} : ~c.live
  BY DEF IInv, TypeOK, OneThingAtATime, Live, Current
<1>2. cs \subseteq Call /\ \A c \in cs : ~c.live
  BY <1>1, DoomedCalls
<1>3. Here \in World /\ Here.calls = calls /\ Here.cur = cur
  BY DEF Here, World, IInv, TypeOK
<1>4. ConnectOk(call) = [Here EXCEPT !.calls = cs, !.cam = Fresh(call.cam)]
  BY <1>3 DEF ConnectOk
<1>5. Fresh(call.cam) \in View
  BY DEF Fresh, View
<1> HIDE DEF cs
<1>6. Ready(ConnectOk(call))
  BY <1>2, <1>3, <1>4, <1>5 DEF Ready, World, Current
<1> QED BY <1>6 DEF Current, IInv, TypeOK, NeverWedged

\* Another cycle's connect may come up, and the daemon takes no notice.
LEMMA DropConnectInv ==
    ASSUME IInv, NEW call \in calls, call.cam \in Body, ~Current(call),
           Drop(ConnectOk(call)), env' = env
    PROVE  IInv'
<1>1. cam' = Fresh(call.cam) /\ calls' = Doomed(calls \ {call})
  BY DEF Drop, ConnectOk, Here
<1>2. calls \ {call} \subseteq Call
  BY DEF IInv, TypeOK
<1>3. TypeOK'
  BY <1>1, <1>2, DoomedCalls DEF Drop, env, IInv, TypeOK, Fresh, View
<1>4. NeverWedged' /\ NoIdleRequest'
  BY DEF Drop, IInv, NeverWedged, NoIdleRequest, busy
<1>5. OneThingAtATime'
  <2>1. busy' = busy /\ step' = step
    BY DEF Drop, busy
  <2>2. busy => call \notin Live
    BY DEF Current, Live, busy, IInv, NeverWedged
  <2>3. \A c, d \in calls : c.live /\ d.live => c = d
    BY DEF IInv, OneThingAtATime, Live
  <2>4. \A c, d \in calls' : c.live /\ d.live => c = d
    BY <1>1, <1>2, <2>3, DoomedCalls
  <2>5. ASSUME busy, NEW c \in calls', c.live PROVE step = c.op
    BY <1>1, <1>2, <2>5, DoomedCalls DEF IInv, OneThingAtATime, Live
  <2>6. ASSUME busy, step \in Guarded PROVE \E c \in calls' : c.live /\ c.op = step
    <3>1. PICK d \in calls \ {call} : d.live /\ d.op = step
      BY <2>2, <2>6 DEF IInv, OneThingAtATime, Live
    <3> QED BY <1>1, <1>2, <3>1, DoomedCalls
  <2> QED BY <2>1, <2>4, <2>5, <2>6 DEF OneThingAtATime, Live
<1> QED BY <1>3, <1>4, <1>5 DEF IInv

\* A connect answered by the camera, timely or late, keeps the invariant.
LEMMA AnswerConnectInv ==
    ASSUME IInv, NEW call \in calls, NEW ok \in BOOLEAN, AnswerConnect(call, ok)
    PROVE  IInv'
<1>1. PICK x \in IF ok THEN {ConnectOk(call)}
                ELSE {Answered(call, v) : v \in {cam, Lost(cam)}} :
        IF Current(call) THEN done_connect(x, ok) /\ started' = started
        ELSE Drop(x)
  BY DEF AnswerConnect
<1>2. env' = env
  BY DEF AnswerConnect, env
<1>3. CASE ok
  <2>1. call.cam \in Body
    BY DEF IInv, TypeOK, Call
  <2>2. x = ConnectOk(call)
    BY <1>1, <1>3
  <2> QED BY <1>1, <1>2, <2>1, <2>2, ConnectedReady, DoneConnectInv, DropConnectInv
          DEF Aside
<1>4. CASE ~ok
  <2>1. PICK v \in {cam, Lost(cam)} : x = Answered(call, v)
    BY <1>1, <1>4
  <2>2. v \in View
    BY <2>1 DEF IInv, TypeOK, View, Lost, Body
  <2> QED BY <1>1, <1>2, <2>1, <2>2, AnsweredReady, DropInv, DoneConnectInv DEF Aside
<1> QED BY <1>3, <1>4

\* A scan that ends, awaited or not, keeps the invariant.
LEMMA AnswerScanInv ==
    ASSUME IInv, NEW call \in calls, NEW pick \in Body, AnswerScan(call, pick)
    PROVE  IInv'
<1>1. cam \in View
  BY DEF IInv, TypeOK
<1>2. IF Current(call)
      THEN on_scan(Answered(call, cam), pick) /\ started' = started
      ELSE Drop(Answered(call, cam))
  BY DEF AnswerScan
<1>3. env' = env
  BY DEF AnswerScan, env
<1> QED BY <1>1, <1>2, <1>3, AnsweredReady, DropInv, OnScanInv DEF Aside

\* A subscription answered, timely or late, keeps the invariant.
LEMMA AnswerSubscribeInv ==
    ASSUME IInv, NEW call \in calls, NEW ok \in BOOLEAN, AnswerSubscribe(call, ok)
    PROVE  IInv'
<1> DEFINE v == IF ok THEN [cam EXCEPT !.sub = TRUE] ELSE cam
<1>1. v \in View
  BY DEF IInv, TypeOK, View
<1>2. IF Current(call)
      THEN done_subscribe(Answered(call, v), ok) /\ started' = started
      ELSE Drop(Answered(call, v))
  BY DEF AnswerSubscribe
<1>3. env' = env
  BY DEF AnswerSubscribe, env
<1> HIDE DEF v
<1> QED BY <1>1, <1>2, <1>3, AnsweredReady, DropInv, DoneSubscribeInv DEF Aside

\* A control write answered, timely or late, keeps the invariant.
LEMMA AnswerControlInv ==
    ASSUME IInv, NEW call \in calls, NEW ok \in BOOLEAN, AnswerControl(call, ok)
    PROVE  IInv'
<1>1. cam \in View
  BY DEF IInv, TypeOK
<1>2. \/ ~Current(call) /\ Drop(Answered(call, cam))
      \/ /\ Current(call)
         /\ \/ done_write(Answered(call, cam), ok)
            \/ done_source(Answered(call, cam), ok)
         /\ started' = started
  BY DEF AnswerControl
<1>3. env' = env
  BY DEF AnswerControl, env
<1> QED BY <1>1, <1>2, <1>3, AnsweredReady, DropInv, DoneWriteInv, DoneSourceInv DEF Aside

\* The step timer, backstop or wait, keeps the invariant in every phase.
LEMMA StepTimerInv == ASSUME IInv, StepTimer PROVE IInv'
<1>1. step # "none" /\ busy
  BY DEF StepTimer, IInv, TypeOK, NeverWedged, Phase, Step, busy
<1>2. Aside
  BY <1>1, HereWhole DEF Aside, StepTimer, env
<1>3. Whole(Here) /\ (step \notin Guarded => Ready(Here))
  BY <1>1, HereWhole
<1>4. {"skip:no-camera", "skip", "source", "write"} \subseteq Outcome
  BY DEF Outcome
<1>5. CASE step \in {"connect", "scan"}
  <2>1. FinishCycle(Miss(Here), "skip:no-camera")
    BY <1>5 DEF StepTimer
  <2> QED BY <2>1, <1>2, <1>3, <1>4, MissWhole, FinishInv
<1>6. CASE step = "subscribe"
  <2>1. FinishCycle(Here, "skip")
    BY <1>6 DEF StepTimer
  <2> QED BY <2>1, <1>2, <1>3, <1>4, FinishInv
<1>7. CASE step = "observe"
  <2>1. evaluate(Here) /\ step \notin Guarded
    BY <1>7 DEF StepTimer, Guarded
  <2> QED BY <2>1, <1>2, <1>3, EvaluateInv
<1>8. CASE step \in {"source", "echo"}
  <2>1. FinishCycle(Here, "source")
    BY <1>8 DEF StepTimer
  <2> QED BY <2>1, <1>2, <1>3, <1>4, FinishInv
<1>9. CASE step = "align"
  <2>1. step_write(Here) /\ step \notin Guarded
    BY <1>9 DEF StepTimer, Guarded
  <2> QED BY <2>1, <1>2, <1>3, WriteInv
<1>10. CASE step = "write"
  <2>1. FinishCycle(Failed(Here), "write")
    BY <1>10 DEF StepTimer
  <2> QED BY <2>1, <1>2, <1>3, <1>4, FailedWhole, FinishInv
<1>11. CASE step = "settle"
  <2>1. step_verify(Here) /\ step \notin Guarded
    BY <1>11 DEF StepTimer, Guarded
  <2> QED BY <2>1, <1>2, <1>3, VerifyInv
<1>12. CASE step = "verify"
  <2>1. judge(Here) /\ step \notin Guarded
    BY <1>12 DEF StepTimer, Guarded
  <2> QED BY <2>1, <1>2, <1>3, JudgeInv
<1> QED BY <1>1, <1>5, <1>6, <1>7, <1>8, <1>9, <1>10, <1>11, <1>12
        DEF IInv, TypeOK, Step

\* The cycle timer keeps the invariant.
LEMMA CycleTimerInv == ASSUME IInv, CycleTimer PROVE IInv'
<1>1. PICK benchOk \in BOOLEAN, heard \in Body : begin_cycle(benchOk, heard)
  BY DEF CycleTimer
<1>2. Aside
  BY DEF Aside, CycleTimer, env, IInv, TypeOK
<1> DEFINE c == [NoCycle EXCEPT
                   !.live = TRUE,
                   !.forced = pend.force,
                   !.source = pend.source,
                   !.want = IF pend.want = NoWant THEN OptWant ELSE pend.want]
           x == [Here EXCEPT !.cur = c,
                             !.pend = Taken(@),
                             !.calls = Abandoned(@),
                             !.next = "none"]
           y == [x EXCEPT !.cur.looked = TRUE]
<1>3. c \in Cycle /\ c.live
  <2>1. NoCycle \in Cycle
    BY DEF NoCycle, Cycle, Want, Body, Outcome
  <2>2. pend.force \in BOOLEAN /\ pend.source \in BOOLEAN /\ pend.want \in Want
    BY DEF IInv, TypeOK, Pending
  <2> QED BY <2>1, <2>2, SyncDAssumption DEF Cycle
<1> HIDE DEF c
<1>4. Ready(x)
  <2>1. Abandoned(calls) \subseteq Call /\ \A d \in Abandoned(calls) : ~d.live
    BY DEF Abandoned, IInv, TypeOK, Call
  <2>2. NoRequest \in Pending
    BY DEF NoRequest, Pending, Want
  <2>3. Here \in World /\ Here.calls = calls
    BY DEF IInv, TypeOK, Here, World
  <2>4. x = [Here EXCEPT !.cur = c, !.pend = NoRequest,
                         !.calls = Abandoned(calls), !.next = "none"]
    BY <2>3 DEF Taken
  <2>5. "none" \in NextLook
    BY DEF NextLook
  <2> HIDE DEF x
  <2> QED BY <1>3, <2>1, <2>2, <2>3, <2>4, <2>5 DEF Ready, World
<1>5. \/ FinishCycle(x, "skip")
      \/ FinishCycle(x, "skip:no-date")
      \/ step_connect(y, heard)
  BY <1>1 DEF begin_cycle, c
<1> HIDE DEF x
<1>6. Ready(y)
  <2> DEFINE d == [x.cur EXCEPT !.looked = TRUE]
  <2>1. d \in Cycle /\ d.live
    BY <1>4 DEF Ready, World, Cycle
  <2>2. y = [x EXCEPT !.cur = d]
    BY <1>4 DEF Ready, World
  <2> HIDE DEF d, y
  <2> QED BY <1>4, <2>1, <2>2, CycleReady
<1>7. "skip" \in Outcome /\ "skip:no-date" \in Outcome
  BY DEF Outcome
<1> HIDE DEF y
<1> QED BY <1>2, <1>4, <1>5, <1>6, <1>7, ReadyIsWhole, FinishInv, ConnectInv

\* A view handler goes on only in a phase that owes itself nothing.
LEMMA ViewInv ==
    ASSUME IInv, NEW v \in View, NEW fresh, on_view(v, fresh) PROVE IInv'
<1> DEFINE x == [Here EXCEPT !.cam = v]
<1>1. env' = env /\ started' = started
  BY DEF on_view, env
<1>2. CASE phase \in {"Observing", "Verifying"} /\ (evaluate(x) \/ judge(x))
  <2>1. busy
    BY <1>2 DEF busy
  <2>2. step \in Step \ {"none"} /\ PhaseOf[step] = phase
    BY <2>1 DEF IInv, TypeOK, NeverWedged
  <2>3. step \notin Guarded
    BY <1>2, <2>2 DEF Step, PhaseOf, Guarded
  <2>4. Ready(Here) /\ Aside
    BY <1>1, <2>1, <2>3, HereWhole DEF Aside
  <2>5. Ready(x)
    BY <2>4 DEF Ready, World
  <2> HIDE DEF x
  <2> QED BY <1>2, <2>4, <2>5, EvaluateInv, JudgeInv
<1>3. CASE /\ cam' = v
           /\ UNCHANGED <<phase, step, next, cur, pend, st, missed, calls>>
  BY <1>1, <1>3 DEF env, IInv, TypeOK, NeverWedged, NoIdleRequest,
                    OneThingAtATime, Live, busy
<1> QED BY <1>2, <1>3 DEF on_view

\* Losing the camera ends a running cycle and changes nothing else.
LEMMA GoneInv == ASSUME IInv, on_camera_gone PROVE IInv'
<1> DEFINE x == [Here EXCEPT !.cam = Disconnected]
<1>1. env' = env /\ started' = started
  BY DEF on_camera_gone, env
<1>2. Disconnected \in View /\ Here.cam = cam
  BY DEF Disconnected, Fresh, View, Body, Here
<1>3. CASE busy
  <2>1. Whole(Here) /\ Aside
    BY <1>1, <1>3, HereWhole DEF Aside
  <2>2. Whole(x)
    BY <1>2, <2>1 DEF Whole, World
  <2>3. FinishCycle(Miss(x), "skip") /\ "skip" \in Outcome
    BY <1>3 DEF on_camera_gone, Outcome
  <2> HIDE DEF x
  <2> QED BY <2>1, <2>2, <2>3, MissWhole, FinishInv
<1>4. CASE ~busy
  <2>1. /\ cam' = Disconnected
        /\ UNCHANGED <<phase, step, next, cur, pend, st, missed, calls>>
    BY <1>4 DEF on_camera_gone, Here
  <2> QED BY <1>1, <1>2, <2>1 DEF env, IInv, TypeOK, NeverWedged, NoIdleRequest,
                    OneThingAtATime, Live, busy
<1> QED BY <1>3, <1>4

\* Starting arms the first look.
LEMMA StartInv == ASSUME IInv, start PROVE IInv'
<1>1. phase = "Stopped" /\ step = "none"
  BY DEF IInv, NeverWedged, start
<1>2. TypeOK' /\ NeverWedged' /\ NoIdleRequest'
  BY <1>1 DEF start, env, IInv, TypeOK, NeverWedged, NoIdleRequest, busy, Phase, NextLook
<1>3. OneThingAtATime'
  BY <1>1 DEF start, IInv, OneThingAtATime, Live, busy
<1> QED BY <1>2, <1>3 DEF IInv

\* Stopping disarms both timers and disowns every completion.
LEMMA StopInv == ASSUME IInv, stop PROVE IInv'
<1>1. Abandoned(calls) \subseteq Call /\ \A d \in Abandoned(calls) : ~d.live
  BY DEF Abandoned, IInv, TypeOK, Call
<1>2. [cur EXCEPT !.live = FALSE] \in Cycle
  BY DEF IInv, TypeOK, Cycle
<1>3. Disconnected \in View
  BY DEF Disconnected, Fresh, View, Body
<1>4. TypeOK'
  BY <1>1, <1>2, <1>3 DEF stop, env, IInv, TypeOK, Phase, Step, NextLook
<1>5. NeverWedged' /\ NoIdleRequest'
  BY DEF stop, NeverWedged, NoIdleRequest, busy
<1>6. OneThingAtATime'
  BY <1>1 DEF stop, OneThingAtATime, Live, busy
<1> QED BY <1>4, <1>5, <1>6 DEF IInv

\* A request is noted, and brings the next look forward if nothing is running.
LEMMA RequestInv ==
    ASSUME IInv, NEW sync \in BOOLEAN, NEW force \in BOOLEAN,
           NEW source \in BOOLEAN, NEW want \in Want,
           Request(sync, force, source, want)
    PROVE  IInv'
<1>1. pend' \in Pending
  <2>1. pend.want \in Want
    BY DEF IInv, TypeOK, Pending
  <2> QED BY <2>1 DEF Request, Pending
<1>2. next' \in NextLook /\ (next' = next \/ (next' = "now" /\ phase = "Idle"))
  BY DEF Request, IInv, TypeOK, NextLook, NeverWedged, busy
<1>3. TypeOK'
  BY <1>1, <1>2 DEF Request, env, IInv, TypeOK
<1>4. NeverWedged'
  BY <1>2 DEF Request, env, IInv, NeverWedged, busy
<1>5. NoIdleRequest'
  BY DEF Request, IInv, NoIdleRequest, NeverWedged, TypeOK, busy
<1>6. OneThingAtATime'
  BY DEF Request, IInv, OneThingAtATime, Live, busy
<1> QED BY <1>3, <1>4, <1>5, <1>6 DEF IInv

\* An advertisement, and being told the date, touch none of this.
LEMMA AsideInv == ASSUME IInv, observe_camera \/ SetDate PROVE IInv'
<1>1. UNCHANGED <<started, phase, step, next, cur, pend, st, cam, calls>>
  BY DEF observe_camera, SetDate
<1>2. missed' \in BOOLEAN /\ told' \in BOOLEAN /\ backend' \in BOOLEAN
  BY DEF observe_camera, SetDate, env, IInv, TypeOK
<1>3. TypeOK'
  BY <1>1, <1>2 DEF IInv, TypeOK
<1>4. NeverWedged' /\ NoIdleRequest'
  BY <1>1 DEF IInv, NeverWedged, NoIdleRequest, busy
<1>5. OneThingAtATime'
  BY <1>1 DEF IInv, OneThingAtATime, Live, busy
<1> QED BY <1>3, <1>4, <1>5 DEF IInv

\* The daemon starts out stopped, with nothing armed and nothing owed.
LEMMA InitInv == ASSUME Init PROVE IInv
<1>1. TypeOK
  <2>1. st \in Memory
    <3>1. 0 \in 0..MaxFailures /\ 0 \in 0..MaxAdapts
      BY SyncDAssumption
    <3>2. st \in [id : Body, failures : {0}, adapts : {0}, obs : {FALSE}]
      BY DEF Init
    <3> QED BY <3>1, <3>2 DEF Memory
  <2>2. cur \in Cycle
    BY DEF Init, NoCycle, Cycle, Want, Body, Outcome
  <2>3. pend \in Pending
    BY DEF Init, NoRequest, Pending, Want
  <2> QED BY <2>1, <2>2, <2>3 DEF Init, TypeOK, Phase, Step, NextLook, View, Fresh, Body
<1> QED BY <1>1 DEF Init, IInv, NeverWedged, NoIdleRequest, OneThingAtATime,
                    Live, busy

\* Every step of the daemon keeps the invariant, one action at a time.
LEMMA NextInv == ASSUME IInv, [Next]_vars PROVE IInv'
<1>1. CASE UNCHANGED vars
  BY <1>1 DEF vars, IInv, TypeOK, NeverWedged, NoIdleRequest, OneThingAtATime,
              Live, busy
<1>2. CASE Answer
  <2>1. PICK call \in calls :
          \/ \E ok \in BOOLEAN : \/ AnswerConnect(call, ok)
                                 \/ AnswerSubscribe(call, ok)
                                 \/ AnswerControl(call, ok)
          \/ \E pick \in Body : AnswerScan(call, pick)
    BY <1>2 DEF Answer
  <2> QED BY <2>1, AnswerConnectInv, AnswerSubscribeInv, AnswerControlInv,
             AnswerScanInv
<1>3. CASE Camera
  <2>1. CASE NotifyTimecode
    <3>1. [cam EXCEPT !.tc = TRUE] \in View
      BY DEF IInv, TypeOK, View
    <3> QED BY <2>1, <3>1, ViewInv DEF NotifyTimecode
  <2>2. ASSUME NEW t \in {"stopped", "record"}, NEW fresh \in BOOLEAN,
               NotifyTransport(t, fresh)
        PROVE  IInv'
    <3>1. [cam EXCEPT !.transport = t] \in View
      BY DEF IInv, TypeOK, View
    <3> QED BY <2>2, <3>1, ViewInv DEF NotifyTransport
  <2> QED BY <1>3, <2>1, <2>2, GoneInv, AsideInv DEF Camera
<1>4. CASE Operator
  <2>1. ASSUME NEW want \in AskWants, NEW force \in BOOLEAN,
               request_sync(want, force)
        PROVE  IInv'
    <3>1. want \in Want
      BY SyncDAssumption
    <3> QED BY <2>1, <3>1, RequestInv DEF request_sync
  <2>2. ASSUME NEW want \in AskWants, request_source(want) PROVE IInv'
    <3>1. want \in Want
      BY SyncDAssumption
    <3> QED BY <2>2, <3>1, RequestInv DEF request_source
  <2> QED BY <1>4, <2>1, <2>2, StartInv, StopInv, AsideInv DEF Operator
<1> QED BY <1>1, <1>2, <1>3, <1>4, CycleTimerInv, StepTimerInv DEF Next

-----------------------------------------------------------------------------
(* Which body.                                                             *)

\* The phases in which there is a connection to talk over.
Linked == {"Subscribing", "Observing", "SourceWrite", "Aligning", "Writing", "Verifying"}
Spoken == {"subscribe", "write", "source"}

\* The body the running cycle may take as it is connected: one asked for by id
\* or not at all.
WantsBound(x) == x.cur.want.by = "any" \/ x.cur.want = [by |-> "id", cam |-> x.st.id]

\* The camera is subscribed, or is about to say that it is.
HeldOut(x) ==
    /\ x.cam.id # NoCam
    /\ x.cam.sub \/ \E c \in x.calls : c.op = "subscribe" /\ c.cam = x.cam.id

\* A connect that can still come up has nothing else under way beside it, and
\* nothing is connected; a subscription is the bound body's, and so is all that
\* has been asked over a connection.
Tied(x) ==
    /\ \A c, d \in x.calls : c.op = "connect" /\ c.cam # NoCam => x.cam.id = NoCam /\ d.op \notin Spoken
    /\ x.cam.sub => x.cam.id # NoCam /\ x.cam.id = x.st.id
    /\ \A c \in x.calls : c.op \in Spoken => c.cam \in {NoCam, x.st.id}

\* What the running cycle is owed: its connect is to the body it tries, and
\* nothing but connects is under way by then; its write is to a body it may
\* write to; and a cycle that looks for a camera has none to hand.
Owed(x) ==
    \A c \in x.calls : c.live =>
        /\ c.op = "connect" => /\ c.cam \in {NoCam, x.cur.try} /\ ~x.cam.sub
                               /\ \A d \in x.calls : d.op = "connect"
        /\ c.op \in {"write", "source"} /\ c.cam # NoCam =>
              x.cur.may /\ c.cam = x.cur.auth /\ x.cur.source = (c.op = "source")
        /\ c.op \in {"connect", "scan"} /\ HeldOut(x) => ~WantsBound(x)

\* A connection is to the bound body, and no other can come up under it.
Kept(x) ==
    /\ x.cam.id \in {NoCam, x.st.id}
    /\ \A c \in x.calls : c.op = "connect" => c.cam = NoCam

BodyInv ==
    /\ Tied(Here)
    /\ Owed(Here)
    /\ phase \in Linked => Kept(Here)
    /\ phase = "Aligning" => cur.may /\ cur.auth = st.id /\ ~cur.source
    /\ phase \in {"Idle", "Stopped"} /\ cur.outcome = "skip:no-camera" /\ HeldOut(Here) => ~WantsBound(Here)
    /\ busy \/ Live # {} => date_known

\* What none of these looks at may change.
LEMMA SameBody ==
    ASSUME NEW x, NEW y, y.calls = x.calls, y.cam = x.cam, y.st.id = x.st.id
    PROVE  /\ Tied(x) => Tied(y)
           /\ Kept(x) => Kept(y)
           /\ y.cur.want = x.cur.want /\ (HeldOut(x) => ~WantsBound(x)) => (HeldOut(y) => ~WantsBound(y))
<1>1. Tied(x) => Tied(y)
  BY DEF Tied
<1>2. Kept(x) => Kept(y)
  BY DEF Kept
<1>3. (HeldOut(y) <=> HeldOut(x)) /\ (y.cur.want = x.cur.want => (WantsBound(y) <=> WantsBound(x)))
  BY DEF HeldOut, WantsBound
<1> QED BY <1>1, <1>2, <1>3

\* The end of a cycle, with whatever it is still owed.
LEMMA FinishBody ==
    ASSUME NEW x, NEW o, x \in World, Tied(x), Owed(x), env' = env,
           date_known \/ \A c \in x.calls : ~c.live,
           o = "skip:no-camera" /\ HeldOut(x) => ~WantsBound(x),
           FinishCycle(x, o)
    PROVE  BodyInv'
<1>1. /\ phase' = "Idle" /\ calls' = x.calls /\ st' = x.st
      /\ cam' = x.cam \/ cam' = Disconnected
      /\ cur' = [x.cur EXCEPT !.outcome = o, !.reported = TRUE]
  BY DEF FinishCycle
<1>2. /\ cur'.may = x.cur.may /\ cur'.auth = x.cur.auth /\ cur'.source = x.cur.source
      /\ cur'.try = x.cur.try /\ cur'.want = x.cur.want /\ cur'.outcome = o
  BY <1>1 DEF World, Cycle
<1>3. /\ Here'.calls = x.calls /\ Here'.st = x.st /\ Here'.cam = cam' /\ Here'.cur = cur'
  BY <1>1 DEF Here
<1>4. Disconnected.id = NoCam /\ ~Disconnected.sub
  BY DEF Disconnected, Fresh
<1>5. (Tied(Here))'
  BY <1>1, <1>3, <1>4 DEF Tied
<1>6. (HeldOut(Here))' => HeldOut(x)
  BY <1>1, <1>3, <1>4 DEF HeldOut
<1>7. (WantsBound(Here))' <=> WantsBound(x)
  BY <1>2, <1>3 DEF WantsBound
<1>8. (Owed(Here))'
  BY <1>1, <1>2, <1>3, <1>4, <1>6, <1>7 DEF Owed
<1>9. date_known' = date_known
  BY DEF date_known, env
<1>10. Live' = {c \in x.calls : c.live}
  BY <1>1 DEF Live
<1>11. busy' => FALSE
  BY <1>1 DEF busy
<1>12. busy' \/ Live' # {} => date_known'
  BY <1>9, <1>10, <1>11
<1>13. (phase \notin Linked /\ phase # "Aligning")'
  BY <1>1 DEF Linked
<1> QED BY <1>1, <1>2, <1>5, <1>6, <1>7, <1>8, <1>12, <1>13 DEF BodyInv

\* A wait over the connection with nothing owed.
LEMMA AwaitBody ==
    ASSUME NEW x, NEW ph \in Linked, NEW k, Ready(x), Tied(x), Kept(x), date_known, env' = env,
           ph = "Aligning" => x.cur.may /\ x.cur.auth = x.st.id /\ ~x.cur.source,
           Await(x, ph, k)
    PROVE  BodyInv'
<1>1. /\ phase' = ph /\ Here'.calls = x.calls /\ Here'.st = x.st /\ Here'.cam = x.cam /\ Here'.cur = x.cur
      /\ cur' = x.cur /\ st' = x.st
  BY DEF Await, Here
<1>2. (Tied(Here))' /\ (Kept(Here))'
  BY <1>1 DEF Tied, Kept
<1>3. (Owed(Here))'
  BY <1>1 DEF Owed, Ready
<1>4. date_known'
  BY DEF date_known, env
<1>5. ph \notin {"Idle", "Stopped"}
  BY DEF Linked
<1> QED BY <1>1, <1>2, <1>3, <1>4, <1>5 DEF BodyInv

\* What a call leaves: the call itself, alone of its cycle.
LEMMA IssueFacts ==
    ASSUME NEW x, NEW op \in Op, NEW c \in Body, Ready(x)
    PROVE  /\ Issue(x, op, c).cur = x.cur /\ Issue(x, op, c).st = x.st
           /\ Issue(x, op, c).cam = IF op = "connect" THEN Disconnected ELSE x.cam
           /\ Issue(x, op, c).calls = {d \in x.calls : op = "connect" => d.op = "connect"}
                                        \cup {[op |-> op, cam |-> c, live |-> TRUE]}
BY DEF Issue, Ready, World

LEMMA CallBody ==
    ASSUME NEW x, NEW op \in Op, NEW c \in Body, Ready(x), Tied(x), date_known, env' = env,
           op \in Spoken => Kept(x) /\ c = x.cam.id,
           op \in {"write", "source"} => x.cur.may /\ x.cur.auth = x.st.id /\ x.cur.source = (op = "source"),
           op = "connect" => x.cur.try = c,
           op = "scan" /\ HeldOut(x) => ~WantsBound(x),
           Await(Issue(x, op, c), PhaseOf[op], op)
    PROVE  BodyInv'
<1> DEFINE call == [op |-> op, cam |-> c, live |-> TRUE]
           cs == {d \in x.calls : op = "connect" => d.op = "connect"} \cup {call}
           v == IF op = "connect" THEN Disconnected ELSE x.cam
<1>1. /\ phase' = PhaseOf[op] /\ Here'.calls = cs /\ Here'.st = x.st /\ Here'.cam = v /\ Here'.cur = x.cur
  BY IssueFacts DEF Await, Here
<1>2. /\ call.op = op /\ call.cam = c /\ call.live /\ call \in cs
      /\ \A d \in cs : d # call => d \in x.calls /\ ~d.live /\ (op = "connect" => d.op = "connect")
  <2>1. \A d \in x.calls : ~d.live
    BY DEF Ready
  <2>2. call.op = op /\ call.cam = c /\ call.live
    OBVIOUS
  <2>3. cs = {d \in x.calls : op = "connect" => d.op = "connect"} \cup {call}
    OBVIOUS
  <2> HIDE DEF call, cs
  <2>4. call \in cs
    BY <2>3
  <2>5. ASSUME NEW d \in cs
        PROVE  d # call => d \in x.calls /\ ~d.live /\ (op = "connect" => d.op = "connect")
    BY <2>1, <2>3
  <2> QED BY <2>2, <2>4, <2>5
<1>3. op = "connect" => v.id = NoCam /\ ~v.sub
  BY DEF Disconnected, Fresh
<1>4. op # "connect" => v = x.cam
  OBVIOUS
<1>5. op \in {"connect", "scan"} \cup Spoken /\ {"connect", "scan"} \cap Spoken = {}
  BY DEF Op, Spoken
<1> HIDE DEF call, cs, v
<1>6. (Tied(Here))'
  <2>1. CASE op = "connect"
    BY <1>1, <1>2, <1>3, <1>5, <2>1 DEF Tied
  <2>2. CASE op = "scan"
    BY <1>1, <1>2, <1>4, <1>5, <2>2 DEF Tied
  <2>3. CASE op \in Spoken
    BY <1>1, <1>2, <1>4, <1>5, <2>3 DEF Tied, Kept
  <2> QED BY <1>5, <2>1, <2>2, <2>3
<1>7. op = "scan" /\ (HeldOut(Here))' => ~(WantsBound(Here))'
  BY <1>1, <1>2, <1>4 DEF HeldOut, WantsBound
<1>8. op = "connect" => ~(HeldOut(Here))'
  BY <1>1, <1>3 DEF HeldOut
<1>9. (Owed(Here))'
  BY <1>1, <1>2, <1>3, <1>4, <1>5, <1>7, <1>8 DEF Owed, Kept, Spoken
<1>10. PhaseOf[op] \notin {"Idle", "Stopped", "Aligning"} /\ (PhaseOf[op] \in Linked => op \in Spoken)
  BY DEF PhaseOf, Op, Linked, Spoken
<1>11. op \in Spoken => (Kept(Here))'
  BY <1>1, <1>2, <1>4, <1>5 DEF Kept
<1>12. date_known'
  BY DEF date_known, env
<1> QED BY <1>1, <1>6, <1>9, <1>10, <1>11, <1>12 DEF BodyInv

\* A world whose handlers may go on looking for a camera.
Apt(x) == Ready(x) /\ Tied(x) /\ date_known /\ env' = env

LEMMA AptOwed == ASSUME NEW x, Apt(x) PROVE x \in World /\ Owed(x)
BY DEF Apt, Ready, Owed

\* An end for another reason than the want of a camera.
LEMMA EndBody ==
    ASSUME NEW x, NEW o \in Outcome \ {"skip:no-camera"}, Apt(x), FinishCycle(x, o)
    PROVE  BodyInv'
BY AptOwed, FinishBody DEF Apt

\* What is learnt of the clock, and what is written down of the cycle, is not
\* about who is connected.
LEMMA AptSame ==
    ASSUME NEW x, NEW y, Apt(x), Ready(y), y.calls = x.calls, y.cam = x.cam, y.st.id = x.st.id
    PROVE  Apt(y) /\ (Kept(x) => Kept(y))
BY SameBody DEF Apt

LEMMA PolicyId ==
    ASSUME NEW s \in Memory
    PROVE  /\ \A j \in BOOLEAN : Observe(s, j).id = s.id
           /\ \A good \in BOOLEAN : JudgeWrite(s, good).id = s.id
           /\ \A c \in Body : Bind(s, c).id = c
<1>1. ASSUME NEW j \in BOOLEAN PROVE Observe(s, j).id = s.id
  BY DEF Observe, forget_drift, Memory
<1>2. ASSUME NEW good \in BOOLEAN PROVE JudgeWrite(s, good).id = s.id
  BY DEF JudgeWrite, Memory
<1>3. ASSUME NEW c \in Body PROVE Bind(s, c).id = c
  BY DEF Bind, forget_drift, Memory
<1> QED BY <1>1, <1>2, <1>3

\* The permission has just been read, of the body that is bound.
LEMMA SourceWriteBody ==
    ASSUME NEW x, Apt(x), Kept(x), x.cur.auth = x.st.id, x.cur.source, step_source_write(x)
    PROVE  BodyInv'
<1>1. CASE x.cur.may
  <2>1. x.cam.id \in Body /\ x.cur.source \in BOOLEAN
    BY DEF Apt, Ready, World, View, Cycle
  <2>2. "source" \in Op /\ PhaseOf["source"] = "SourceWrite"
    BY DEF Op, PhaseOf
  <2>3. Await(Issue(x, "source", x.cam.id), PhaseOf["source"], "source")
    BY <1>1, <2>2 DEF step_source_write
  <2> QED BY <1>1, <2>1, <2>2, <2>3, CallBody DEF Apt
<1>2. CASE ~x.cur.may
  BY <1>2, EndBody DEF step_source_write, Outcome
<1> QED BY <1>1, <1>2

LEMMA EvaluateBody ==
    ASSUME NEW x0, Apt(x0), Kept(x0), evaluate(x0)
    PROVE  BodyInv'
<1>1. PICK may, jumped \in BOOLEAN :
        IF Gated(x0, may).cur.source THEN step_source_write(Gated(x0, may))
        ELSE IF ~Gated(x0, may).cam.tc THEN FinishCycle(Gated(x0, may), "skip")
        ELSE decided(Measured(Gated(x0, may), jumped))
  BY DEF evaluate
<1> DEFINE x == Gated(x0, may)
           c == [x0.cur EXCEPT !.may = may, !.auth = x0.st.id]
<1>0. x0 \in World /\ x0.cur \in Cycle /\ x0.cur.live /\ x0.st \in Memory /\ x0.st.id \in Body
  BY DEF Apt, Ready, World, Memory
<1>2. /\ Ready(x) /\ x.calls = x0.calls /\ x.cam = x0.cam /\ x.st = x0.st /\ x.cur = c
  <2>1. c \in Cycle /\ c.live
    BY <1>0 DEF Cycle
  <2>2. x = [x0 EXCEPT !.cur = c]
    BY <1>0 DEF Gated, World, Cycle
  <2> HIDE DEF c, x
  <2> QED BY <1>0, <2>1, <2>2, CycleReady DEF Apt, World
<1>3. c.may = may /\ c.auth = x0.st.id /\ c.source = x0.cur.source
  BY <1>0 DEF Cycle
<1> HIDE DEF x, c
<1>4. Apt(x) /\ Kept(x) /\ x.cur.may = may /\ x.cur.auth = x.st.id
  BY <1>2, <1>3, AptSame
<1> DEFINE y == Measured(x, jumped)
           d == [x.cur EXCEPT !.error = TRUE]
           s == Observe(x.st, jumped)
<1>5. Ready(y) /\ y.calls = x.calls /\ y.cam = x.cam /\ y.st = s /\ y.cur = d
  <2>0. x \in World /\ x.cur \in Cycle /\ x.cur.live /\ x.st \in Memory
    BY <1>2 DEF Ready, World
  <2>1. d \in Cycle /\ d.live
    BY <2>0 DEF Cycle
  <2>2. s \in Memory
    BY <2>0, ObserveType
  <2>3. y = [[x EXCEPT !.st = s] EXCEPT !.cur = d]
    BY <2>0 DEF Measured, World
  <2> HIDE DEF d, s, y
  <2> QED BY <1>2, <2>0, <2>1, <2>2, <2>3, CycleReady, RememberReady DEF World
<1>6. s.id = x.st.id /\ d.may = may /\ d.auth = x.st.id /\ d.source = x.cur.source
  BY <1>0, <1>2, <1>3, PolicyId DEF Cycle, Ready, World
<1>7. IF x.cur.source THEN step_source_write(x)
      ELSE IF ~x.cam.tc THEN FinishCycle(x, "skip")
      ELSE decided(y)
  BY <1>1 DEF x
<1> HIDE DEF y, d, s
<1>8. Apt(y) /\ Kept(y)
  BY <1>4, <1>5, <1>6, AptSame
<1>9. CASE x.cur.source
  BY <1>4, <1>7, <1>9, SourceWriteBody
<1>10. CASE ~x.cur.source /\ ~x.cam.tc
  BY <1>4, <1>7, <1>10, EndBody DEF Outcome
<1>11. CASE ~x.cur.source /\ decided(y)
  <2>1. PICK action \in Verdicts(y) :
          IF Writes(y, action) THEN step_align(y) ELSE FinishCycle(y, "skip")
    BY <1>11 DEF decided
  <2>2. CASE Writes(y, action)
    <3>1. y.cur.may
      <4> SUFFICES ASSUME ~y.cur.may PROVE FALSE
        OBVIOUS
      <4>1. action = "writes-disabled"
        BY <2>1 DEF Verdicts, Decide
      <4> QED BY <2>2, <4>1 DEF Writes, gate_is_advisory
    <3>2. y.cur.auth = y.st.id /\ ~y.cur.source
      BY <1>5, <1>6, <1>11
    <3>3. Await(y, "Aligning", "align") /\ "Aligning" \in Linked
      BY <2>1, <2>2 DEF step_align, Linked
    <3> QED BY <1>8, <3>1, <3>2, <3>3, AwaitBody DEF Apt
  <2>3. CASE ~Writes(y, action)
    BY <1>8, <2>1, <2>3, EndBody DEF Outcome
  <2> QED BY <2>2, <2>3
<1> QED BY <1>7, <1>9, <1>10, <1>11

LEMMA ObserveBody ==
    ASSUME NEW x0, NEW fresh, Apt(x0), Kept(x0), step_observe(x0, fresh)
    PROVE  BodyInv'
<1> DEFINE c == [x0.cur EXCEPT !.reached = TRUE]
           x == [x0 EXCEPT !.cur.reached = TRUE]
<1>1. Ready(x) /\ x.calls = x0.calls /\ x.cam = x0.cam /\ x.st = x0.st
  <2>0. x0 \in World /\ x0.cur \in Cycle /\ x0.cur.live
    BY DEF Apt, Ready, World
  <2>1. c \in Cycle /\ c.live
    BY <2>0 DEF Cycle
  <2>2. x = [x0 EXCEPT !.cur = c]
    BY <2>0 DEF World
  <2> HIDE DEF c, x
  <2> QED BY <2>0, <2>1, <2>2, CycleReady DEF Apt, World
<1>2. evaluate(x) \/ Await(x, "Observing", "observe")
  BY DEF step_observe
<1> HIDE DEF x
<1>3. Apt(x) /\ Kept(x) /\ "Observing" \in Linked
  BY <1>1, AptSame DEF Linked
<1> QED BY <1>2, <1>3, EvaluateBody, AwaitBody DEF Apt

LEMMA SubscribeBody ==
    ASSUME NEW x, Apt(x), Kept(x), step_subscribe(x)
    PROVE  BodyInv'
<1>1. x.cam.id \in Body
  BY DEF Apt, Ready, World, View
<1>2. "subscribe" \in Op /\ PhaseOf["subscribe"] = "Subscribing"
  BY DEF Op, PhaseOf
<1>3. CASE x.cam.sub
  BY <1>3, ObserveBody DEF step_subscribe
<1>4. CASE ~x.cam.sub
  <2>1. Await(Issue(x, "subscribe", x.cam.id), PhaseOf["subscribe"], "subscribe")
    BY <1>2, <1>4 DEF step_subscribe
  <2> QED BY <1>1, <1>2, <2>1, CallBody DEF Apt
<1> QED BY <1>3, <1>4

LEMMA ConnectToBody ==
    ASSUME NEW x, NEW c \in Body, Apt(x), connect_to(x, c)
    PROVE  BodyInv'
<1> DEFINE d == [x.cur EXCEPT !.try = c]
           y == [x EXCEPT !.cur.try = c]
<1>1. Ready(y) /\ y.calls = x.calls /\ y.cam = x.cam /\ y.st = x.st /\ y.cur.try = c
  <2>0. x \in World /\ x.cur \in Cycle /\ x.cur.live
    BY DEF Apt, Ready, World
  <2>1. d \in Cycle /\ d.live /\ d.try = c
    BY <2>0 DEF Cycle
  <2>2. y = [x EXCEPT !.cur = d]
    BY <2>0 DEF World
  <2> HIDE DEF d, y
  <2> QED BY <2>0, <2>1, <2>2, CycleReady DEF Apt, World
<1>2. "connect" \in Op /\ PhaseOf["connect"] = "Connecting" /\ "connect" \notin Spoken
  BY DEF Op, PhaseOf, Spoken
<1>3. Await(Issue(y, "connect", c), PhaseOf["connect"], "connect")
  BY <1>2 DEF connect_to
<1> HIDE DEF y
<1>4. Apt(y)
  BY <1>1, AptSame
<1> QED BY <1>1, <1>2, <1>3, <1>4, CallBody DEF Apt

LEMMA ScanBody ==
    ASSUME NEW x, Apt(x), HeldOut(x) => ~WantsBound(x), step_scan(x)
    PROVE  BodyInv'
<1> DEFINE d == [x.cur EXCEPT !.tried = TRUE]
           y == [x EXCEPT !.cur.tried = TRUE]
<1>1. Ready(y) /\ y.calls = x.calls /\ y.cam = x.cam /\ y.st = x.st /\ y.cur.want = x.cur.want
  <2>0. x \in World /\ x.cur \in Cycle /\ x.cur.live
    BY DEF Apt, Ready, World
  <2>1. d \in Cycle /\ d.live /\ d.want = x.cur.want
    BY <2>0 DEF Cycle
  <2>2. y = [x EXCEPT !.cur = d]
    BY <2>0 DEF World
  <2> HIDE DEF d, y
  <2> QED BY <2>0, <2>1, <2>2, CycleReady DEF Apt, World
<1>2. "scan" \in Op /\ PhaseOf["scan"] = "Scanning" /\ "scan" \notin Spoken /\ NoCam \in Body
  BY DEF Op, PhaseOf, Spoken, Body
<1>3. Await(Issue(y, "scan", NoCam), PhaseOf["scan"], "scan")
  BY <1>2 DEF step_scan
<1> HIDE DEF y
<1>4. Apt(y) /\ (HeldOut(y) => ~WantsBound(y))
  BY <1>1, AptSame, SameBody
<1> QED BY <1>2, <1>3, <1>4, CallBody DEF Apt

\* Either what is held is used or the cycle does not want it.
LEMMA ConnectBody ==
    ASSUME NEW x, NEW heard \in Body, Apt(x), step_connect(x, heard)
    PROVE  BodyInv'
<1>0. x \in World /\ x.cur.want \in Want /\ x.st.id \in Body /\ x.cam.id \in Body
  BY DEF Apt, Ready, World, Cycle, Memory, View
<1>1. CASE bound_is_wanted(x) /\ x.cam.id # NoCam /\ x.cam.sub
  <2> DEFINE y == [x EXCEPT !.missed = FALSE]
  <2>1. Ready(y) /\ y.calls = x.calls /\ y.cam = x.cam /\ y.st = x.st
    BY <1>0 DEF Apt, Ready, World
  <2>2. \E fresh \in BOOLEAN : step_observe(y, fresh)
    BY <1>1 DEF step_connect
  <2> HIDE DEF y
  <2>3. Kept(x)
    BY <1>1 DEF Kept, Apt, Tied
  <2> QED BY <2>1, <2>2, <2>3, AptSame, ObserveBody
<1>2. CASE \/ connect_to(x, x.st.id)
           \/ connect_to(x, heard)
  BY <1>0, <1>2, ConnectToBody
<1>3. CASE /\ ~(bound_is_wanted(x) /\ x.cam.id # NoCam /\ x.cam.sub)
           /\ ~(bound_is_wanted(x) /\ x.st.id # NoCam)
           /\ step_scan(x)
  <2>1. ASSUME HeldOut(x) PROVE ~WantsBound(x)
    <3>1. x.cam.id = x.st.id /\ x.cam.id # NoCam
      BY <2>1 DEF HeldOut, Apt, Tied, Spoken
    <3>2. ~bound_is_wanted(x)
      BY <1>3, <3>1
    <3> QED BY <3>1, <3>2 DEF WantsBound, bound_is_wanted
  <2> QED BY <1>3, <2>1, ScanBody
<1> QED BY <1>1, <1>2, <1>3 DEF step_connect

LEMMA WriteBody ==
    ASSUME NEW x, Apt(x), Kept(x), x.cur.may, x.cur.auth = x.st.id, ~x.cur.source, step_write(x)
    PROVE  BodyInv'
<1>1. x.cam.id \in Body /\ x.cur.source \in BOOLEAN
  BY DEF Apt, Ready, World, View, Cycle
<1>2. "write" \in Op /\ PhaseOf["write"] = "Writing"
  BY DEF Op, PhaseOf
<1>3. Await(Issue(x, "write", x.cam.id), PhaseOf["write"], "write")
  BY <1>2 DEF step_write
<1> QED BY <1>1, <1>2, <1>3, CallBody DEF Apt

LEMMA FailedApt == ASSUME NEW x, Apt(x) PROVE Apt(Failed(x))
<1>1. Ready(Failed(x))
  BY FailedReady DEF Apt
<1>2. Failed(x).calls = x.calls /\ Failed(x).cam = x.cam /\ Failed(x).st.id = x.st.id
  BY DEF Failed, Apt, Ready, World, Memory
<1> QED BY <1>1, <1>2, AptSame

LEMMA JudgeBody ==
    ASSUME NEW x, Apt(x), judge(x)
    PROVE  BodyInv'
<1>1. "write" \in Outcome \ {"skip:no-camera"}
  BY DEF Outcome
<1>2. CASE ~x.cam.tc
  BY <1>1, <1>2, FailedApt, EndBody DEF judge
<1>3. CASE x.cam.tc
  <2>1. PICK good \in BOOLEAN :
          FinishCycle([x EXCEPT !.st = JudgeWrite(@, good)], "write")
    BY <1>3 DEF judge
  <2> DEFINE s == JudgeWrite(x.st, good)
             y == [x EXCEPT !.st = s]
  <2>2. s \in Memory /\ s.id = x.st.id
    BY JudgeType, PolicyId DEF Apt, Ready, World
  <2>3. FinishCycle(y, "write")
    BY <2>1
  <2> HIDE DEF s
  <2>4. Ready(y) /\ y.calls = x.calls /\ y.cam = x.cam /\ y.st.id = x.st.id
    BY <2>2, RememberReady DEF Apt, Ready, World
  <2> HIDE DEF y
  <2> QED BY <1>1, <2>3, <2>4, AptSame, EndBody
<1> QED BY <1>2, <1>3

LEMMA VerifyBody ==
    ASSUME NEW x, Apt(x), Kept(x), step_verify(x)
    PROVE  BodyInv'
BY JudgeBody, AwaitBody DEF step_verify, Apt, Linked

-----------------------------------------------------------------------------
(* What a handler starts from.                                             *)

\* A completion that the running cycle was owed.
LEMMA AnsweredApt ==
    ASSUME IInv, BodyInv, env' = env, NEW call \in calls, Current(call), NEW v \in View,
           v.id \in {NoCam, cam.id}, v.sub => v.id = cam.id,
           v.sub /\ ~cam.sub => cam.id = st.id /\ cam.id # NoCam
    PROVE  /\ Apt(Answered(call, v)) /\ Answered(call, v).cur = cur /\ Answered(call, v).st = st
           /\ Answered(call, v).cam = v /\ Answered(call, v).calls = calls \ {call}
<1> DEFINE x == Answered(call, v)
<1>1. Ready(x) /\ x.cur = cur /\ x.st = st /\ x.cam = v /\ x.calls = calls \ {call}
  BY AnsweredReady DEF Answered, Here
<1>2. Here.calls = calls /\ Here.cam = cam /\ Here.st = st
  BY DEF Here
<1> HIDE DEF x
<1>4. Tied(x)
  BY <1>1, <1>2 DEF BodyInv, Tied
<1>5. date_known
  BY DEF BodyInv, Live, Current
<1> QED BY <1>1, <1>4, <1>5 DEF Apt, x

\* The cycle's connect comes up: nothing else can, and nothing is subscribed.
LEMMA ConnectedApt ==
    ASSUME IInv, BodyInv, env' = env, NEW call \in calls, Current(call), call.op = "connect", call.cam # NoCam
    PROVE  LET x == ConnectOk(call)
           IN  /\ x \in World /\ Ready(x) /\ date_known
               /\ x.cur = cur /\ x.st = st /\ x.cam = Fresh(cur.try)
               /\ \A c \in x.calls : c.op = "connect" /\ c.cam = NoCam
<1>0. call.cam \in Body /\ calls \subseteq Call
  BY DEF IInv, TypeOK, Call
<1> DEFINE x == ConnectOk(call)
<1>1. Ready(x)
  BY <1>0, ConnectedReady
<1>2. x.cur = cur /\ x.st = st /\ x.cam = Fresh(call.cam) /\ x.calls = Doomed(calls \ {call})
  BY DEF ConnectOk, Here
<1>3. call.cam = cur.try /\ \A d \in calls : d.op = "connect"
  BY DEF BodyInv, Owed, Here, Current
<1>4. \A c \in Doomed(calls \ {call}) : c.op = "connect" /\ c.cam = NoCam
  <2> DEFINE f(d) == [d EXCEPT !.cam = IF d.op = "connect" THEN NoCam ELSE @]
  <2>1. \A d \in calls : f(d).op = "connect" /\ f(d).cam = NoCam
    BY <1>0, <1>3 DEF Call
  <2>2. Doomed(calls \ {call}) = {f(d) : d \in calls \ {call}}
    BY DEF Doomed
  <2> HIDE DEF f
  <2> QED BY <2>1, <2>2
<1>5. date_known
  BY DEF BodyInv, Live, Current
<1> HIDE DEF x
<1> QED BY <1>1, <1>2, <1>3, <1>4, <1>5 DEF Ready, x

\* The daemon is waiting for something else than an answer.
LEMMA WaitingApt ==
    ASSUME IInv, BodyInv, env' = env, busy, step \notin Guarded, NEW v \in View,
           v.id = cam.id, v.sub = cam.sub
    PROVE  LET x == [Here EXCEPT !.cam = v]
           IN  /\ Apt(x) /\ (phase \in Linked => Kept(x))
               /\ x.cur = cur /\ x.st = st /\ x.cam = v
<1> DEFINE x == [Here EXCEPT !.cam = v]
<1>1. Ready(Here) /\ Here \in World
  BY HereWhole DEF Ready
<1>2. x.cur = cur /\ x.st = st /\ x.cam = v /\ x.calls = calls /\ Here.calls = calls /\ Here.cam = cam /\ Here.st = st
  BY DEF Here
<1>3. Ready(x)
  BY <1>1 DEF Ready, World
<1> HIDE DEF x
<1>4. Tied(x) /\ (phase \in Linked => Kept(x))
  BY <1>2 DEF BodyInv, Tied, Kept
<1>5. date_known
  BY DEF BodyInv
<1> QED BY <1>2, <1>3, <1>4, <1>5 DEF Apt, x

\* A backstop ends the cycle with its call still out.
LEMMA BackstopBody ==
    ASSUME IInv, BodyInv, env' = env, busy, NEW o \in Outcome,
           NEW x \in World, x.cur = cur, x.calls = calls, x.st.id = st.id,
           x.cam = cam \/ x.cam = Disconnected,
           o = "skip:no-camera" /\ HeldOut(Here) => ~WantsBound(Here),
           FinishCycle(x, o)
    PROVE  BodyInv'
<1>1. Here.cur = cur /\ Here.calls = calls /\ Here.cam = cam /\ Here.st = st
  BY DEF Here
<1>2. Disconnected.id = NoCam /\ ~Disconnected.sub
  BY DEF Disconnected, Fresh
<1>3. Tied(x)
  BY <1>1, <1>2 DEF BodyInv, Tied
<1>4. HeldOut(x) => HeldOut(Here)
  BY <1>1, <1>2 DEF HeldOut
<1>5. WantsBound(x) <=> WantsBound(Here)
  BY <1>1 DEF WantsBound
<1>6. Owed(x)
  BY <1>1, <1>2, <1>4, <1>5 DEF BodyInv, Owed
<1>7. date_known
  BY DEF BodyInv
<1> QED BY <1>3, <1>4, <1>5, <1>6, <1>7, FinishBody

\* A completion of another cycle, and what the camera says to nobody.
LEMMA QuietBody ==
    ASSUME IInv, BodyInv, UNCHANGED <<phase, cur, st>>, NEW cs, calls' = cs, cs \subseteq calls,
           date_known => date_known',
           cam'.id \in {NoCam, cam.id}, cam'.sub => cam'.id = cam.id /\ cam'.id = st.id /\ cam'.id # NoCam,
           cam'.sub /\ ~cam.sub => \E c \in calls : c.op = "subscribe" /\ c.cam = cam.id
    PROVE  BodyInv'
<1>1. /\ Here.cur = cur /\ Here.calls = calls /\ Here.cam = cam /\ Here.st = st
      /\ Here'.cur = cur /\ Here'.calls = cs /\ Here'.cam = cam' /\ Here'.st = st
  BY DEF Here
<1>2. (HeldOut(Here))' => HeldOut(Here)
  BY <1>1 DEF HeldOut
<1>3. (WantsBound(Here))' <=> WantsBound(Here)
  BY <1>1 DEF WantsBound
<1>4. (Tied(Here))' /\ (phase \in Linked => (Kept(Here))')
  BY <1>1 DEF BodyInv, Tied, Kept
<1>5. \A c \in cs : c.live /\ c.op = "connect" => ~cam'.sub
  BY <1>1 DEF BodyInv, Owed
<1>6. (Owed(Here))'
  BY <1>1, <1>2, <1>3, <1>5 DEF BodyInv, Owed
<1>7. Live' \subseteq Live /\ busy' = busy
  BY DEF Live, busy
<1> QED BY <1>2, <1>3, <1>4, <1>6, <1>7 DEF BodyInv

-----------------------------------------------------------------------------
(* The steps of Next, again.                                               *)

LEMMA DroppedConnectBody ==
    ASSUME IInv, BodyInv, NEW call \in calls, call.op = "connect", call.cam # NoCam,
           Drop(ConnectOk(call)), env' = env
    PROVE  BodyInv'
<1>1. /\ cam' = Fresh(call.cam) /\ calls' = Doomed(calls \ {call})
      /\ UNCHANGED <<phase, cur, st>>
  BY DEF Drop, ConnectOk, Here
<1>2. /\ Here.cur = cur /\ Here.calls = calls /\ Here.cam = cam /\ Here.st = st
      /\ Here'.cur = cur /\ Here'.calls = calls' /\ Here'.cam = cam' /\ Here'.st = st
  BY <1>1 DEF Here
<1>3. calls \ {call} \subseteq Call /\ \A d \in calls : d.op \notin Spoken
  BY <1>2 DEF IInv, TypeOK, BodyInv, Tied
<1>4. \A e \in calls' : /\ e.op = "connect" => e.cam = NoCam
                        /\ \E d \in calls : d.op = e.op /\ d.live = e.live
                        /\ e.op \notin Spoken
  <2> DEFINE f(d) == [d EXCEPT !.cam = IF d.op = "connect" THEN NoCam ELSE @]
  <2>1. \A d \in calls \ {call} : f(d).op = d.op /\ f(d).live = d.live /\ (d.op = "connect" => f(d).cam = NoCam)
    BY <1>3 DEF Call
  <2>2. calls' = {f(d) : d \in calls \ {call}}
    BY <1>1 DEF Doomed
  <2> HIDE DEF f
  <2> QED BY <1>3, <2>1, <2>2
<1>5. ~cam'.sub
  BY <1>1 DEF Fresh
<1>6. ~(HeldOut(Here))'
  BY <1>2, <1>4, <1>5 DEF HeldOut, Spoken
<1>7. (Tied(Here))'
  BY <1>2, <1>4, <1>5 DEF Tied
<1>8. (Owed(Here))'
  <2> SUFFICES ASSUME NEW e \in calls', e.live
               PROVE  /\ e.op = "connect" => /\ e.cam \in {NoCam, cur.try} /\ ~cam'.sub
                                             /\ \A d \in calls' : d.op = "connect"
                      /\ e.op \notin {"write", "source"}
    BY <1>2, <1>6 DEF Owed
  <2>1. PICK d \in calls : d.op = e.op /\ d.live
    BY <1>4
  <2>2. e.op = "connect" => \A g \in calls : g.op = "connect"
    BY <1>2, <2>1 DEF BodyInv, Owed
  <2>3. e.op \notin {"write", "source"}
    BY <1>4 DEF Spoken
  <2> QED BY <1>4, <1>5, <2>2, <2>3
<1>9. phase \notin Linked /\ "Aligning" \in Linked
  BY <1>2 DEF BodyInv, Kept, Linked
<1>10. Live' # {} => Live # {}
  BY <1>4 DEF Live
<1>11. busy' = busy /\ date_known' = date_known
  BY <1>1 DEF busy, date_known, env
<1> QED BY <1>1, <1>6, <1>7, <1>8, <1>9, <1>10, <1>11 DEF BodyInv

LEMMA AnswerConnectBody ==
    ASSUME IInv, BodyInv, NEW call \in calls, NEW ok \in BOOLEAN, AnswerConnect(call, ok)
    PROVE  BodyInv'
<1>1. PICK x \in IF ok THEN {ConnectOk(call)}
                ELSE {Answered(call, v) : v \in {cam, Lost(cam)}} :
        IF Current(call) THEN done_connect(x, ok) /\ started' = started
        ELSE Drop(x)
  BY DEF AnswerConnect
<1>2. env' = env /\ call.op = "connect" /\ (ok => call.cam # NoCam)
  BY DEF AnswerConnect, env
<1>3. CASE ok /\ ~Current(call)
  BY <1>1, <1>2, <1>3, DroppedConnectBody
<1>4. CASE ok /\ Current(call)
  <2>0. x = ConnectOk(call) /\ done_connect(x, ok)
    BY <1>1, <1>4
  <2>1. /\ x \in World /\ Ready(x) /\ date_known
        /\ x.cur = cur /\ x.st = st /\ x.cam = Fresh(cur.try)
        /\ \A c \in x.calls : c.op = "connect" /\ c.cam = NoCam
    BY <1>2, <1>4, <2>0, ConnectedApt
  <2> DEFINE s == Bind(x.st, x.cur.try)
             y == [x EXCEPT !.st = s, !.missed = FALSE]
  <2>2. s \in Memory /\ s.id = cur.try
    BY <2>1, BindType, PolicyId DEF World, Cycle
  <2>3. step_subscribe(y)
    BY <1>4, <2>0 DEF done_connect
  <2> HIDE DEF s
  <2>4. Ready(y) /\ y.calls = x.calls /\ y.cam = x.cam /\ y.st = s
    BY <2>1, <2>2 DEF Ready, World
  <2> HIDE DEF y
  <2>5. y.cam.id = cur.try /\ ~y.cam.sub
    BY <2>1, <2>4 DEF Fresh
  <2>6. Tied(y) /\ Kept(y)
    BY <2>1, <2>2, <2>4, <2>5 DEF Tied, Kept, Spoken
  <2> QED BY <1>2, <2>1, <2>3, <2>4, <2>6, SubscribeBody DEF Apt
<1>5. CASE ~ok
  <2>1. PICK v \in {cam, Lost(cam)} : x = Answered(call, v)
    BY <1>1, <1>5
  <2>2. v \in View /\ v.id \in {NoCam, cam.id} /\ (v.sub => v = cam)
    BY <2>1 DEF IInv, TypeOK, View, Lost, Body
  <2>3. CASE Current(call)
    <3>1. Apt(x) /\ x.cur = cur /\ x.st = st /\ x.cam = v /\ x.calls = calls \ {call}
      BY <1>2, <2>1, <2>2, <2>3, AnsweredApt DEF View
    <3>2. ~cam.sub /\ \A d \in calls : d.op = "connect"
      BY <1>2, <2>3 DEF BodyInv, Owed, Here, Current
    <3>3. ~HeldOut(x)
      BY <2>2, <3>1, <3>2 DEF HeldOut
    <3>4. CASE step_scan(x)
      BY <3>1, <3>3, <3>4, ScanBody
    <3>5. CASE FinishCycle(Miss(x), "skip:no-camera")
      <4>1. Ready(Miss(x)) /\ Miss(x).calls = x.calls /\ Miss(x).cam = x.cam /\ Miss(x).st = x.st
        BY <3>1 DEF Apt, Ready, World, Miss
      <4>2. Apt(Miss(x)) /\ ~HeldOut(Miss(x))
        BY <3>1, <3>3, <4>1, AptSame DEF HeldOut
      <4> QED BY <3>5, <4>2, AptOwed, FinishBody DEF Apt
    <3> QED BY <1>1, <1>5, <2>3, <3>4, <3>5 DEF done_connect
  <2>4. CASE ~Current(call)
    <3>1. UNCHANGED <<phase, cur, st>> /\ calls' = calls \ {call} /\ cam' = v
      BY <1>1, <2>1, <2>4 DEF Drop, Answered, Here
    <3>2. date_known' = date_known
      BY <1>2 DEF date_known, env
    <3>3. cam.sub => cam.id = st.id /\ cam.id # NoCam
      BY DEF BodyInv, Tied, Here
    <3> QED BY <2>2, <3>1, <3>2, <3>3, QuietBody
  <2> QED BY <2>3, <2>4
<1> QED BY <1>3, <1>4, <1>5

\* What any dropped completion but a connect's leaves.
LEMMA DroppedBody ==
    ASSUME IInv, BodyInv, NEW call \in calls, Drop(Answered(call, cam)), env' = env
    PROVE  BodyInv'
<1>1. UNCHANGED <<phase, cur, st>> /\ calls' = calls \ {call} /\ cam' = cam
  BY DEF Drop, Answered, Here
<1>2. date_known' = date_known
  BY DEF date_known, env
<1>3. cam.sub => cam.id = st.id /\ cam.id # NoCam
  BY DEF BodyInv, Tied, Here
<1> QED BY <1>1, <1>2, <1>3, QuietBody

LEMMA AnswerScanBody ==
    ASSUME IInv, BodyInv, NEW call \in calls, NEW pick \in Body, AnswerScan(call, pick)
    PROVE  BodyInv'
<1> DEFINE x == Answered(call, cam)
<1>1. env' = env /\ call.op = "scan" /\ cam \in View
  BY DEF AnswerScan, env, IInv, TypeOK
<1>2. IF Current(call) THEN on_scan(x, pick) ELSE Drop(x)
  BY DEF AnswerScan
<1>3. CASE Current(call)
  <2>1. Apt(x) /\ x.cur = cur /\ x.st = st /\ x.cam = cam /\ x.calls = calls \ {call}
    BY <1>1, <1>3, AnsweredApt
  <2> HIDE DEF x
  <2>2. HeldOut(Here) => ~WantsBound(Here)
    BY <1>1, <1>3 DEF BodyInv, Owed, Here, Current
  <2>3. HeldOut(x) => ~WantsBound(x)
    BY <2>1, <2>2 DEF HeldOut, WantsBound, Here
  <2>4. CASE pick = NoCam
    <3>1. Ready(Miss(x)) /\ Miss(x).calls = x.calls /\ Miss(x).cam = x.cam /\ Miss(x).st = x.st /\ Miss(x).cur = x.cur
      BY <2>1 DEF Apt, Ready, World, Miss
    <3>2. Apt(Miss(x)) /\ (HeldOut(Miss(x)) => ~WantsBound(Miss(x)))
      BY <2>1, <2>3, <3>1, AptSame, SameBody
    <3>3. FinishCycle(Miss(x), "skip:no-camera")
      BY <1>2, <1>3, <2>4 DEF on_scan
    <3> QED BY <3>2, <3>3, AptOwed, FinishBody DEF Apt
  <2>5. CASE pick # NoCam
    BY <1>2, <1>3, <2>1, <2>5, ConnectToBody DEF on_scan
  <2> QED BY <2>4, <2>5
<1>4. CASE ~Current(call)
  BY <1>1, <1>2, <1>4, DroppedBody
<1> QED BY <1>3, <1>4

\* Something asked over the connection is answered by the bound body.
LEMMA SpokenKept ==
    ASSUME IInv, BodyInv, NEW call \in calls, call.op \in Spoken, call.cam = cam.id, cam.id # NoCam,
           NEW x, x.cam.id = cam.id, x.st = st, x.calls = calls \ {call}
    PROVE  Kept(x) /\ cam.id = st.id
<1>1. Here.calls = calls /\ Here.st = st /\ Here.cam = cam
  BY DEF Here
<1> QED BY <1>1 DEF BodyInv, Tied, Kept

LEMMA AnswerSubscribeBody ==
    ASSUME IInv, BodyInv, NEW call \in calls, NEW ok \in BOOLEAN, AnswerSubscribe(call, ok)
    PROVE  BodyInv'
<1> DEFINE v == IF ok THEN [cam EXCEPT !.sub = TRUE] ELSE cam
           x == Answered(call, v)
<1>1. env' = env /\ call.op \in Spoken /\ call.op = "subscribe" /\ (ok => cam.id # NoCam /\ cam.id = call.cam)
  BY DEF AnswerSubscribe, env, Spoken
<1>2. IF Current(call) THEN done_subscribe(x, ok) ELSE Drop(x)
  BY DEF AnswerSubscribe
<1>3. v \in View /\ v.id = cam.id /\ (~ok => v = cam) /\ (ok => v = [cam EXCEPT !.sub = TRUE])
  BY DEF IInv, TypeOK, View
<1>4. ok => cam.id = st.id
  BY <1>1 DEF BodyInv, Tied, Here
<1>5. CASE Current(call)
  <2>1. Apt(x) /\ x.cur = cur /\ x.st = st /\ x.cam = v /\ x.calls = calls \ {call}
    BY <1>1, <1>3, <1>4, <1>5, AnsweredApt
  <2> HIDE DEF x, v
  <2>2. CASE ok
    <3>1. Kept(x)
      BY <1>1, <1>3, <2>1, <2>2, SpokenKept
    <3> QED BY <1>2, <1>5, <2>1, <2>2, <3>1, ObserveBody DEF done_subscribe
  <2>3. CASE ~ok
    BY <1>2, <1>5, <2>1, <2>3, EndBody DEF done_subscribe, Outcome
  <2> QED BY <2>2, <2>3
<1>6. CASE ~Current(call)
  <2>1. UNCHANGED <<phase, cur, st>> /\ calls' = calls \ {call} /\ cam' = v
    BY <1>2, <1>6 DEF Drop, Answered, Here
  <2>2. date_known' = date_known
    BY <1>1 DEF date_known, env
  <2>3. cam.sub => cam.id = st.id /\ cam.id # NoCam
    BY DEF BodyInv, Tied, Here
  <2>4. cam'.sub /\ ~cam.sub => \E c \in calls : c.op = "subscribe" /\ c.cam = cam.id
    BY <1>1, <1>3, <2>1
  <2>5. cam'.id = cam.id /\ (cam'.sub => cam.sub \/ ok)
    BY <1>3, <2>1
  <2> QED BY <1>1, <1>4, <2>1, <2>2, <2>3, <2>4, <2>5, QuietBody
<1> QED BY <1>5, <1>6

LEMMA AnswerControlBody ==
    ASSUME IInv, BodyInv, NEW call \in calls, NEW ok \in BOOLEAN, AnswerControl(call, ok)
    PROVE  BodyInv'
<1> DEFINE x == Answered(call, cam)
<1>1. env' = env /\ call.op \in Spoken /\ (ok => cam.id # NoCam /\ cam.id = call.cam) /\ cam \in View
  BY DEF AnswerControl, env, Spoken, IInv, TypeOK
<1>2. \/ ~Current(call) /\ Drop(x)
      \/ /\ Current(call)
         /\ \/ done_write(x, ok)
            \/ done_source(x, ok)
  BY DEF AnswerControl
<1>3. CASE ~Current(call)
  BY <1>1, <1>2, <1>3, DroppedBody
<1>4. CASE Current(call)
  <2>1. Apt(x) /\ x.cur = cur /\ x.st = st /\ x.cam = cam /\ x.calls = calls \ {call}
    BY <1>1, <1>4, AnsweredApt
  <2> HIDE DEF x
  <2>2. ok => Kept(x)
    BY <1>1, <2>1, SpokenKept
  <2>3. CASE done_source(x, ok)
    BY <2>1, <2>2, <2>3, EndBody, AwaitBody DEF done_source, Apt, Outcome, Linked
  <2>4. CASE done_write(x, ok) /\ ~ok
    BY <2>1, <2>4, FailedApt, EndBody DEF done_write, Outcome
  <2>5. CASE done_write(x, ok) /\ ok
    <3> DEFINE w == [x.cam EXCEPT !.tc = FALSE]
               y == [x EXCEPT !.cam.tc = FALSE]
    <3>1. Ready(x) /\ x \in World /\ x.cam \in View
      BY <2>1 DEF Apt, Ready, World
    <3>2. w \in View /\ w.id = x.cam.id /\ w.sub = x.cam.sub
      BY <3>1 DEF View
    <3>3. y = [x EXCEPT !.cam = w]
      BY <3>1 DEF World
    <3>4. Await(y, "Writing", "settle")
      BY <2>5 DEF done_write
    <3> HIDE DEF w, y
    <3>5. Ready(y) /\ y.calls = x.calls /\ y.st = x.st /\ y.cam = w /\ y.cur = x.cur
      BY <3>1, <3>2, <3>3 DEF Ready, World
    <3>6. Tied(y) /\ Kept(y)
      BY <2>1, <2>2, <2>5, <3>2, <3>5 DEF Apt, Tied, Kept
    <3> QED BY <2>1, <3>4, <3>5, <3>6, AwaitBody DEF Apt, Linked
  <2> QED BY <1>2, <1>4, <2>3, <2>4, <2>5
<1> QED BY <1>3, <1>4

LEMMA StepTimerBody == ASSUME IInv, BodyInv, StepTimer PROVE BodyInv'
<1>0. env' = env /\ Here \in World /\ Here.cur = cur /\ Here.calls = calls /\ Here.st = st /\ Here.cam = cam
  BY DEF StepTimer, env, IInv, TypeOK, Here, World
<1>1. step # "none" /\ busy /\ PhaseOf[step] = phase
  BY DEF StepTimer, IInv, TypeOK, NeverWedged, Phase, Step, busy
<1>2. {"skip:no-camera", "skip", "source", "write"} \subseteq Outcome
  BY DEF Outcome
<1>3. ASSUME step \notin Guarded
      PROVE  Apt(Here) /\ (phase \in Linked => Kept(Here))
  <2>1. cam \in View /\ [Here EXCEPT !.cam = cam] = Here
    BY DEF Here, IInv, TypeOK
  <2> QED BY <1>0, <1>1, <1>3, <2>1, WaitingApt
<1>4. CASE step \in {"connect", "scan"}
  <2>1. FinishCycle(Miss(Here), "skip:no-camera")
    BY <1>4 DEF StepTimer
  <2>2. Miss(Here) \in World /\ Miss(Here).cur = cur /\ Miss(Here).calls = calls /\ Miss(Here).st = st /\ Miss(Here).cam = cam
    BY <1>0 DEF Miss, World
  <2>3. HeldOut(Here) => ~WantsBound(Here)
    BY <1>0, <1>1, <1>4 DEF IInv, OneThingAtATime, Live, Guarded, BodyInv, Owed
  <2> QED BY <1>0, <1>1, <1>2, <2>1, <2>2, <2>3, BackstopBody
<1>5. CASE step = "subscribe"
  BY <1>0, <1>1, <1>2, <1>5, BackstopBody DEF StepTimer
<1>6. CASE step = "observe"
  <2>1. evaluate(Here) /\ step \notin Guarded /\ phase \in Linked
    BY <1>1, <1>6 DEF StepTimer, Guarded, PhaseOf, Linked
  <2> QED BY <1>3, <2>1, EvaluateBody
<1>7. CASE step \in {"source", "echo"}
  <2>1. FinishCycle(Here, "source")
    BY <1>7 DEF StepTimer
  <2> QED BY <1>0, <1>1, <1>2, <2>1, BackstopBody
<1>8. CASE step = "align"
  <2>1. step_write(Here) /\ step \notin Guarded /\ phase = "Aligning" /\ phase \in Linked
    BY <1>1, <1>8 DEF StepTimer, Guarded, PhaseOf, Linked
  <2>2. cur.may /\ cur.auth = st.id /\ ~cur.source
    BY <2>1 DEF BodyInv
  <2> QED BY <1>0, <1>3, <2>1, <2>2, WriteBody
<1>9. CASE step = "write"
  <2>1. FinishCycle(Failed(Here), "write")
    BY <1>9 DEF StepTimer
  <2>2. /\ Failed(Here) \in World /\ Failed(Here).cur = cur /\ Failed(Here).calls = calls
        /\ Failed(Here).st.id = st.id /\ Failed(Here).cam = cam
    BY <1>0, SyncDAssumption DEF Failed, World, Memory
  <2> QED BY <1>0, <1>1, <1>2, <2>1, <2>2, BackstopBody
<1>10. CASE step = "settle"
  <2>1. step_verify(Here) /\ step \notin Guarded /\ phase \in Linked
    BY <1>1, <1>10 DEF StepTimer, Guarded, PhaseOf, Linked
  <2> QED BY <1>3, <2>1, VerifyBody
<1>11. CASE step = "verify"
  <2>1. judge(Here) /\ step \notin Guarded
    BY <1>11 DEF StepTimer, Guarded
  <2> QED BY <1>3, <2>1, JudgeBody
<1> QED BY <1>1, <1>4, <1>5, <1>6, <1>7, <1>8, <1>9, <1>10, <1>11
        DEF IInv, TypeOK, Step

LEMMA CycleTimerBody == ASSUME IInv, BodyInv, CycleTimer PROVE BodyInv'
<1>1. PICK benchOk \in BOOLEAN, heard \in Body : begin_cycle(benchOk, heard)
  BY DEF CycleTimer
<1>2. env' = env
  BY DEF CycleTimer, env
<1> DEFINE c == [NoCycle EXCEPT
                   !.live = TRUE,
                   !.forced = pend.force,
                   !.source = pend.source,
                   !.want = IF pend.want = NoWant THEN OptWant ELSE pend.want]
           x == [Here EXCEPT !.cur = c,
                             !.pend = Taken(@),
                             !.calls = Abandoned(@),
                             !.next = "none"]
           y == [x EXCEPT !.cur.looked = TRUE]
<1>3. c \in Cycle /\ c.live
  <2>1. NoCycle \in Cycle
    BY DEF NoCycle, Cycle, Want, Body, Outcome
  <2>2. pend.force \in BOOLEAN /\ pend.source \in BOOLEAN /\ pend.want \in Want
    BY DEF IInv, TypeOK, Pending
  <2> QED BY <2>1, <2>2, SyncDAssumption DEF Cycle
<1>4. \/ FinishCycle(x, "skip")
      \/ FinishCycle(x, "skip:no-date")
      \/ date_known /\ step_connect(y, heard)
  BY <1>1 DEF begin_cycle, dateless
<1> HIDE DEF c
<1>5. Ready(x) /\ x \in World /\ x.cam = cam /\ x.st = st /\ x.calls = Abandoned(calls)
  <2>1. Abandoned(calls) \subseteq Call /\ \A d \in Abandoned(calls) : ~d.live
    BY DEF Abandoned, IInv, TypeOK, Call
  <2>2. NoRequest \in Pending
    BY DEF NoRequest, Pending, Want
  <2>3. Here \in World /\ Here.calls = calls /\ Here.cam = cam /\ Here.st = st
    BY DEF IInv, TypeOK, Here, World
  <2>4. x = [Here EXCEPT !.cur = c, !.pend = NoRequest,
                         !.calls = Abandoned(calls), !.next = "none"]
    BY <2>3 DEF Taken
  <2>5. "none" \in NextLook
    BY DEF NextLook
  <2> HIDE DEF x
  <2> QED BY <1>3, <2>1, <2>2, <2>3, <2>4, <2>5 DEF Ready, World
<1> HIDE DEF x
<1>6. Tied(x)
  <2>1. \A e \in Abandoned(calls) : \E d \in calls : e.op = d.op /\ e.cam = d.cam
    <3> DEFINE f(d) == [d EXCEPT !.live = FALSE]
    <3>1. \A d \in calls : f(d).op = d.op /\ f(d).cam = d.cam
      BY DEF IInv, TypeOK, Call
    <3>2. Abandoned(calls) = {f(d) : d \in calls}
      BY DEF Abandoned
    <3> HIDE DEF f
    <3> QED BY <3>1, <3>2
  <2> QED BY <1>5, <2>1 DEF BodyInv, Tied, Here
<1>7. Ready(y) /\ y.calls = x.calls /\ y.cam = x.cam /\ y.st = x.st
  <2> DEFINE d == [x.cur EXCEPT !.looked = TRUE]
  <2>1. d \in Cycle /\ d.live
    BY <1>5 DEF Ready, World, Cycle
  <2>2. y = [x EXCEPT !.cur = d]
    BY <1>5 DEF World
  <2> HIDE DEF d, y
  <2> QED BY <1>5, <2>1, <2>2, CycleReady DEF World
<1> HIDE DEF y
<1>8. date_known => Apt(y)
  BY <1>2, <1>5, <1>6, <1>7, SameBody DEF Apt
<1>9. CASE FinishCycle(x, "skip") \/ FinishCycle(x, "skip:no-date")
  BY <1>2, <1>5, <1>6, <1>9, FinishBody DEF Ready, Owed
<1>10. CASE date_known /\ step_connect(y, heard)
  BY <1>8, <1>10, ConnectBody
<1> QED BY <1>4, <1>9, <1>10

\* What changes nothing of this but the view.
LEMMA ViewOnlyBody ==
    ASSUME IInv, BodyInv, NEW v, v.id = cam.id \/ v = Disconnected, v.sub => cam.sub /\ v.id = cam.id, cam' = v,
           UNCHANGED <<phase, cur, st, calls>>, date_known => date_known'
    PROVE  BodyInv'
<1>1. cam.sub => cam.id = st.id /\ cam.id # NoCam
  BY DEF BodyInv, Tied, Here
<1>2. v.id \in {NoCam, cam.id}
  BY DEF Disconnected, Fresh
<1> QED BY <1>1, <1>2, QuietBody

LEMMA ViewBody ==
    ASSUME IInv, BodyInv, NEW v \in View, NEW fresh, v.id = cam.id, v.sub = cam.sub, on_view(v, fresh)
    PROVE  BodyInv'
<1> DEFINE x == [Here EXCEPT !.cam = v]
<1>1. env' = env
  BY DEF on_view, env
<1>2. CASE phase \in {"Observing", "Verifying"} /\ (evaluate(x) \/ judge(x))
  <2>1. busy /\ phase \in Linked
    BY <1>2 DEF busy, Linked
  <2>2. step \in Step \ {"none"} /\ PhaseOf[step] = phase
    BY <2>1 DEF IInv, TypeOK, NeverWedged
  <2>3. step \notin Guarded
    BY <1>2, <2>2 DEF Step, PhaseOf, Guarded
  <2>4. Apt(x) /\ Kept(x)
    BY <1>1, <2>1, <2>3, WaitingApt
  <2> HIDE DEF x
  <2> QED BY <1>2, <2>4, EvaluateBody, JudgeBody
<1>3. CASE cam' = v /\ UNCHANGED <<phase, step, next, cur, pend, st, missed, calls>>
  <2>1. date_known' = date_known
    BY <1>1 DEF date_known, env
  <2> QED BY <1>3, <2>1, ViewOnlyBody
<1> QED BY <1>2, <1>3 DEF on_view

LEMMA GoneBody == ASSUME IInv, BodyInv, on_camera_gone PROVE BodyInv'
<1> DEFINE x == Miss([Here EXCEPT !.cam = Disconnected])
<1>1. env' = env
  BY DEF on_camera_gone, env
<1>2. Disconnected \in View /\ ~Disconnected.sub /\ Here \in World
  BY DEF Disconnected, Fresh, View, Body, Here, World, IInv, TypeOK
<1>3. CASE busy
  <2>1. x \in World /\ x.cur = cur /\ x.calls = calls /\ x.st = st /\ x.cam = Disconnected
    BY <1>2 DEF Miss, World, Here
  <2>2. FinishCycle(x, "skip") /\ "skip" \in Outcome
    BY <1>3 DEF on_camera_gone, Outcome
  <2> HIDE DEF x
  <2> QED BY <1>1, <1>3, <2>1, <2>2, BackstopBody
<1>4. CASE ~busy
  <2>1. cam' = Disconnected /\ UNCHANGED <<phase, cur, st, calls>>
    BY <1>4 DEF on_camera_gone, Here
  <2>2. date_known' = date_known
    BY <1>1 DEF date_known, env
  <2> QED BY <1>2, <2>1, <2>2, ViewOnlyBody
<1> QED BY <1>3, <1>4

LEMMA StartStopBody == ASSUME IInv, BodyInv, start \/ stop PROVE BodyInv'
<1>1. CASE start
  <2>1. /\ phase = "Stopped" /\ phase' = "Idle" /\ UNCHANGED <<cur, st, cam, calls>> /\ date_known' = date_known
    BY <1>1 DEF start, IInv, NeverWedged, date_known, env
  <2>2. /\ Here'.cur = Here.cur /\ Here'.calls = Here.calls /\ Here'.st = Here.st /\ Here'.cam = Here.cam
    BY <2>1 DEF Here
  <2>3. (Tied(Here))' /\ (Owed(Here))' /\ ((HeldOut(Here))' <=> HeldOut(Here)) /\ ((WantsBound(Here))' <=> WantsBound(Here))
    BY <2>2 DEF BodyInv, Tied, Owed, HeldOut, WantsBound
  <2>4. Live' = Live /\ ~busy' /\ phase' \notin Linked
    BY <2>1 DEF Live, busy, Linked
  <2> QED BY <2>1, <2>3, <2>4 DEF BodyInv
<1>2. CASE stop
  <2>1. /\ phase' = "Stopped" /\ st' = st /\ cam' = Disconnected /\ calls' = Abandoned(calls)
    BY <1>2 DEF stop
  <2>2. /\ Here'.calls = Abandoned(calls) /\ Here'.st = st /\ Here'.cam = Disconnected
    BY <2>1 DEF Here
  <2>3. \A e \in Abandoned(calls) : ~e.live /\ \E d \in calls : e.op = d.op /\ e.cam = d.cam
    <3> DEFINE f(d) == [d EXCEPT !.live = FALSE]
    <3>1. \A d \in calls : f(d).op = d.op /\ f(d).cam = d.cam /\ ~f(d).live
      BY DEF IInv, TypeOK, Call
    <3>2. Abandoned(calls) = {f(d) : d \in calls}
      BY DEF Abandoned
    <3> HIDE DEF f
    <3> QED BY <3>1, <3>2
  <2>4. Disconnected.id = NoCam /\ ~Disconnected.sub
    BY DEF Disconnected, Fresh
  <2>5. (Tied(Here))'
    BY <2>2, <2>3, <2>4 DEF BodyInv, Tied, Here
  <2>6. (Owed(Here))' /\ ~(HeldOut(Here))'
    BY <2>2, <2>3, <2>4 DEF Owed, HeldOut
  <2>7. Live' = {} /\ ~busy' /\ phase' \notin Linked /\ phase' # "Aligning"
    BY <2>1, <2>3 DEF Live, busy, Linked
  <2> QED BY <2>5, <2>6, <2>7 DEF BodyInv
<1> QED BY <1>1, <1>2

LEMMA OutsideBody ==
    ASSUME IInv, BodyInv, UNCHANGED <<phase, cur, st, cam, calls>>, date_known => date_known'
    PROVE  BodyInv'
BY ViewOnlyBody

LEMMA InitBody == ASSUME Init PROVE BodyInv
<1>1. calls = {} /\ cam.id = NoCam /\ ~cam.sub /\ phase = "Stopped"
  BY DEF Init, Fresh
<1>2. Here.calls = calls /\ Here.cam = cam
  BY DEF Here
<1> QED BY <1>1, <1>2 DEF BodyInv, Tied, Owed, HeldOut, Linked, Live, busy

LEMMA NextBody == ASSUME IInv, BodyInv, [Next]_vars PROVE BodyInv'
<1>1. CASE UNCHANGED vars
  BY <1>1, OutsideBody DEF vars, date_known
<1>2. CASE Answer
  <2>1. PICK call \in calls :
          \/ \E ok \in BOOLEAN : \/ AnswerConnect(call, ok)
                                 \/ AnswerSubscribe(call, ok)
                                 \/ AnswerControl(call, ok)
          \/ \E pick \in Body : AnswerScan(call, pick)
    BY <1>2 DEF Answer
  <2> QED BY <2>1, AnswerConnectBody, AnswerSubscribeBody, AnswerControlBody, AnswerScanBody
<1>3. CASE Camera
  <2>1. CASE NotifyTimecode
    <3> DEFINE v == [cam EXCEPT !.tc = TRUE]
    <3>1. v \in View /\ v.id = cam.id /\ v.sub = cam.sub
      BY DEF IInv, TypeOK, View
    <3> QED BY <2>1, <3>1, ViewBody DEF NotifyTimecode
  <2>2. ASSUME NEW t \in {"stopped", "record"}, NEW fresh \in BOOLEAN, NotifyTransport(t, fresh)
        PROVE  BodyInv'
    <3> DEFINE v == [cam EXCEPT !.transport = t]
    <3>1. v \in View /\ v.id = cam.id /\ v.sub = cam.sub
      BY DEF IInv, TypeOK, View
    <3> QED BY <2>2, <3>1, ViewBody DEF NotifyTransport
  <2>3. CASE observe_camera
    BY <2>3, OutsideBody DEF observe_camera, env, date_known
  <2> QED BY <1>3, <2>1, <2>2, <2>3, GoneBody DEF Camera
<1>4. CASE Operator
  <2>1. ASSUME NEW sync, NEW force, NEW source, NEW want, Request(sync, force, source, want)
        PROVE  BodyInv'
    BY <2>1, OutsideBody DEF Request, env, date_known
  <2>2. CASE SetDate
    BY <2>2, OutsideBody DEF SetDate, date_known
  <2> QED BY <1>4, <2>1, <2>2, StartStopBody DEF Operator, request_sync, request_source
<1> QED BY <1>1, <1>2, <1>3, <1>4, CycleTimerBody, StepTimerBody DEF Next

-----------------------------------------------------------------------------
(* The theorems.                                                           *)

\* IInv holds in every state the daemon can reach.
LEMMA Invariance == Spec => []IInv
<1>1. Init => IInv
  BY InitInv
<1>2. IInv /\ [Next]_vars => IInv'
  BY NextInv
<1> QED BY <1>1, <1>2, PTL DEF Spec

\* Every handler keeps every variable in the type syncd.h declares.
THEOREM TypeCorrect == Spec => []TypeOK
<1>1. IInv => TypeOK
  BY DEF IInv
<1> QED BY <1>1, Invariance, PTL

\* A cycle that gives up, is cut short, or is answered late never leaves the
\* daemon idle with no look scheduled, or busy with no deadline (arm_step,
\* schedule_cycle, finish_cycle).
THEOREM DaemonNeverWedges == Spec => []NeverWedged
<1>1. IInv => NeverWedged
  BY DEF IInv
<1> QED BY <1>1, Invariance, PTL

\* No request is left to wait out the poll interval (finish_cycle, request_sync).
THEOREM RequestsBringTheLookForward == Spec => []NoIdleRequest
<1>1. IInv => NoIdleRequest
  BY DEF IInv
<1> QED BY <1>1, Invariance, PTL

\* The state machine waits on one thing at a time: one completion of the
\* running cycle, and that call's own backstop timer (arm_step).
THEOREM WaitsOnOneThing == Spec => []OneThingAtATime
<1>1. IInv => OneThingAtATime
  BY DEF IInv
<1> QED BY <1>1, Invariance, PTL

\* The three together: the daemon always goes on from exactly one armed thing.
THEOREM SchedulingSound == Spec => []SchedulingIsSound
<1> QED BY DaemonNeverWedges, RequestsBringTheLookForward, WaitsOnOneThing, PTL
        DEF SchedulingIsSound

\* BodyInv holds in every state the daemon can reach.
LEMMA BodyInvariance == Spec => []BodyInv
<1>1. Init => BodyInv
  BY InitBody
<1>2. IInv /\ BodyInv /\ [Next]_vars => BodyInv'
  BY NextBody
<1> QED BY <1>1, <1>2, Invariance, PTL DEF Spec

\* From the subscription to the verdict the daemon talks to the body it is bound
\* to: a connect that some abandoned cycle asked for cannot come up under it
\* (done_connect, connect_to).
THEOREM ConnectionIsTheBoundBodys == Spec => []TalksToBoundBody
<1>1. BodyInv => TalksToBoundBody
  BY DEF BodyInv, Kept, Linked, Here, TalksToBoundBody
<1> QED BY <1>1, BodyInvariance, PTL

\* A write the running cycle owes was issued to the body whose permission
\* evaluate() read in that cycle, and with permission.
THEOREM PermissionCoversEveryWrite == Spec => []WritesArePermitted
<1>1. BodyInv => WritesArePermitted
  BY DEF BodyInv, Owed, Here, Live, WritesArePermitted
<1> QED BY <1>1, BodyInvariance, PTL

\* No clock is written by a daemon that does not know the date (begin_cycle).
THEOREM NoUndatedWrite == Spec => []WritesAreDated
<1>1. BodyInv => WritesAreDated
  BY DEF BodyInv, busy, date_known, WritesAreDated
<1> QED BY <1>1, BodyInvariance, PTL

\* A cycle does not give up for want of a camera that is held (step_connect).
THEOREM HeldIsFound == Spec => []HeldCameraIsUsed
<1>1. IInv /\ BodyInv => HeldCameraIsUsed
  <2> SUFFICES ASSUME IInv, BodyInv, phase = "Idle", cur.outcome = "skip:no-camera", cam.sub,
                      cur.want.by # "name", Matches(cur.want, cam.id)
               PROVE  FALSE
    BY DEF HeldCameraIsUsed
  <2>1. cam.id = st.id /\ cam.id # NoCam /\ ~WantsBound(Here)
    BY DEF BodyInv, Tied, HeldOut, Here
  <2>2. cur.want \in Want /\ Here.cur = cur /\ Here.st = st
    BY DEF IInv, TypeOK, Cycle, Here
  <2> QED BY <2>1, <2>2 DEF WantsBound, Matches, Want, NoWant
<1> QED BY <1>1, Invariance, BodyInvariance, PTL
=============================================================================
