------------------------------ MODULE Control ------------------------------
(***************************************************************************)
(* The control socket of octomancer-sync: the Control object of            *)
(* src/src/control.cc, shared under one mutex by the socket thread that    *)
(* answers clients and by the daemon's main loop (src/src/octomancer-sync  *)
(* .cc).  The events it keeps for the application are in EventFeed.        *)
(*                                                                         *)
(* A step is one hold of the mutex with what its thread does around it;    *)
(* the holds of one reload, one per camera, are one step.  Request ids are *)
(* consecutive, so history_ is the state of each id.                       *)
(***************************************************************************)
EXTENDS Integers

CONSTANTS
    Cams, NoCam,
    MaxHistory,     \* kMaxHistory
    MaxRequests,    \* how many requests clients make
    MaxTargets      \* how many cameras one request names

ASSUME ControlAssumption ==
    /\ NoCam \notin Cams
    /\ MaxHistory \in Nat \ {0}
    /\ MaxRequests \in Nat
    /\ MaxTargets \in Nat \ {0}

VARIABLES
    history,    \* the state of each request: history_
    nextId,     \* next_request_id_
    rows,       \* cameras_: the permission each published camera shows
    reload,     \* reload_requested_
    forgets,    \* forget_requested_
    pc,         \* where the main loop is
    req,        \* the request it has taken, and how many cameras are left
    left,
    published,  \* its own copy of the last status it published
    conf,       \* the configuration it has in memory
    stop,       \* g_stop
    file,       \* the configuration on disk, and whether it can be parsed
    broken

daemon == <<history, nextId, rows, reload, forgets>>
loop == <<pc, req, left, published, conf, stop>>
disk == <<file, broken>>
controlVars == <<history, nextId, rows, reload, forgets, pc, req, left, published,
          conf, stop, file, broken>>

Ids == 1..MaxRequests
State == {"none", "queued", "running", "done", "failed", "dropped"}
Line == {"none", "on", "off"}      \* the line of a camera in cameras.conf;
                                   \* there is no "default writes=on" line
Row == {"none", "on", "off"}       \* what a published camera shows

-----------------------------------------------------------------------------
(* Control.                                                                *)

\* push_back, and pop_front while there are more than kMaxHistory.
queue(h, i) ==
    [j \in Ids |-> IF j = i THEN "queued"
                   ELSE IF j + MaxHistory <= i THEN "dropped" ELSE h[j]]

\* publish_camera: replaces the row, or adds one.
publish_camera(c) == [rows EXCEPT ![c.cam] = c.may]

\* Mutant: the newest is taken first.
take_request_Newest(h) ==
    {i \in Ids : h[i] = "queued" /\ \A j \in (i + 1)..MaxRequests : h[j] # "queued"}

\* The oldest that is queued.
take_request(h) ==
    {i \in Ids : h[i] = "queued" /\ \A j \in 1..(i - 1) : h[j] # "queued"}

\* The entry may have been evicted meanwhile: find_locked() fails.
finish(h, i, ok) ==
    IF h[i] = "dropped" THEN h
    ELSE [h EXCEPT ![i] = IF ok THEN "done" ELSE "failed"]

requeue_running(h) == [i \in Ids |-> IF h[i] = "running" THEN "queued" ELSE h[i]]

-----------------------------------------------------------------------------
(* Clients of the socket: the command line and the application.            *)

\* The verbs "sync" and "source".
AskRequest ==
    /\ pc # "exited"
    /\ nextId \in Ids
    /\ history' = queue(history, nextId)
    /\ nextId' = nextId + 1
    /\ UNCHANGED <<rows, reload, forgets, loop, disk>>

AskReload ==
    /\ pc # "exited"
    /\ reload' = TRUE
    /\ UNCHANGED <<history, nextId, rows, forgets, loop, disk>>

\* The row goes at once; the daemon's thread does the rest later.
AskForget(c) ==
    /\ pc # "exited"
    /\ rows' = [rows EXCEPT ![c] = "none"]
    /\ forgets' = forgets \cup {c}
    /\ UNCHANGED <<history, nextId, reload, loop, disk>>

\* CamConf::set_flag and forget_device, in the client's process.
EditFile(c, line) ==
    /\ file' = [file EXCEPT ![c] = line]
    /\ UNCHANGED <<daemon, loop, broken>>

\* Somebody with an editor.
BreakFile ==
    /\ broken' = ~broken
    /\ UNCHANGED <<daemon, loop, file>>

-----------------------------------------------------------------------------
(* The main loop.                                                          *)

\* CamConf::load clears what it had and stops at the first bad line.
Loads(f) ==
    IF broken THEN {g \in [Cams -> Line] : \A c \in Cams : g[c] \in {f[c], "none"}}
    ELSE {f}

May(c) == IF conf[c] = "on" THEN "on" ELSE "off"

\* take_forgotten, and CamConf::forget_camera for each: the file is rewritten
\* and loaded again only if it had a line to drop.
LoopForget ==
    /\ pc = "forget"
    /\ LET gone == {c \in forgets : file[c] # "none"}
           kept == [c \in Cams |-> IF c \in gone THEN "none" ELSE file[c]]
       IN  /\ file' = kept
           /\ IF gone = {} THEN conf' = conf ELSE conf' \in Loads(kept)
    /\ forgets' = {}
    /\ pc' = "reload"
    /\ UNCHANGED <<history, nextId, rows, reload, req, left,
                   published, stop, broken>>

\* take_reload: the permission of every published camera is restated, unless
\* the file could not be read.
LoopReload ==
    /\ pc = "reload"
    /\ reload' = FALSE
    /\ IF reload THEN conf' \in Loads(file) ELSE conf' = conf
    /\ rows' = IF reload /\ ~broken
               THEN [c \in Cams |-> IF rows[c] = "none" THEN "none"
                                    ELSE IF file[c] = "on" THEN "on" ELSE "off"]
               ELSE rows
    /\ pc' = "presence"
    /\ UNCHANGED <<history, nextId, forgets, req, left,
                   published, stop, disk>>

\* refresh(): what was last published is said again.
LoopPresence ==
    /\ pc = "presence"
    /\ rows' = IF published.cam = NoCam THEN rows ELSE publish_camera(published)
    /\ pc' = "requests"
    /\ UNCHANGED <<history, nextId, reload, forgets, req, left, published,
                   conf, stop, disk>>

LoopTake(n) ==
    /\ pc = "requests"
    /\ ~stop
    /\ \E i \in take_request(history) :
          /\ req' = i
          /\ history' = [history EXCEPT ![i] = "running"]
    /\ left' = n
    /\ pc' = "errand"
    /\ UNCHANGED <<nextId, rows, reload, forgets, published,
                   conf, stop, disk>>

LoopDrained ==
    /\ pc = "requests"
    /\ stop \/ take_request(history) = {}
    /\ history' = IF stop THEN requeue_running(history) ELSE history
    /\ pc' = "cycle"
    /\ UNCHANGED <<nextId, rows, reload, forgets, req, left,
                   published, conf, stop, disk>>

\* run_errand: a whole cycle, which may reach a camera and publish what it
\* learned of it.
Errand(c) ==
    IF c = NoCam THEN UNCHANGED <<published, rows>>
    ELSE /\ published' = [cam |-> c, may |-> May(c)]
         /\ rows' = publish_camera([cam |-> c, may |-> May(c)])

LoopErrand(c) ==
    /\ pc = "errand"
    /\ Errand(c)
    /\ left' = left - 1
    /\ pc' = IF left = 1 THEN "finish" ELSE "errand"
    /\ UNCHANGED <<history, nextId, reload, forgets, req, conf, stop, disk>>

\* Mutant: a request that did not succeed is not finished.
LoopFinish_OkOnly(ok) ==
    /\ pc = "finish"
    /\ history' = IF ok THEN finish(history, req, ok) ELSE history
    /\ req' = 0
    /\ pc' = "requests"
    /\ UNCHANGED <<nextId, rows, reload, forgets, left,
                   published, conf, stop, disk>>

LoopFinish(ok) ==
    /\ pc = "finish"
    /\ history' = finish(history, req, ok)
    /\ req' = 0
    /\ pc' = "requests"
    /\ UNCHANGED <<nextId, rows, reload, forgets, left,
                   published, conf, stop, disk>>

\* The scheduled cycle, if it is due; one that is not reaches nobody.
LoopCycle(c) ==
    /\ pc = "cycle"
    /\ Errand(c)
    /\ pc' = "sleep"
    /\ UNCHANGED <<history, nextId, reload, forgets, req, left, conf, stop, disk>>

LoopSleep ==
    /\ pc = "sleep"
    /\ pc' = IF stop THEN "exited" ELSE "forget"
    /\ UNCHANGED <<daemon, req, left, published, conf, stop, disk>>

Signal ==
    /\ ~stop
    /\ stop' = TRUE
    /\ UNCHANGED <<daemon, pc, req, left, published, conf, disk>>

LoopStep ==
    \/ LoopForget
    \/ LoopReload
    \/ LoopPresence
    \/ \E n \in 1..MaxTargets : LoopTake(n)
    \/ LoopDrained
    \/ \E c \in Cams \cup {NoCam} : LoopErrand(c) \/ LoopCycle(c)
    \/ \E ok \in BOOLEAN : LoopFinish(ok)
    \/ LoopSleep

-----------------------------------------------------------------------------
ControlInit ==
    /\ history = [i \in Ids |-> "none"] /\ nextId = 1
    /\ rows = [c \in Cams |-> "none"]
    /\ reload = FALSE /\ forgets = {}
    /\ pc = "forget" /\ req = 0 /\ left = 0
    /\ published = [cam |-> NoCam, may |-> "off"]
    /\ file \in [Cams -> Line]
    /\ conf = file
    /\ broken = FALSE
    /\ stop = FALSE

Client ==
    \/ AskRequest
    \/ AskReload
    \/ \E c \in Cams : AskForget(c) \/ \E line \in Line : EditFile(c, line)
    \/ BreakFile
    \/ Signal

ControlNext == LoopStep \/ Client

\* The main thread keeps running: each cycle and each sleep has an end.
ControlSpec == ControlInit /\ [][ControlNext]_controlVars /\ WF_controlVars(LoopStep)

-----------------------------------------------------------------------------
(* Properties.                                                             *)

\* Every variable holds what control.h and the loop allow.
ControlTypeOK ==
    /\ history \in [Ids -> State] /\ nextId \in 1..(MaxRequests + 1)
    /\ rows \in [Cams -> Row]
    /\ reload \in BOOLEAN /\ forgets \subseteq Cams
    /\ pc \in {"forget", "reload", "presence", "requests", "errand", "finish",
               "cycle", "sleep", "exited"}
    /\ req \in 0..MaxRequests /\ left \in 0..MaxTargets
    /\ published \in [cam : Cams \cup {NoCam}, may : {"on", "off"}]
    /\ conf \in [Cams -> Line] /\ file \in [Cams -> Line]
    /\ broken \in BOOLEAN /\ stop \in BOOLEAN

\* control.h: "a request taken and then abandoned would sit in kRunning
\* forever": a request is running only while the main loop is on it, none
\* before it is still waiting, and the loop is on none that was finished.
RunningIsServed ==
    /\ \A i \in Ids : history[i] = "running" =>
          /\ pc \in {"errand", "finish"} /\ i = req
          /\ \A j \in 1..(i - 1) : history[j] \notin {"queued", "running"}
    /\ pc \in {"errand", "finish"} =>
          req \in Ids /\ history[req] \in {"running", "dropped"}

\* Every request that was acknowledged is answered, unless the daemon is told
\* to stop or so many newer ones arrive that it falls out of the history.
RequestsAreAnswered ==
    \A i \in Ids : history[i] = "queued" ~>
        history[i] \in {"done", "failed", "dropped"} \/ stop
=============================================================================
