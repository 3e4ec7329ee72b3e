------------------------ MODULE ControlSocket_proofs ------------------------
(***************************************************************************)
(* The two halves of the socket, Control and EventFeed, for any cameras,   *)
(* any limits, any size of the ring, any number of events and any number   *)
(* of refreshes under way.                                                 *)
(***************************************************************************)
EXTENDS ControlSocket, SequenceTheorems, TLAPS

(***************************************************************************)
(* Control.  RunningIsServed needs two more facts to be inductive: an id   *)
(* that was not given out has no entry, so that a new request cannot       *)
(* overwrite the one being served; and the loop over a request's cameras   *)
(* stops at none.                                                          *)
(***************************************************************************)
Asked == \A i \in Ids : i >= nextId => history[i] = "none"

HasTargets == pc = "errand" => left # 0

ControlInv == ControlTypeOK /\ RunningIsServed /\ Asked /\ HasTargets

\* The part of the invariant that is about requests.
Requests ==
    /\ history \in [Ids -> State]
    /\ nextId \in 1..(MaxRequests + 1)
    /\ pc \in {"forget", "reload", "presence", "requests", "errand", "finish",
               "cycle", "sleep", "exited"}
    /\ req \in 0..MaxRequests
    /\ left \in 0..MaxTargets
    /\ RunningIsServed /\ Asked /\ HasTargets

\* The part that is about cameras, their permission and the rest.
Cameras ==
    /\ rows \in [Cams -> Row]
    /\ reload \in BOOLEAN /\ forgets \subseteq Cams
    /\ published \in [cam : Cams \cup {NoCam}, may : {"on", "off"}]
    /\ conf \in [Cams -> Line] /\ file \in [Cams -> Line]
    /\ broken \in BOOLEAN /\ stop \in BOOLEAN

\* The two parts make up the invariant.
LEMMA Parts == ControlInv <=> Requests /\ Cameras
BY DEF ControlInv, ControlTypeOK, Requests, Cameras

\* Whatever load() makes of a well-typed file is a well-typed configuration.
LEMMA LoadsType ==
    ASSUME NEW f \in [Cams -> Line], NEW g \in Loads(f) PROVE g \in [Cams -> Line]
BY DEF Loads

\* A step that leaves the request, its entry and the loop's place in it alone.
LEMMA RequestsAlone ==
    ASSUME Requests, UNCHANGED <<history, nextId, req, left>>,
           pc' \in {"forget", "reload", "presence", "requests", "cycle", "sleep", "exited"},
           pc \notin {"errand", "finish"}
    PROVE  Requests'
BY DEF Requests, RunningIsServed, Asked, HasTargets

\* A step that does not touch the requests or the loop at all.
LEMMA RequestsStutter ==
    ASSUME Requests, UNCHANGED <<history, nextId, req, left, pc>> PROVE Requests'
BY DEF Requests, RunningIsServed, Asked, HasTargets

\* A step that does not touch the cameras.
LEMMA CamerasStutter ==
    ASSUME Cameras,
           UNCHANGED <<rows, reload, forgets, published, conf, stop, file, broken>>
    PROVE  Cameras'
BY DEF Cameras

\* What a cycle publishes is well typed.
LEMMA ErrandCameras ==
    ASSUME Cameras, NEW c \in Cams \cup {NoCam}, Errand(c),
           UNCHANGED <<reload, forgets, conf, stop, file, broken>>
    PROVE  Cameras'
<1>1. CASE c = NoCam
  BY <1>1, CamerasStutter DEF Errand
<1>2. CASE c # NoCam
  <2>1. May(c) \in {"on", "off"}
    BY DEF May
  <2>2. published' \in [cam : Cams \cup {NoCam}, may : {"on", "off"}]
    BY <1>2, <2>1 DEF Errand
  <2>3. rows' \in [Cams -> Row]
    BY <1>2, <2>1 DEF Errand, publish_camera, Cameras, Row
  <2> QED BY <2>2, <2>3 DEF Cameras
<1> QED BY <1>1, <1>2

-----------------------------------------------------------------------------
(* The steps that move requests.                                           *)

\* A new request gets an id of its own, behind every other, and at most turns
\* old entries into dropped ones.
LEMMA AskRequestInv == ASSUME Requests, AskRequest PROVE Requests'
<1>1. /\ nextId \in Ids /\ nextId' = nextId + 1
      /\ history' = [j \in Ids |-> IF j = nextId THEN "queued"
                        ELSE IF j + MaxHistory <= nextId THEN "dropped" ELSE history[j]]
      /\ UNCHANGED <<pc, req, left>>
  BY DEF AskRequest, queue, loop
<1>2. history' \in [Ids -> State] /\ nextId' \in 1..(MaxRequests + 1)
  BY <1>1, ControlAssumption DEF Requests, State, Ids
<1>3. Asked'
  BY <1>1, ControlAssumption DEF Requests, Asked, Ids
<1>4. RunningIsServed'
  <2>1. ASSUME NEW i \in Ids, history'[i] = "running"
        PROVE  /\ history[i] = "running" /\ i < nextId
               /\ pc' \in {"errand", "finish"} /\ i = req'
               /\ \A j \in 1..(i - 1) : history'[j] \notin {"queued", "running"}
    <3>1. i # nextId /\ history[i] = "running"
      BY <1>1, <2>1
    <3>2. i < nextId
      BY <1>1, <3>1 DEF Requests, Asked, Ids
    <3>3. \A j \in 1..(i - 1) : j \in Ids /\ j # nextId
                                  /\ history[j] \notin {"queued", "running"}
      BY <3>1, <3>2, ControlAssumption DEF Requests, RunningIsServed, Ids
    <3> QED BY <1>1, <3>1, <3>2, <3>3 DEF Requests, RunningIsServed
  <2>2. pc' \in {"errand", "finish"} =>
           req' \in Ids /\ history'[req'] \in {"running", "dropped"}
    BY <1>1 DEF Requests, RunningIsServed, Asked, Ids
  <2> QED BY <2>1, <2>2 DEF RunningIsServed
<1> QED BY <1>1, <1>2, <1>3, <1>4 DEF Requests, HasTargets

\* Nothing is running when a request is taken, and nothing older is waiting.
LEMMA LoopTakeInv ==
    ASSUME Requests, NEW n \in 1..MaxTargets, LoopTake(n) PROVE Requests'
<1>1. PICK i \in take_request(history) :
         req' = i /\ history' = [history EXCEPT ![i] = "running"]
  BY DEF LoopTake
<1>2. /\ pc = "requests" /\ pc' = "errand" /\ left' = n /\ nextId' = nextId
      /\ i \in Ids /\ history[i] = "queued"
      /\ \A j \in 1..(i - 1) : j \in Ids /\ history[j] # "queued"
  BY <1>1, ControlAssumption DEF LoopTake, take_request, Ids
<1>3. \A j \in Ids : history[j] # "running"
  BY <1>2 DEF Requests, RunningIsServed
<1>4. history' \in [Ids -> State] /\ Asked' /\ HasTargets' /\ left' \in 0..MaxTargets
        /\ req' \in 0..MaxRequests
  BY <1>1, <1>2, ControlAssumption DEF Requests, Asked, HasTargets, State, Ids
<1>5. RunningIsServed'
  <2>1. \A j \in Ids : history'[j] = "running" => j = i
    BY <1>1, <1>3 DEF Requests
  <2>2. \A j \in 1..(i - 1) : history'[j] \notin {"queued", "running"}
    BY <1>1, <1>2, <1>3 DEF Requests, Ids
  <2>3. history'[i] = "running"
    BY <1>1, <1>2 DEF Requests
  <2> QED BY <1>1, <1>2, <2>1, <2>2, <2>3 DEF RunningIsServed
<1> QED BY <1>2, <1>4, <1>5 DEF Requests

\* With nothing running there is nothing to put back.
LEMMA LoopDrainedInv == ASSUME Requests, LoopDrained PROVE Requests'
<1>1. /\ pc = "requests" /\ pc' = "cycle" /\ UNCHANGED <<nextId, req, left>>
      /\ history' = IF stop THEN requeue_running(history) ELSE history
  BY DEF LoopDrained
<1>2. \A j \in Ids : history[j] # "running"
  BY <1>1 DEF Requests, RunningIsServed
<1>3. history' = history
  BY <1>1, <1>2 DEF Requests, requeue_running
<1> QED BY <1>1, <1>3, RequestsAlone

\* One camera of the request is dealt with.
LEMMA LoopErrandInv ==
    ASSUME Requests, NEW c \in Cams \cup {NoCam}, LoopErrand(c) PROVE Requests'
<1>1. /\ pc = "errand" /\ left' = left - 1 /\ UNCHANGED <<history, nextId, req>>
      /\ pc' = IF left = 1 THEN "finish" ELSE "errand"
  BY DEF LoopErrand
<1>2. left \in 1..MaxTargets
  BY <1>1, ControlAssumption DEF Requests, HasTargets
<1> QED BY <1>1, <1>2, ControlAssumption
      DEF Requests, RunningIsServed, Asked, HasTargets

\* The request is finished, or was dropped meanwhile; none is running now.
LEMMA LoopFinishInv ==
    ASSUME Requests, NEW ok \in BOOLEAN, LoopFinish(ok) PROVE Requests'
<1>1. /\ pc = "finish" /\ pc' = "requests" /\ req' = 0 /\ UNCHANGED <<nextId, left>>
      /\ history' = finish(history, req, ok)
  BY DEF LoopFinish
<1>2. req \in Ids /\ history[req] \in {"running", "dropped"}
  BY <1>1 DEF Requests, RunningIsServed
<1>3. \A j \in Ids : history'[j] # "running"
  BY <1>1, <1>2 DEF Requests, RunningIsServed, finish
<1>4. history' \in [Ids -> State] /\ Asked'
  BY <1>1, <1>2 DEF Requests, Asked, finish, State
<1> QED BY <1>1, <1>3, <1>4, ControlAssumption DEF Requests, RunningIsServed, HasTargets

-----------------------------------------------------------------------------
(* The steps that move permission.                                         *)

\* The main loop's own steps on what it publishes and what it has loaded.
LEMMA LoopForgetInv == ASSUME Cameras, LoopForget PROVE Cameras'
<1> DEFINE gone == {c \in forgets : file[c] # "none"}
           kept == [c \in Cams |-> IF c \in gone THEN "none" ELSE file[c]]
<1>1. kept \in [Cams -> Line]
  BY DEF Cameras, Line
<1>2. file' = kept /\ (conf' = conf \/ conf' \in Loads(kept))
  BY DEF LoopForget
<1> HIDE DEF kept
<1>3. conf' \in [Cams -> Line]
  BY <1>1, <1>2, LoadsType DEF Cameras
<1> QED BY <1>1, <1>2, <1>3 DEF Cameras, LoopForget

\* A reload loads the file and restates what is shown.
LEMMA LoopReloadInv == ASSUME Cameras, LoopReload PROVE Cameras'
<1>1. conf' \in [Cams -> Line]
  BY LoadsType DEF Cameras, LoopReload
<1>2. rows' \in [Cams -> Row]
  BY DEF Cameras, LoopReload, Row
<1> QED BY <1>1, <1>2 DEF Cameras, LoopReload, disk

\* Saying again what was published.
LEMMA LoopPresenceInv == ASSUME Cameras, LoopPresence PROVE Cameras'
<1>1. rows' \in [Cams -> Row]
  BY DEF Cameras, LoopPresence, publish_camera, Row
<1> QED BY <1>1 DEF Cameras, LoopPresence, disk

\* What clients and operators do to rows, to the file and to the signal.
LEMMA ClientCameras ==
    ASSUME Cameras,
           \/ AskReload \/ BreakFile \/ Signal
           \/ \E c \in Cams : AskForget(c) \/ \E line \in Line : EditFile(c, line)
    PROVE  Cameras'
<1>1. CASE AskReload
  BY <1>1 DEF Cameras, AskReload, loop, disk
<1>2. CASE BreakFile
  BY <1>2 DEF Cameras, BreakFile, loop, daemon
<1>3. CASE Signal
  BY <1>3 DEF Cameras, Signal, daemon, disk
<1>4. ASSUME NEW c \in Cams, AskForget(c) PROVE Cameras'
  BY <1>4 DEF Cameras, AskForget, loop, disk, Row
<1>5. ASSUME NEW c \in Cams, NEW line \in Line, EditFile(c, line) PROVE Cameras'
  BY <1>5 DEF Cameras, EditFile, loop, daemon
<1> QED BY <1>1, <1>2, <1>3, <1>4, <1>5

-----------------------------------------------------------------------------
\* The invariant holds of every behaviour of the control socket and the loop.
THEOREM ControlInvariant == ControlSpec => []ControlInv
<1>1. ControlInit => ControlInv
  <2> SUFFICES ASSUME ControlInit PROVE Requests /\ Cameras
    BY Parts
  <2>1. Requests
    BY ControlAssumption DEF ControlInit, Requests, RunningIsServed, Asked, HasTargets, State, Ids
  <2>2. Cameras
    BY DEF ControlInit, Cameras, Row
  <2> QED BY <2>1, <2>2
<1>2. ControlInv /\ [ControlNext]_controlVars => ControlInv'
  <2> SUFFICES ASSUME Requests, Cameras, [ControlNext]_controlVars PROVE Requests' /\ Cameras'
    BY Parts DEF ControlInv, ControlTypeOK, RunningIsServed, Asked, HasTargets, Requests, Cameras
  <2>1. CASE LoopForget
    BY <2>1, LoopForgetInv, RequestsAlone DEF LoopForget
  <2>2. CASE LoopReload
    BY <2>2, LoopReloadInv, RequestsAlone DEF LoopReload
  <2>3. CASE LoopPresence
    BY <2>3, LoopPresenceInv, RequestsAlone DEF LoopPresence
  <2>4. ASSUME NEW n \in 1..MaxTargets, LoopTake(n) PROVE Requests' /\ Cameras'
    BY <2>4, LoopTakeInv, CamerasStutter DEF LoopTake, disk
  <2>5. CASE LoopDrained
    BY <2>5, LoopDrainedInv, CamerasStutter DEF LoopDrained, disk
  <2>6. ASSUME NEW c \in Cams \cup {NoCam}, LoopErrand(c) PROVE Requests' /\ Cameras'
    BY <2>6, LoopErrandInv, ErrandCameras DEF LoopErrand, disk
  <2>7. ASSUME NEW c \in Cams \cup {NoCam}, LoopCycle(c) PROVE Requests' /\ Cameras'
    BY <2>7, RequestsAlone, ErrandCameras DEF LoopCycle, disk
  <2>8. ASSUME NEW ok \in BOOLEAN, LoopFinish(ok) PROVE Requests' /\ Cameras'
    BY <2>8, LoopFinishInv, CamerasStutter DEF LoopFinish, disk
  <2>9. CASE LoopSleep
    BY <2>9, RequestsAlone, CamerasStutter DEF LoopSleep, daemon, disk
  <2>10. CASE AskRequest
    BY <2>10, AskRequestInv, CamerasStutter DEF AskRequest, loop, disk
  <2>11. ASSUME \/ AskReload \/ BreakFile \/ Signal
                \/ \E c \in Cams : AskForget(c) \/ \E line \in Line : EditFile(c, line)
         PROVE  Requests' /\ Cameras'
    <3>1. UNCHANGED <<history, nextId, req, left, pc>>
      BY <2>11 DEF AskReload, BreakFile, Signal, AskForget, EditFile, loop, daemon
    <3> QED BY <2>11, <3>1, RequestsStutter, ClientCameras
  <2>12. CASE UNCHANGED controlVars
    BY <2>12, RequestsStutter, CamerasStutter DEF controlVars
  <2> QED BY <2>1, <2>2, <2>3, <2>4, <2>5, <2>6, <2>7, <2>8, <2>9, <2>10, <2>11, <2>12
          DEF ControlNext, LoopStep, Client
<1> QED BY <1>1, <1>2, PTL DEF ControlSpec

\* No request is left in kRunning: whatever clients ask and whenever the daemon
\* is told to stop, a running request is the one the main loop is on, it is the
\* oldest one waiting, and the loop finishes nothing twice.
THEOREM RunningRequestsAreServed == ControlSpec => []RunningIsServed
<1>1. ControlInv => RunningIsServed
  BY DEF ControlInv
<1> QED BY ControlInvariant, <1>1, PTL

\* The variables of Control and of the main loop keep their types.
THEOREM ControlTypeCorrect == ControlSpec => []ControlTypeOK
<1>1. ControlInv => ControlTypeOK
  BY DEF ControlInv
<1> QED BY ControlInvariant, <1>1, PTL

(***************************************************************************)
(* EventFeed.  NoEventSkipped is not inductive: the cursor is moved by an  *)
(* answer to a question asked with a cursor captured earlier.              *)
(* NoneSkippedLater says the same of both, and with FeedTypeOK the three   *)
(* are inductive.                                                          *)
(*                                                                         *)
(* FeedRestart, likewise, for any number of restarts: the cursor, every    *)
(* captured cursor and every answer are Behind the ring, and from the      *)
(* first safe event on they are the running daemon's own.                  *)
(***************************************************************************)
FeedInv == FeedTypeOK /\ NoEventSkipped /\ NoneSkippedLater

\* What is in a sequence after Append, in the form the proofs below use it.
LEMMA AppendElements ==
    ASSUME NEW S, NEW s \in Seq(S), NEW x \in S
    PROVE  /\ Append(s, x) \in Seq(S)
           /\ \A i \in 1..Len(Append(s, x)) :
                 Append(s, x)[i] = x
                   \/ (i \in 1..Len(s) /\ Append(s, x)[i] = s[i])
<1>1. Len(s) \in Nat
  BY LenProperties
<1>2. \A i \in 1..(Len(s) + 1) : i \in 1..Len(s) \/ i = Len(s) + 1
  BY <1>1
<1> DEFINE a == Append(s, x)
<1>3. /\ a \in Seq(S)
      /\ Len(a) = Len(s) + 1
      /\ \A i \in 1..Len(s) : a[i] = s[i]
      /\ a[Len(s) + 1] = x
  BY AppendProperties
<1> HIDE DEF a
<1>4. ASSUME NEW i \in 1..Len(a)
      PROVE  a[i] = x \/ (i \in 1..Len(s) /\ a[i] = s[i])
  <2>1. i \in 1..Len(s) \/ i = Len(s) + 1
    BY <1>2, <1>3
  <2> QED BY <1>3, <2>1
<1> QED BY <1>3, <1>4 DEF a

\* Every element of a tail is an element of the sequence, and so is its head.
LEMMA TailElements ==
    ASSUME NEW S, NEW s \in Seq(S), s # <<>>
    PROVE  /\ Tail(s) \in Seq(S)
           /\ 1 \in 1..Len(s) /\ Head(s) = s[1] /\ Head(s) \in S
           /\ \A i \in 1..Len(Tail(s)) :
                 i + 1 \in 1..Len(s) /\ Tail(s)[i] = s[i + 1]
<1>1. Len(s) \in Nat \ {0}
  BY EmptySeq
<1>2. \A i \in 1..(Len(s) - 1) : i + 1 \in 1..Len(s)
  BY <1>1
<1>3. Head(s) = s[1] /\ 1 \in 1..Len(s)
  BY <1>1
<1> QED BY <1>2, <1>3, HeadTailProperties

\* A sequence over a set is one over any larger set.
LEMMA SeqMonotone ==
    ASSUME NEW S, NEW T, S \subseteq T, NEW s \in Seq(S)
    PROVE  s \in Seq(T)
OBVIOUS

\* A new event is ahead of every cursor there is.
LEMMA EmitInv == ASSUME FeedInv, emit PROVE FeedInv'
<1>1. nextSeq \in Nat \ {0} /\ nextSeq' = nextSeq + 1
  BY DEF FeedInv, FeedTypeOK, emit
<1>2. /\ 0..nextSeq \subseteq 0..nextSeq'
      /\ 1..(nextSeq - 1) \subseteq 1..(nextSeq' - 1)
      /\ nextSeq \in 1..(nextSeq' - 1)
  BY <1>1
<1>3. events \subseteq 1..(nextSeq - 1) /\ events' \subseteq events \cup {nextSeq}
  BY DEF FeedInv, FeedTypeOK, emit
<1>4. FeedTypeOK'
  <2>1. polls' \in Seq(0..nextSeq')
    BY <1>2, SeqMonotone DEF FeedInv, FeedTypeOK, emit
  <2>2. [next : 0..nextSeq, events : SUBSET (1..(nextSeq - 1))]
          \subseteq [next : 0..nextSeq', events : SUBSET (1..(nextSeq' - 1))]
    BY <1>2
  <2>3. replies \in Seq([next : 0..nextSeq, events : SUBSET (1..(nextSeq - 1))])
          /\ replies' = replies
    BY DEF FeedInv, FeedTypeOK, emit
  <2>5. replies' \in Seq([next : 0..nextSeq', events : SUBSET (1..(nextSeq' - 1))])
    BY <2>2, <2>3, SeqMonotone, Zenon
  <2>4. events' \subseteq 1..(nextSeq' - 1)
    BY <1>1, <1>2, <1>3
  <2> QED BY <1>1, <1>2, <2>1, <2>5, <2>4 DEF FeedInv, FeedTypeOK, emit
<1>5. NoEventSkipped'
  BY <1>1, <1>3 DEF FeedInv, FeedTypeOK, NoEventSkipped, emit
<1>6. /\ \A i \in 1..Len(polls) : polls[i] \in 0..nextSeq
      /\ \A i \in 1..Len(replies) : replies[i].next \in 0..nextSeq
  <2> DEFINE R == [next : 0..nextSeq, events : SUBSET (1..(nextSeq - 1))]
  <2>1. polls \in Seq(0..nextSeq) /\ replies \in Seq(R)
    BY DEF FeedInv, FeedTypeOK
  <2>2. \A i \in 1..Len(replies) : replies[i] \in R
    <3> HIDE DEF R
    <3> QED BY <2>1, ElementOfSeq, Zenon
  <2> QED BY <2>1, <2>2, ElementOfSeq
<1>7. NoneSkippedLater'
  <2>1. polls' = polls /\ replies' = replies /\ seen' = seen
    BY DEF emit
  <2>2. \A n \in 0..nextSeq : \A e \in events' : e < n => e \in events
    BY <1>1, <1>3
  <2>3. \A i \in 1..Len(polls) : \A e \in events' : e < polls[i] => e \in seen
    BY <1>6, <2>2 DEF FeedInv, NoneSkippedLater
  <2>4. \A i \in 1..Len(replies) : \A e \in events' :
           e < replies[i].next => e \in seen \cup replies[i].events
    <3> SUFFICES ASSUME NEW i \in 1..Len(replies), NEW e \in events',
                        e < replies[i].next
                 PROVE  e \in seen \cup replies[i].events
      OBVIOUS
    <3>1. e \in events
      BY <1>6, <2>2
    <3> QED BY <3>1, Zenon DEF FeedInv, NoneSkippedLater
  <2> QED BY <2>1, <2>3, <2>4, Zenon DEF NoneSkippedLater
<1> QED BY <1>4, <1>5, <1>7 DEF FeedInv

\* The cursor a refresh captures is the cursor there is.
LEMMA RefreshInv == ASSUME FeedInv, refresh PROVE FeedInv'
<1>1. /\ polls \in Seq(0..nextSeq) /\ cursor \in 0..nextSeq
      /\ polls' = Append(polls, cursor)
  BY DEF FeedInv, FeedTypeOK, refresh
<1>2. /\ polls' \in Seq(0..nextSeq)
      /\ \A i \in 1..Len(polls') :
            polls'[i] = cursor \/ (i \in 1..Len(polls) /\ polls'[i] = polls[i])
  <2> DEFINE a == Append(polls, cursor)
  <2>1. /\ a \in Seq(0..nextSeq)
        /\ \A i \in 1..Len(a) :
              a[i] = cursor \/ (i \in 1..Len(polls) /\ a[i] = polls[i])
    BY <1>1, AppendElements
  <2> HIDE DEF a
  <2>2. polls' = a
    BY <1>1 DEF a
  <2> QED BY <2>1, <2>2
<1>3. FeedTypeOK'
  BY <1>2 DEF FeedInv, FeedTypeOK, refresh
<1>4. NoEventSkipped'
  BY DEF FeedInv, NoEventSkipped, refresh
<1>5. NoneSkippedLater'
  BY <1>2 DEF FeedInv, NoEventSkipped, NoneSkippedLater, refresh
<1> QED BY <1>3, <1>4, <1>5 DEF FeedInv

\* The serial queue takes the oldest refresh off, and what is left of it was
\* there before.
LEMMA TakePoll ==
    ASSUME FeedInv, polls # <<>>
    PROVE  /\ Tail(polls) \in Seq(0..nextSeq)
           /\ Head(polls) \in 0..nextSeq
           /\ \A e \in events : e < Head(polls) => e \in seen
           /\ \A i \in 1..Len(Tail(polls)) :
                 \A e \in events : e < Tail(polls)[i] => e \in seen
<1>1. polls \in Seq(0..nextSeq)
  BY DEF FeedInv, FeedTypeOK
<1>2. \A i \in 1..Len(polls) : \A e \in events : e < polls[i] => e \in seen
  BY DEF FeedInv, NoneSkippedLater
<1>3. /\ Tail(polls) \in Seq(0..nextSeq) /\ Head(polls) \in 0..nextSeq
      /\ 1 \in 1..Len(polls) /\ Head(polls) = polls[1]
      /\ \A i \in 1..Len(Tail(polls)) :
            i + 1 \in 1..Len(polls) /\ Tail(polls)[i] = polls[i + 1]
  BY <1>1, TailElements, Zenon
<1> QED BY <1>2, <1>3, Zenon

\* An answer that skips nothing unseen, added to the others, skips nothing.
LEMMA ReplyInv ==
    ASSUME FeedInv, polls # <<>>,
           NEW r \in [next : 0..nextSeq, events : SUBSET (1..(nextSeq - 1))],
           \A e \in events : e < r.next => e \in seen \cup r.events,
           polls' = Tail(polls), replies' = Append(replies, r),
           UNCHANGED <<events, nextSeq, cursor, primed, seen>>
    PROVE  FeedInv'
<1>1. replies \in Seq([next : 0..nextSeq, events : SUBSET (1..(nextSeq - 1))])
  BY DEF FeedInv, FeedTypeOK
<1>2. /\ replies' \in Seq([next : 0..nextSeq, events : SUBSET (1..(nextSeq - 1))])
      /\ \A i \in 1..Len(replies') :
            replies'[i] = r \/ (i \in 1..Len(replies) /\ replies'[i] = replies[i])
  <2> DEFINE a == Append(replies, r)
  <2>1. /\ a \in Seq([next : 0..nextSeq, events : SUBSET (1..(nextSeq - 1))])
        /\ \A i \in 1..Len(a) :
              a[i] = r \/ (i \in 1..Len(replies) /\ a[i] = replies[i])
    BY <1>1, AppendElements
  <2> HIDE DEF a
  <2>2. replies' = a
    BY DEF a
  <2> QED BY <2>1, <2>2
<1>3. FeedTypeOK'
  BY <1>2, TakePoll DEF FeedInv, FeedTypeOK
<1>4. NoEventSkipped'
  BY DEF FeedInv, NoEventSkipped
<1>5. NoneSkippedLater'
  BY <1>2, TakePoll DEF FeedInv, NoneSkippedLater
<1> QED BY <1>3, <1>4, <1>5 DEF FeedInv

\* The inclusive test: what is behind the daemon's own count is either behind
\* the captured cursor, and seen, or picked.
LEMMA FetchInv == ASSUME FeedInv, Fetch PROVE FeedInv'
<1> DEFINE r == [next |-> nextSeq, events |-> picked(Head(polls))]
<1>1. polls # <<>> /\ polls' = Tail(polls) /\ replies' = Append(replies, r)
      /\ UNCHANGED <<events, nextSeq, cursor, primed, seen>>
  BY DEF Fetch
<1>2. nextSeq \in Nat \ {0} /\ events \subseteq 1..(nextSeq - 1)
  BY DEF FeedInv, FeedTypeOK
<1>3. Head(polls) \in 0..nextSeq /\ \A e \in events : e < Head(polls) => e \in seen
  BY <1>1, TakePoll
<1>4. r \in [next : 0..nextSeq, events : SUBSET (1..(nextSeq - 1))]
  <2>1. nextSeq \in 0..nextSeq
    BY <1>2
  <2>2. picked(Head(polls)) \in SUBSET (1..(nextSeq - 1))
    BY <1>2 DEF picked
  <2> QED BY <2>1, <2>2
<1>5. \A e \in events : e < r.next => e \in seen \cup r.events
  BY <1>2, <1>3 DEF picked
<1> HIDE DEF r
<1> QED BY <1>1, <1>4, <1>5, ReplyInv

\* A refresh whose events were not answered hands its own cursor on.
LEMMA FetchHalfInv == ASSUME FeedInv, FetchHalf PROVE FeedInv'
<1> DEFINE r == [next |-> Head(polls), events |-> {}]
<1>1. polls # <<>> /\ polls' = Tail(polls) /\ replies' = Append(replies, r)
      /\ UNCHANGED <<events, nextSeq, cursor, primed, seen>>
  BY DEF FetchHalf
<1>2. Head(polls) \in 0..nextSeq /\ \A e \in events : e < Head(polls) => e \in seen
  BY <1>1, TakePoll
<1>3. /\ r \in [next : 0..nextSeq, events : SUBSET (1..(nextSeq - 1))]
      /\ \A e \in events : e < r.next => e \in seen \cup r.events
  BY <1>2
<1> HIDE DEF r
<1> QED BY <1>1, <1>3, ReplyInv

\* A refresh that got nothing leaves everything as it was.
LEMMA FetchNothingInv == ASSUME FeedInv, FetchNothing PROVE FeedInv'
<1>1. polls # <<>> /\ polls' = Tail(polls)
      /\ UNCHANGED <<events, nextSeq, cursor, primed, replies, seen>>
  BY DEF FetchNothing
<1> QED BY <1>1, TakePoll
      DEF FeedInv, FeedTypeOK, NoEventSkipped, NoneSkippedLater

\* What the cursor moves past comes with the answer or was seen before.
LEMMA ConsumeInv == ASSUME FeedInv, consumeEvents PROVE FeedInv'
<1> DEFINE R == [next : 0..nextSeq, events : SUBSET (1..(nextSeq - 1))]
<1>1. /\ replies \in Seq(R) /\ replies # <<>> /\ replies' = Tail(replies)
      /\ cursor' = Head(replies).next /\ primed' = TRUE
      /\ seen' = seen \cup Head(replies).events
      /\ UNCHANGED <<events, nextSeq, polls>>
  BY DEF FeedInv, FeedTypeOK, consumeEvents
<1>2. /\ Tail(replies) \in Seq(R)
      /\ 1 \in 1..Len(replies) /\ Head(replies) = replies[1] /\ Head(replies) \in R
      /\ \A i \in 1..Len(Tail(replies)) :
            i + 1 \in 1..Len(replies) /\ Tail(replies)[i] = replies[i + 1]
  <2> HIDE DEF R
  <2> QED BY <1>1, TailElements
<1>3. FeedTypeOK'
  BY <1>1, <1>2 DEF FeedInv, FeedTypeOK
<1>4. NoEventSkipped'
  BY <1>1, <1>2 DEF FeedInv, NoEventSkipped, NoneSkippedLater
<1>5. NoneSkippedLater'
  BY <1>1, <1>2 DEF FeedInv, NoneSkippedLater
<1> QED BY <1>3, <1>4, <1>5 DEF FeedInv

\* The three together hold in every state.
THEOREM FeedInvariant == FeedSpec => []FeedInv
<1>1. FeedInit => FeedInv
  <2> SUFFICES ASSUME FeedInit PROVE FeedInv
    OBVIOUS
  <2>1. Len(polls) = 0 /\ Len(replies) = 0
    BY EmptySeq DEF FeedInit
  <2>2. FeedTypeOK
    <3>1. polls \in Seq(0..nextSeq)
      BY EmptySeq, Zenon DEF FeedInit
    <3>2. replies \in Seq([next : 0..nextSeq, events : SUBSET (1..(nextSeq - 1))])
      BY EmptySeq, Zenon DEF FeedInit
    <3>3. /\ nextSeq \in Nat \ {0} /\ cursor \in 0..nextSeq
          /\ events \subseteq 1..(nextSeq - 1) /\ seen \subseteq 1..(nextSeq - 1)
      BY DEF FeedInit
    <3>4. primed \in BOOLEAN
      BY DEF FeedInit
    <3> QED BY <3>1, <3>2, <3>3, <3>4 DEF FeedTypeOK
  <2> QED BY <2>1, <2>2 DEF FeedInit, FeedInv, NoEventSkipped, NoneSkippedLater
<1>2. FeedInv /\ [FeedNext]_feedVars => FeedInv'
  <2>1. ASSUME FeedInv, UNCHANGED feedVars PROVE FeedInv'
    BY <2>1 DEF FeedInv, FeedTypeOK, NoEventSkipped, NoneSkippedLater, feedVars
  <2> QED BY <2>1, EmitInv, RefreshInv, FetchInv, FetchHalfInv, FetchNothingInv,
            ConsumeInv DEF FeedNext
<1> QED BY <1>1, <1>2, PTL DEF FeedSpec

\* No event still in the ring is ever behind the application's cursor without
\* having been handed to it, however many refreshes overlap or fail, for a
\* ring of any size.
THEOREM NothingIsSkipped == FeedSpec => []NoEventSkipped
BY FeedInvariant, PTL DEF FeedInv

\* Every variable keeps its type, and no cursor gets ahead of the daemon.
THEOREM FeedTypeCorrect == FeedSpec => []FeedTypeOK
BY FeedInvariant, PTL DEF FeedInv

-----------------------------------------------------------------------------
(* A daemon that is started again.                                         *)

\* A cursor that was handed out by the running daemon is not ahead of it; once
\* an event counts as safe every cursor is the running daemon's; and what lies
\* behind a cursor has been handed over.
Behind(n, own, got, ev, sf, count) ==
    /\ own => n <= count
    /\ sf # {} => own
    /\ \A e \in ev \cap sf : e < n => e \in got

RestartType ==
    /\ nextSeq \in Nat \ {0}
    /\ events \subseteq 1..(nextSeq - 1)
    /\ cursor \in Nat /\ mine \in BOOLEAN
    /\ polls \in Seq(Nat) /\ ptag \in Seq(BOOLEAN) /\ Len(ptag) = Len(polls)
    /\ replies \in Seq([next : Nat, events : SUBSET Nat])
    /\ rtag \in Seq(BOOLEAN) /\ Len(rtag) = Len(replies)

CursorBehind == Behind(cursor, mine, seen, events, safe, nextSeq)
PollsBehind == \A i \in 1..Len(polls) : Behind(polls[i], ptag[i], seen, events, safe, nextSeq)
RepliesBehind ==
    \A i \in 1..Len(replies) :
       Behind(replies[i].next, rtag[i], seen \cup replies[i].events, events, safe, nextSeq)

RInv == RestartType /\ CursorBehind /\ PollsBehind /\ RepliesBehind

\* Two sequences grow side by side.
LEMMA AppendPair ==
    ASSUME NEW S, NEW s \in Seq(S), NEW x \in S, NEW T, NEW t \in Seq(T), NEW y \in T, Len(t) = Len(s)
    PROVE  /\ Append(s, x) \in Seq(S) /\ Append(t, y) \in Seq(T) /\ Len(Append(t, y)) = Len(Append(s, x))
           /\ \A i \in 1..Len(Append(s, x)) :
                 IF i \in 1..Len(s) THEN Append(s, x)[i] = s[i] /\ Append(t, y)[i] = t[i]
                 ELSE Append(s, x)[i] = x /\ Append(t, y)[i] = y
<1>1. Len(s) \in Nat
  BY LenProperties
<1>2. \A i \in 1..(Len(s) + 1) : i \in 1..Len(s) \/ i = Len(s) + 1
  BY <1>1
<1> DEFINE a == Append(s, x)
           b == Append(t, y)
<1>3. /\ a \in Seq(S) /\ Len(a) = Len(s) + 1
      /\ \A i \in 1..Len(s) : a[i] = s[i]
      /\ a[Len(s) + 1] = x
  BY AppendProperties
<1>4. /\ b \in Seq(T) /\ Len(b) = Len(s) + 1
      /\ \A i \in 1..Len(s) : b[i] = t[i]
      /\ b[Len(s) + 1] = y
  BY AppendProperties
<1> HIDE DEF a, b
<1>5. \A i \in 1..Len(a) : IF i \in 1..Len(s) THEN a[i] = s[i] /\ b[i] = t[i] ELSE a[i] = x /\ b[i] = y
  BY <1>2, <1>3, <1>4
<1> QED BY <1>3, <1>4, <1>5 DEF a, b

\* And are taken from side by side.
LEMMA TailPair ==
    ASSUME NEW S, NEW s \in Seq(S), NEW T, NEW t \in Seq(T), Len(t) = Len(s), s # <<>>
    PROVE  /\ Tail(s) \in Seq(S) /\ Tail(t) \in Seq(T) /\ Len(Tail(t)) = Len(Tail(s))
           /\ 1 \in 1..Len(s) /\ Head(s) = s[1] /\ Head(t) = t[1] /\ Head(s) \in S /\ Head(t) \in T
           /\ \A i \in 1..Len(Tail(s)) : /\ i + 1 \in 1..Len(s)
                                         /\ Tail(s)[i] = s[i + 1] /\ Tail(t)[i] = t[i + 1]
<1>1. Len(s) \in Nat \ {0}
  BY EmptySeq
<1>2. t # <<>>
  BY <1>1, EmptySeq
<1>3. /\ Tail(s) \in Seq(S) /\ 1 \in 1..Len(s) /\ Head(s) = s[1] /\ Head(s) \in S
      /\ \A i \in 1..Len(Tail(s)) : i + 1 \in 1..Len(s) /\ Tail(s)[i] = s[i + 1]
  BY TailElements
<1>4. /\ Tail(t) \in Seq(T) /\ Head(t) = t[1] /\ Head(t) \in T
      /\ \A i \in 1..Len(Tail(t)) : Tail(t)[i] = t[i + 1]
  BY <1>2, TailElements
<1>5. Len(Tail(s)) = Len(s) - 1 /\ Len(Tail(t)) = Len(t) - 1
  BY <1>2, HeadTailProperties
<1> QED BY <1>3, <1>4, <1>5

\* Everything is the running daemon's as soon as something is safe.
LEMMA SafeIsMine == ASSUME RInv, safe # {} PROVE AllMine
<1>1. DOMAIN ptag = 1..Len(polls) /\ DOMAIN rtag = 1..Len(replies)
  BY LenProperties DEF RInv, RestartType
<1> QED BY <1>1 DEF RInv, CursorBehind, PollsBehind, RepliesBehind, Behind, AllMine

\* A new event is ahead of every cursor of the daemon's own.
LEMMA EmitBehind ==
    ASSUME RInv, emit, safe' = (IF AllMine THEN safe \cup {nextSeq} ELSE safe),
           NEW n \in Nat, NEW own \in BOOLEAN, NEW got, AllMine => own,
           Behind(n, own, got, events, safe, nextSeq)
    PROVE  Behind(n, own, got, events', safe', nextSeq')
<1>1. nextSeq \in Nat /\ nextSeq' = nextSeq + 1 /\ events' \subseteq events \cup {nextSeq}
  BY DEF RInv, RestartType, emit
<1>2. CASE AllMine
  BY <1>1, <1>2 DEF Behind
<1>3. CASE ~AllMine
  <2>1. safe' = {}
    BY <1>3, SafeIsMine
  <2> QED BY <1>1, <2>1 DEF Behind
<1> QED BY <1>2, <1>3

LEMMA RestartEmit ==
    ASSUME RInv, emit, safe' = (IF AllMine THEN safe \cup {nextSeq} ELSE safe), UNCHANGED <<mine, ptag, rtag>>
    PROVE  RInv'
<1>1. UNCHANGED <<cursor, polls, replies, seen>>
  BY DEF emit
<1>2. RestartType'
  <2>1. nextSeq \in Nat \ {0} /\ nextSeq' = nextSeq + 1
    BY DEF emit, RInv, RestartType
  <2>2. events \subseteq 1..(nextSeq - 1) /\ events' \subseteq events \cup {nextSeq}
    BY DEF emit, RInv, RestartType
  <2>3. events' \subseteq 1..(nextSeq' - 1)
    BY <2>1, <2>2
  <2> QED BY <1>1, <2>1, <2>3 DEF RInv, RestartType
<1>3. DOMAIN ptag = 1..Len(polls) /\ DOMAIN rtag = 1..Len(replies)
  BY LenProperties DEF RInv, RestartType
<1>4. CursorBehind'
  BY <1>1, EmitBehind DEF RInv, RestartType, CursorBehind, AllMine
<1>5. PollsBehind'
  <2> SUFFICES ASSUME NEW i \in 1..Len(polls)
               PROVE  Behind(polls[i], ptag[i], seen, events', safe', nextSeq')
    BY <1>1 DEF PollsBehind
  <2>1. polls[i] \in Nat /\ ptag[i] \in BOOLEAN /\ (AllMine => ptag[i])
    BY <1>3, ElementOfSeq DEF RInv, RestartType, AllMine
  <2> QED BY <2>1, EmitBehind DEF RInv, PollsBehind
<1>6. RepliesBehind'
  <2> SUFFICES ASSUME NEW i \in 1..Len(replies)
               PROVE  Behind(replies[i].next, rtag[i], seen \cup replies[i].events, events', safe', nextSeq')
    BY <1>1 DEF RepliesBehind
  <2>1. replies[i] \in [next : Nat, events : SUBSET Nat] /\ rtag[i] \in BOOLEAN
    BY ElementOfSeq DEF RInv, RestartType
  <2>2. replies[i].next \in Nat /\ (AllMine => rtag[i])
    BY <1>3, <2>1 DEF AllMine
  <2> QED BY <2>1, <2>2, EmitBehind DEF RInv, RepliesBehind
<1> QED BY <1>2, <1>4, <1>5, <1>6 DEF RInv

LEMMA RestartRefresh ==
    ASSUME RInv, refresh, ptag' = Append(ptag, mine), UNCHANGED <<mine, rtag, safe>>
    PROVE  RInv'
<1>1. UNCHANGED <<events, nextSeq, cursor, replies, seen>> /\ polls' = Append(polls, cursor)
  BY DEF refresh
<1>2. /\ polls' \in Seq(Nat) /\ ptag' \in Seq(BOOLEAN) /\ Len(ptag') = Len(polls')
      /\ \A i \in 1..Len(polls') : IF i \in 1..Len(polls) THEN polls'[i] = polls[i] /\ ptag'[i] = ptag[i]
                                   ELSE polls'[i] = cursor /\ ptag'[i] = mine
  BY <1>1, AppendPair DEF RInv, RestartType
<1>3. PollsBehind'
  BY <1>1, <1>2 DEF RInv, PollsBehind, CursorBehind
<1> QED BY <1>1, <1>2, <1>3 DEF RInv, RestartType, CursorBehind, RepliesBehind

\* What the serial queue takes off.
LEMMA RestartTake ==
    ASSUME RInv, polls # <<>>
    PROVE  /\ Tail(polls) \in Seq(Nat) /\ Tail(ptag) \in Seq(BOOLEAN) /\ Len(Tail(ptag)) = Len(Tail(polls))
           /\ Head(polls) \in Nat /\ Head(ptag) \in BOOLEAN
           /\ Behind(Head(polls), Head(ptag), seen, events, safe, nextSeq)
           /\ \A i \in 1..Len(Tail(polls)) : Behind(Tail(polls)[i], Tail(ptag)[i], seen, events, safe, nextSeq)
<1>1. /\ Tail(polls) \in Seq(Nat) /\ Tail(ptag) \in Seq(BOOLEAN) /\ Len(Tail(ptag)) = Len(Tail(polls))
      /\ 1 \in 1..Len(polls) /\ Head(polls) = polls[1] /\ Head(ptag) = ptag[1]
      /\ Head(polls) \in Nat /\ Head(ptag) \in BOOLEAN
      /\ \A i \in 1..Len(Tail(polls)) : /\ i + 1 \in 1..Len(polls)
                                        /\ Tail(polls)[i] = polls[i + 1] /\ Tail(ptag)[i] = ptag[i + 1]
  BY TailPair DEF RInv, RestartType
<1> QED BY <1>1 DEF RInv, PollsBehind

\* An answer that hands over what it skips.
LEMMA RestartReply ==
    ASSUME RInv, polls # <<>>, polls' = Tail(polls), ptag' = Tail(ptag),
           NEW r \in [next : Nat, events : SUBSET Nat], NEW own \in BOOLEAN,
           Behind(r.next, own, seen \cup r.events, events, safe, nextSeq),
           replies' = Append(replies, r), rtag' = Append(rtag, own),
           UNCHANGED <<events, nextSeq, cursor, seen, mine, safe>>
    PROVE  RInv'
<1>1. /\ replies' \in Seq([next : Nat, events : SUBSET Nat]) /\ rtag' \in Seq(BOOLEAN) /\ Len(rtag') = Len(replies')
      /\ \A i \in 1..Len(replies') : IF i \in 1..Len(replies) THEN replies'[i] = replies[i] /\ rtag'[i] = rtag[i]
                                     ELSE replies'[i] = r /\ rtag'[i] = own
  BY AppendPair DEF RInv, RestartType
<1>2. RepliesBehind'
  BY <1>1 DEF RInv, RepliesBehind
<1> QED BY <1>1, <1>2, RestartTake DEF RInv, RestartType, CursorBehind, PollsBehind

LEMMA RestartFetch ==
    ASSUME RInv, ptag' = Tail(ptag), UNCHANGED <<mine, safe>>,
           \/ Fetch /\ rtag' = Append(rtag, TRUE)
           \/ FetchHalf /\ rtag' = Append(rtag, Head(ptag))
           \/ FetchNothing /\ rtag' = rtag
    PROVE  RInv'
<1>1. CASE Fetch /\ rtag' = Append(rtag, TRUE)
  <2> DEFINE r == [next |-> nextSeq, events |-> picked(Head(polls))]
  <2>1. polls # <<>> /\ polls' = Tail(polls) /\ replies' = Append(replies, r)
        /\ UNCHANGED <<events, nextSeq, cursor, seen>>
    BY <1>1 DEF Fetch
  <2>2. nextSeq \in Nat \ {0} /\ events \subseteq 1..(nextSeq - 1)
    BY DEF RInv, RestartType
  <2>3. r.next = nextSeq /\ r.events = picked(Head(polls)) /\ r \in [next : Nat, events : SUBSET Nat]
    <3>1. events \subseteq Nat
      BY <2>2
    <3>2. picked(Head(polls)) \in SUBSET Nat
      BY <3>1, Zenon DEF picked
    <3> QED BY <2>2, <3>2
  <2>4. Head(polls) \in Nat /\ Behind(Head(polls), Head(ptag), seen, events, safe, nextSeq)
    BY <2>1, RestartTake
  <2> HIDE DEF r
  <2>5. Behind(r.next, TRUE, seen \cup r.events, events, safe, nextSeq)
    <3>1. ASSUME NEW e \in events \cap safe, e \notin seen PROVE e \in picked(Head(polls))
      <4>1. e \in Nat
        BY <2>2, <3>1
      <4>2. ~(e < Head(polls))
        BY <2>4, <3>1, Zenon DEF Behind
      <4>3. e >= Head(polls)
        BY <2>4, <4>1, <4>2
      <4> QED BY <4>3, Zenon DEF picked
    <3>2. \A e \in events \cap safe : e \in seen \cup r.events
      BY <2>3, <3>1
    <3>3. nextSeq <= nextSeq
      BY <2>2
    <3> QED BY <2>3, <3>2, <3>3 DEF Behind
  <2> QED BY <1>1, <2>1, <2>3, <2>5, RestartReply
<1>2. CASE FetchHalf /\ rtag' = Append(rtag, Head(ptag))
  <2> DEFINE r == [next |-> Head(polls), events |-> {}]
  <2>1. polls # <<>> /\ polls' = Tail(polls) /\ replies' = Append(replies, r)
        /\ UNCHANGED <<events, nextSeq, cursor, seen>>
    BY <1>2 DEF FetchHalf
  <2>2. Head(polls) \in Nat /\ Head(ptag) \in BOOLEAN /\ Behind(Head(polls), Head(ptag), seen, events, safe, nextSeq)
    BY <2>1, RestartTake
  <2>3. r.next = Head(polls) /\ r.events = {} /\ r \in [next : Nat, events : SUBSET Nat]
    BY <2>2
  <2> HIDE DEF r
  <2>4. Behind(r.next, Head(ptag), seen \cup r.events, events, safe, nextSeq)
    BY <2>2, <2>3 DEF Behind
  <2> QED BY <1>2, <2>1, <2>2, <2>3, <2>4, RestartReply
<1>3. CASE FetchNothing /\ rtag' = rtag
  <2>1. polls # <<>> /\ polls' = Tail(polls) /\ UNCHANGED <<events, nextSeq, cursor, replies, seen>>
    BY <1>3 DEF FetchNothing
  <2> QED BY <1>3, <2>1, RestartTake DEF RInv, RestartType, CursorBehind, PollsBehind, RepliesBehind
<1> QED BY <1>1, <1>2, <1>3

LEMMA RestartConsume ==
    ASSUME RInv, consumeEvents, mine' = Head(rtag), rtag' = Tail(rtag), UNCHANGED <<ptag, safe>>
    PROVE  RInv'
<1> DEFINE R == [next : Nat, events : SUBSET Nat]
<1>1. /\ replies # <<>> /\ replies' = Tail(replies) /\ cursor' = Head(replies).next
      /\ seen' = seen \cup Head(replies).events /\ UNCHANGED <<events, nextSeq, polls>>
  BY DEF consumeEvents
<1>2. /\ Tail(replies) \in Seq(R) /\ Tail(rtag) \in Seq(BOOLEAN) /\ Len(Tail(rtag)) = Len(Tail(replies))
      /\ 1 \in 1..Len(replies) /\ Head(replies) = replies[1] /\ Head(rtag) = rtag[1]
      /\ Head(replies) \in R /\ Head(rtag) \in BOOLEAN
      /\ \A i \in 1..Len(Tail(replies)) : /\ i + 1 \in 1..Len(replies)
                                          /\ Tail(replies)[i] = replies[i + 1] /\ Tail(rtag)[i] = rtag[i + 1]
  <2> HIDE DEF R
  <2>1. replies \in Seq(R) /\ rtag \in Seq(BOOLEAN) /\ Len(rtag) = Len(replies)
    BY DEF RInv, RestartType, R
  <2> QED BY <1>1, <2>1, TailPair
<1>3. RestartType'
  BY <1>1, <1>2 DEF RInv, RestartType
<1>4. CursorBehind'
  BY <1>1, <1>2 DEF RInv, RepliesBehind, CursorBehind
<1>5. PollsBehind'
  BY <1>1 DEF RInv, PollsBehind, Behind
<1>6. RepliesBehind'
  BY <1>1, <1>2 DEF RInv, RepliesBehind, Behind
<1> QED BY <1>3, <1>4, <1>5, <1>6 DEF RInv

\* A sequence of whether each of another's elements satisfies something.
LEMMA MarkSeq ==
    ASSUME NEW S, NEW s \in Seq(S), NEW f \in [1..Len(s) -> BOOLEAN]
    PROVE  f \in Seq(BOOLEAN) /\ Len(f) = Len(s)
<1>1. Len(s) \in Nat
  BY LenProperties
<1>2. f \in Seq(BOOLEAN)
  BY <1>1, SeqDef
<1>3. DOMAIN f = 1..Len(f) /\ Len(f) \in Nat
  BY <1>2, LenProperties
<1> QED BY <1>1, <1>2, <1>3

LEMMA RestartRestart == ASSUME RInv, Restart PROVE RInv'
<1>1. /\ events' = {} /\ nextSeq' = 1 /\ seen' = {} /\ safe' = {} /\ mine' = (cursor = 0)
      /\ ptag' = [i \in DOMAIN polls |-> polls[i] = 0]
      /\ rtag' = [i \in DOMAIN replies |-> FALSE]
      /\ UNCHANGED <<cursor, polls, replies>>
  BY DEF Restart
<1>2. DOMAIN polls = 1..Len(polls) /\ DOMAIN replies = 1..Len(replies)
  BY LenProperties DEF RInv, RestartType
<1>3. ptag' \in Seq(BOOLEAN) /\ Len(ptag') = Len(polls)
  <2>1. ptag' \in [1..Len(polls) -> BOOLEAN]
    BY <1>1, <1>2
  <2> QED BY <2>1, MarkSeq DEF RInv, RestartType
<1>4. rtag' \in Seq(BOOLEAN) /\ Len(rtag') = Len(replies)
  <2>1. rtag' \in [1..Len(replies) -> BOOLEAN]
    BY <1>1, <1>2
  <2> QED BY <2>1, MarkSeq DEF RInv, RestartType
<1>5. RestartType'
  BY <1>1, <1>3, <1>4 DEF RInv, RestartType
<1>6. CursorBehind'
  <2>1. mine' => cursor <= 1
    <3>1. mine' => cursor = 0
      BY <1>1, Zenon
    <3> QED BY <3>1
  <2> QED BY <1>1, <2>1 DEF CursorBehind, Behind
<1>7. PollsBehind'
  <2>1. \A i \in 1..Len(polls) : ptag'[i] => polls[i] = 0
    BY <1>1, <1>2, Zenon
  <2>2. \A i \in 1..Len(polls) : ptag'[i] => polls[i] <= 1
    BY <2>1
  <2> QED BY <1>1, <2>2 DEF PollsBehind, Behind
<1>8. RepliesBehind'
  <2>1. \A i \in 1..Len(replies) : rtag'[i] = FALSE
    BY <1>1, <1>2
  <2> QED BY <1>1, <2>1 DEF RepliesBehind, Behind
<1> QED BY <1>5, <1>6, <1>7, <1>8 DEF RInv

\* However often the daemon is started again under an application that goes on
\* running, no event that was emitted once every cursor was the running
\* daemon's, and is still in the ring, is passed over: for a ring of any size
\* and any number of events, refreshes and restarts.
THEOREM NothingIsSkippedAfterRestart == Spec => []NoEventSkippedAfterRestart
<1>1. Init => RInv
  <2> SUFFICES ASSUME RestartInit PROVE RInv
    BY DEF Init
  <2>1. polls = <<>> /\ ptag = <<>> /\ replies = <<>> /\ rtag = <<>>
    BY DEF RestartInit, FeedInit
  <2>2. Len(polls) = 0 /\ Len(ptag) = 0 /\ Len(replies) = 0 /\ Len(rtag) = 0
    BY <2>1, EmptySeq
  <2>3. polls \in Seq(Nat) /\ ptag \in Seq(BOOLEAN) /\ rtag \in Seq(BOOLEAN)
    BY <2>1, EmptySeq
  <2>4. replies \in Seq([next : Nat, events : SUBSET Nat])
    BY <2>1, EmptySeq, Zenon
  <2> QED BY <2>2, <2>3, <2>4 DEF RestartInit, FeedInit, RInv, RestartType, CursorBehind, PollsBehind, RepliesBehind, Behind
<1>2. RInv /\ [Next]_vars => RInv'
  <2> SUFFICES ASSUME RInv, [Next]_vars PROVE RInv'
    OBVIOUS
  <2>1. CASE UNCHANGED restartVars
    BY <2>1 DEF restartVars, feedVars, RInv, RestartType, CursorBehind, PollsBehind, RepliesBehind
  <2>2. CASE RestartNext
    BY <2>2, RestartEmit, RestartRefresh, RestartFetch, RestartConsume, RestartRestart DEF RestartNext
  <2> QED BY <2>1, <2>2 DEF Next, vars
<1>3. RInv => NoEventSkippedAfterRestart
  BY DEF RInv, CursorBehind, Behind, NoEventSkippedAfterRestart
<1> QED BY <1>1, <1>2, <1>3, PTL DEF Spec
=============================================================================
