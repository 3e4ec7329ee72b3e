----------------------------- MODULE Mac_proofs -----------------------------
(***************************************************************************)
(* Proofs about the parts of the Mac's side (Mac).  The parts share no     *)
(* state: each invariant is shown to be kept by the steps of its own part, *)
(* and the others leave its variables alone.                               *)
(***************************************************************************)
EXTENDS Mac, FiniteSetTheorems, FunctionTheorems, TLAPS

-----------------------------------------------------------------------------
(* The service.                                                            *)

Opened(p) == proc[p].at \in {"opened", "running", "stopping"}

Ats == {"idle", "state", "copy", "bootout", "bootstrap", "kickstart", "look", "unlink", "done"}
Cmds == [verb : Verbs \cup {"none"}, at : Ats, ok : BOOLEAN]

SvcType ==
    /\ loaded \in BOOLEAN
    /\ inode \in Nat /\ inodes \in Nat
    /\ proc \in [Procs -> [at : {"gone", "starting", "opened", "running", "stopping"}, fd : Nat]]
    /\ cmd \in [Clients -> Cmds]
    /\ was \in [Clients -> SUBSET BOOLEAN]

\* The file stays where it is once it is there: whoever has it open has the one
\* at the path, so the one lock on it keeps every other process out.
OneFile == \A p \in Procs : Opened(p) => proc[p].fd = inode /\ inode # 0

\* What a command still has to do says which command it is; what launchd has
\* now is among what it has had since the command began; and success is true.
CmdSound(x, had, now) ==
    /\ x.at \in {"state", "kickstart"} => x.verb \in {"start", "restart"}
    /\ x.at \in {"copy", "bootstrap"} => x.verb \in {"start", "restart", "install"}
    /\ x.at = "bootout" => x.verb # "none"
    /\ x.at = "look" => x.verb = "stop"
    /\ x.at = "unlink" => x.verb = "uninstall"
    /\ x.at # "idle" => now \in had
    /\ x.at = "done" /\ x.ok =>
          /\ x.verb \in {"start", "restart", "install"} => TRUE \in had
          /\ x.verb = "stop" => FALSE \in had

CmdsSound == \A c \in Clients : CmdSound(cmd[c], was[c], loaded)

SvcInv == SvcType /\ OneFile /\ OneDaemonRuns /\ CmdsSound

LEMMA SvcInitInv == SvcInit => SvcInv
<1> SUFFICES ASSUME SvcInit PROVE SvcInv
  OBVIOUS
<1>1. SvcType
  BY DEF SvcInit, SvcType, Gone, NoCmd, Cmds, Ats
<1>2. OneFile /\ OneDaemonRuns
  BY DEF SvcInit, OneFile, OneDaemonRuns, Opened, Holds, Gone
<1>3. CmdsSound
  BY DEF SvcInit, CmdsSound, CmdSound, NoCmd
<1> QED BY <1>1, <1>2, <1>3 DEF SvcInv

\* The processes and the lock.
LEMMA ProcStep ==
    ASSUME SvcInv, NEW p \in Procs,
           LockOpen(p) \/ Flock(p) \/ Exit(p) \/ ByHand(p) \/ Launch(p)
    PROVE  SvcInv'
<1> USE DEF SvcInv, SvcType
<1>1. loaded' = loaded /\ cmd' = cmd /\ was' = was
  BY DEF LockOpen, Flock, Exit, ByHand, Launch
<1>2. CmdsSound'
  BY <1>1 DEF CmdsSound
<1>3. CASE LockOpen(p)
  BY <1>1, <1>2, <1>3 DEF LockOpen, OneFile, OneDaemonRuns, Opened, Holds
<1>4. CASE Flock(p)
  BY <1>1, <1>2, <1>4 DEF Flock, OneFile, OneDaemonRuns, Opened, Holds, Gone
<1>5. CASE Exit(p)
  BY <1>1, <1>2, <1>5 DEF Exit, OneFile, OneDaemonRuns, Opened, Holds, Gone
<1>6. CASE ByHand(p)
  BY <1>1, <1>2, <1>6 DEF ByHand, OneFile, OneDaemonRuns, Opened, Holds
<1>7. CASE Launch(p)
  BY <1>1, <1>2, <1>7 DEF Launch, OneFile, OneDaemonRuns, Opened, Holds
<1> QED BY <1>3, <1>4, <1>5, <1>6, <1>7

\* A process told to end still holds the lock, and one that was not past it is
\* not past it now.
LEMMA ToldFacts ==
    ASSUME SvcInv, NEW p
    PROVE  /\ Told(p) \in [Procs -> [at : {"gone", "starting", "opened", "running", "stopping"}, fd : Nat]]
           /\ \A q \in Procs :
                 /\ Told(p)[q].fd = proc[q].fd
                 /\ Told(p)[q].at \in {"running", "stopping"} <=> Holds(q)
                 /\ Told(p)[q].at \in {"opened", "running", "stopping"} <=> Opened(q)
BY DEF SvcInv, SvcType, Told, Holds, Opened

\* launchctl leaves the processes where they are as far as the lock goes.
LEMMA LaunchctlKeepsTheLock ==
    ASSUME SvcInv, proc' = proc \/ proc' = Told(job), UNCHANGED <<inode, inodes>>
    PROVE  /\ proc' \in [Procs -> [at : {"gone", "starting", "opened", "running", "stopping"}, fd : Nat]]
           /\ inode' \in Nat /\ inodes' \in Nat
           /\ OneFile' /\ OneDaemonRuns'
<1>1. CASE proc' = proc
  BY <1>1 DEF SvcInv, SvcType, OneFile, OneDaemonRuns, Opened, Holds
<1>2. CASE proc' = Told(job)
  BY <1>2, ToldFacts DEF SvcInv, SvcType, OneFile, OneDaemonRuns, Opened, Holds
<1> QED BY <1>1, <1>2

\* A client's step moves its own command on, and the other clients see what
\* launchd has now, if that changed.
LEMMA ClientEffect ==
    ASSUME SvcInv, NEW c \in Clients, NEW r \in Cmds,
           cmd' = [cmd EXCEPT ![c] = r],
           loaded' \in BOOLEAN,
           was' \in [Clients -> SUBSET BOOLEAN],
           \/ Note
           \/ loaded' = loaded /\ \A d \in Clients \ {c} : was'[d] = was[d],
           CmdSound(r, was'[c], loaded'),
           proc' = proc \/ proc' = Told(job), UNCHANGED <<inode, inodes>>
    PROVE  SvcInv'
<1>1. /\ proc' \in [Procs -> [at : {"gone", "starting", "opened", "running", "stopping"}, fd : Nat]]
      /\ inode' \in Nat /\ inodes' \in Nat
      /\ OneFile' /\ OneDaemonRuns'
  BY LaunchctlKeepsTheLock
<1>2. cmd' \in [Clients -> Cmds]
  BY DEF SvcInv, SvcType
<1>3. ASSUME NEW d \in Clients PROVE CmdSound(cmd'[d], was'[d], loaded')
  <2>1. CASE d = c
    BY <2>1 DEF SvcInv, SvcType
  <2>2. CASE d # c
    <3>1. cmd'[d] = cmd[d] /\ CmdSound(cmd[d], was[d], loaded)
      BY <2>2 DEF SvcInv, SvcType, CmdsSound
    <3>2. CASE Note
      <4>1. was'[d] = was[d] \cup {loaded'}
        BY <3>2 DEF Note
      <4> QED BY <3>1, <4>1 DEF CmdSound
    <3>3. CASE loaded' = loaded /\ was'[d] = was[d]
      BY <3>1, <3>3
    <3> QED BY <2>2, <3>2, <3>3
  <2> QED BY <2>1, <2>2
<1> QED BY <1>1, <1>2, <1>3 DEF SvcInv, SvcType, CmdsSound

\* A client's steps.
LEMMA ClientStep ==
    ASSUME SvcInv, NEW c \in Clients,
           \/ \E verb \in Verbs : Command(c, verb)
           \/ agent_state(c) \/ Kickstart(c) \/ CopyPlist(c) \/ Bootstrap(c)
           \/ Bootout(c) \/ LookAgain(c) \/ Unlink(c) \/ Say(c)
    PROVE  SvcInv'
<1>0. /\ SvcType
      /\ cmd[c] \in Cmds /\ was[c] \in SUBSET BOOLEAN /\ CmdSound(cmd[c], was[c], loaded)
  BY DEF SvcInv, SvcType, CmdsSound
<1>n. Note /\ loaded' \in BOOLEAN =>
         was' \in [Clients -> SUBSET BOOLEAN] /\ was'[c] = was[c] \cup {loaded'}
  BY <1>0 DEF Note, SvcType
<1>3. ASSUME NEW verb \in Verbs, Command(c, verb) PROVE SvcInv'
  <2> DEFINE at == IF verb \in {"start", "restart"} THEN "state"
                   ELSE IF verb = "install" THEN "copy" ELSE "bootout"
             r == [verb |-> verb, ok |-> FALSE, at |-> at]
  <2>1. r \in Cmds /\ CmdSound(r, {loaded}, loaded)
    BY <1>3 DEF Cmds, Ats, Verbs, CmdSound
  <2>2. was' = [was EXCEPT ![c] = {loaded}] /\ cmd' = [cmd EXCEPT ![c] = r]
    BY <1>3 DEF Command
  <2>3. /\ was' \in [Clients -> SUBSET BOOLEAN]
        /\ was'[c] = {loaded} /\ \A d \in Clients \ {c} : was'[d] = was[d]
    BY <1>0, <2>2 DEF SvcType
  <2>4. loaded' = loaded /\ loaded \in BOOLEAN /\ proc' = proc /\ UNCHANGED <<inode, inodes>>
    BY <1>0, <1>3 DEF Command, SvcType
  <2> HIDE DEF r
  <2> QED BY <2>1, <2>2, <2>3, <2>4, ClientEffect
<1>4. CASE agent_state(c)
  <2> DEFINE r == [cmd[c] EXCEPT !.at = agent_start([loaded |-> loaded, installed |-> plist])]
  <2>1. r \in Cmds /\ CmdSound(r, was[c], loaded)
    BY <1>0, <1>4 DEF Cmds, Ats, CmdSound, agent_state, agent_start
  <2>2. cmd' = [cmd EXCEPT ![c] = r]
    BY <1>4 DEF agent_state, Goes
  <2> QED BY <1>0, <1>4, <2>1, <2>2, ClientEffect DEF agent_state, SvcType
<1>5. CASE Kickstart(c)
  <2> PICK ok \in BOOLEAN : kickstart(ok, cmd[c].verb = "restart") /\ Done(c, ok)
    BY <1>5 DEF Kickstart
  <2> DEFINE r == [cmd[c] EXCEPT !.at = "done", !.ok = ok]
  <2>1. loaded' = loaded /\ (ok => loaded) /\ Note
    BY <1>5 DEF kickstart, Kickstart
  <2>2. cmd' = [cmd EXCEPT ![c] = r] /\ r \in Cmds
    BY <1>0 DEF Done, Cmds, Ats
  <2>3. CmdSound(r, was'[c], loaded')
    BY <1>0, <1>n, <1>5, <2>1 DEF Kickstart, SvcType, Cmds, CmdSound
  <2>4. (proc' = proc \/ proc' = Told(job)) /\ UNCHANGED <<inode, inodes>>
    BY <1>5 DEF kickstart, Kickstart
  <2> QED BY <1>0, <1>n, <2>1, <2>2, <2>3, <2>4, ClientEffect DEF SvcType
<1>6. CASE CopyPlist(c)
  <2>1. PICK r : /\ cmd' = [cmd EXCEPT ![c] = r]
                 /\ r \in {[cmd[c] EXCEPT !.at = "bootout"], [cmd[c] EXCEPT !.at = "done", !.ok = FALSE]}
    BY <1>6 DEF CopyPlist, Goes, Done
  <2>2. r \in Cmds /\ CmdSound(r, was[c], loaded)
    BY <1>0, <1>6, <2>1 DEF CopyPlist, Cmds, Ats, CmdSound
  <2> QED BY <1>0, <1>6, <2>1, <2>2, ClientEffect DEF CopyPlist, SvcType
<1>7. CASE Bootstrap(c)
  <2> PICK ok \in BOOLEAN : bootstrap(ok) /\ Done(c, ok)
    BY <1>7 DEF Bootstrap
  <2> DEFINE r == [cmd[c] EXCEPT !.at = "done", !.ok = ok]
  <2>1. loaded' = (loaded \/ ok) /\ loaded' \in BOOLEAN /\ Note
    BY <1>0, <1>7 DEF bootstrap, Bootstrap, SvcType
  <2>2. cmd' = [cmd EXCEPT ![c] = r] /\ r \in Cmds
    BY <1>0 DEF Done, Cmds, Ats
  <2>3. CmdSound(r, was'[c], loaded')
    BY <1>0, <1>n, <1>7, <2>1 DEF Bootstrap, SvcType, Cmds, CmdSound
  <2> QED BY <1>0, <1>n, <1>7, <2>1, <2>2, <2>3, ClientEffect DEF Bootstrap, bootstrap, SvcType
<1>8. CASE Bootout(c)
  <2> PICK ok \in BOOLEAN :
          /\ bootout(ok)
          /\ IF cmd[c].verb = "stop" THEN Stopped(c, ok)
             ELSE Goes(c, IF cmd[c].verb = "uninstall" THEN "unlink" ELSE "bootstrap")
    BY <1>8 DEF Bootout
  <2>1. loaded' = (loaded /\ ~ok) /\ loaded' \in BOOLEAN /\ Note
    BY <1>0, <1>8 DEF bootout, Bootout, SvcType
  <2> DEFINE r == IF cmd[c].verb = "stop"
                  THEN IF ok THEN [cmd[c] EXCEPT !.at = "done", !.ok = TRUE] ELSE [cmd[c] EXCEPT !.at = "look"]
                  ELSE [cmd[c] EXCEPT !.at = IF cmd[c].verb = "uninstall" THEN "unlink" ELSE "bootstrap"]
  <2>2. cmd' = [cmd EXCEPT ![c] = r]
    BY DEF Stopped, Goes, Done
  <2>3. cmd[c].verb # "none"
    BY <1>0, <1>8 DEF Bootout, CmdSound
  <2>4. r \in Cmds /\ CmdSound(r, was'[c], loaded')
    BY <1>0, <1>n, <1>8, <2>1, <2>3 DEF Bootout, SvcType, Cmds, Ats, Verbs, CmdSound
  <2> QED BY <1>0, <1>n, <1>8, <2>1, <2>2, <2>4, ClientEffect DEF Bootout, bootout, SvcType
<1>9. CASE LookAgain(c)
  <2> DEFINE r == [cmd[c] EXCEPT !.at = "done", !.ok = ~loaded]
  <2>1. r \in Cmds /\ CmdSound(r, was[c], loaded)
    BY <1>0, <1>9 DEF Cmds, Ats, CmdSound, LookAgain, SvcType
  <2>2. cmd' = [cmd EXCEPT ![c] = r]
    BY <1>9 DEF LookAgain, Done
  <2> QED BY <1>0, <1>9, <2>1, <2>2, ClientEffect DEF LookAgain, SvcType
<1>10. CASE Unlink(c)
  <2>1. PICK ok \in BOOLEAN : cmd' = [cmd EXCEPT ![c] = [cmd[c] EXCEPT !.at = "done", !.ok = ok]]
    BY <1>10 DEF Unlink, Done
  <2> DEFINE r == [cmd[c] EXCEPT !.at = "done", !.ok = ok]
  <2>2. r \in Cmds /\ CmdSound(r, was[c], loaded)
    BY <1>0, <1>10 DEF Cmds, Ats, CmdSound, Unlink, SvcType
  <2> QED BY <1>0, <1>10, <2>1, <2>2, ClientEffect DEF Unlink, SvcType
<1>11. CASE Say(c)
  <2>1. NoCmd \in Cmds /\ CmdSound(NoCmd, {}, loaded)
    BY DEF Cmds, Ats, CmdSound, NoCmd
  <2>2. was' \in [Clients -> SUBSET BOOLEAN] /\ was'[c] = {} /\ \A d \in Clients \ {c} : was'[d] = was[d]
    BY <1>0, <1>11 DEF Say, SvcType
  <2> QED BY <1>0, <1>11, <2>1, <2>2, ClientEffect DEF Say, SvcType
<1> QED BY <1>3, <1>4, <1>5, <1>6, <1>7, <1>8, <1>9, <1>10, <1>11

LEMMA SvcStep == SvcInv /\ [SvcNext]_svcVars => SvcInv'
<1> SUFFICES ASSUME SvcInv, [SvcNext]_svcVars PROVE SvcInv'
  OBVIOUS
<1>1. CASE UNCHANGED svcVars
  BY <1>1 DEF svcVars, SvcInv, SvcType, OneFile, OneDaemonRuns, CmdsSound, Opened, Holds
<1>2. CASE SvcNext
  BY <1>2, ProcStep, ClientStep DEF SvcNext
<1> QED BY <1>1, <1>2

LEMMA SvcAlways == Spec => []SvcInv
<1>1. Init => SvcInv
  BY SvcInitInv DEF Init
<1>2. SvcInv /\ [Next]_vars => SvcInv'
  BY SvcStep DEF Next, vars
<1> QED BY <1>1, <1>2, PTL DEF Spec

\* No two processes of a daemon are past the lock, whoever starts them and however
\* the clients' commands interleave.
THEOREM OneDaemonAlways == Spec => []OneDaemonRuns
<1>1. SvcInv => OneDaemonRuns
  BY DEF SvcInv
<1> QED BY <1>1, SvcAlways, PTL

\* A command that reports success did what it says while it ran, whatever the
\* other clients did to the service meanwhile.
THEOREM CommandsAreTrue == Spec => []CommandsTellTheTruth
<1>1. SvcInv => CommandsTellTheTruth
  BY DEF SvcInv, CmdsSound, CmdSound, CommandsTellTheTruth
<1> QED BY <1>1, SvcAlways, PTL

-----------------------------------------------------------------------------
(* The cycle over CoreBluetooth.                                           *)

Phys == {"none", "asked", "up", "cancelled", "closing"}
Dials == {"no", "waiting", "ok", "failed"}
Dialling == {"direct", "dial"}
Resting == {"idle", "scan", "exit"}
Pcs == Dialling \cup Resting
       \cup {"subscribe", "subscribing", "await", "source", "write", "verify", "poke", "rtc"}
Somebody == Bodies \cup {Nobody}

CycleType ==
    /\ phy \in [Bodies -> Phys]
    /\ lk \in [up : BOOLEAN, dial : Dials, out : BOOLEAN, per : Somebody, chr : Somebody, tc : Somebody]
    /\ mpc \in Pcs
    /\ pick \in Somebody /\ bound \in Somebody /\ obs \in Somebody
    /\ may \subseteq Bodies
    /\ hold \in BOOLEAN

\* One body at a time is on its way up or down, the delegate's, and one that is
\* asked for is waited for.
OneAtATime ==
    /\ \A c \in Bodies : phy[c] \in {"asked", "cancelled", "closing"} => c = lk.per
    /\ \A c \in Bodies : phy[c] = "asked" => lk.dial = "waiting"
    /\ lk.dial # "no" => mpc \in Dialling /\ lk.per \in Bodies
    /\ lk.dial = "failed" => phy[lk.per] # "up"
    /\ lk.dial = "waiting" => phy[lk.per] \in {"asked", "up", "none"}

\* The delegate's peripheral is the body being dialled, and once that is over
\* the one the program is bound to, if it is up at all.
Target ==
    /\ mpc = "direct" => lk.per = bound
    /\ mpc = "dial" => lk.per = pick /\ pick \in Bodies
    /\ mpc \notin Dialling /\ lk.per # Nobody /\ phy[lk.per] = "up" => bound \in {Nobody, lk.per}
    /\ mpc \in {"source", "write"} => bound \in may

\* With --no-hold, no body but the delegate's is up, none between cycles, and
\* everything measured is of the one the program is bound to.
Released ==
    ~hold =>
        /\ \A c \in Bodies : phy[c] = "up" => c = lk.per
        /\ \A c \in Bodies : phy[c] \in {"asked", "cancelled"} => ~lk.out
        /\ lk.dial = "waiting" => phy[lk.per] = "asked"
        /\ lk.dial = "failed" => ~lk.out
        /\ mpc \in Resting => (\A c \in Bodies : phy[c] # "up") /\ ~subscribed
        /\ mpc \notin Dialling \cup Resting => lk.per = bound /\ bound # Nobody
        /\ lk.tc \in {Nobody, lk.per}
        /\ obs \in {Nobody, bound}

CycleInv == CycleType /\ OneAtATime /\ Target /\ Released

LEMMA CycleInitInv == CycleInit => CycleInv
BY MacCameraAssumption DEF CycleInit, LinkInit, Idle, CycleInv, CycleType, OneAtATime, Target, Released,
   Phys, Dials, Pcs, Dialling, Resting, Somebody, subscribed

\* What connect() leaves: one body asked for and waited for.
LEMMA ConnectFacts ==
    ASSUME CycleInv, ~Late, mpc \in Resting, NEW c \in Bodies, connect(c),
           ~hold => ~subscribed
    PROVE  /\ phy' \in [Bodies -> Phys] /\ phy'[c] = IF phy[c] = "up" THEN "up" ELSE "asked"
           /\ \A d \in Bodies \ {c} : phy'[d] \in {"none", "up"} /\ phy'[d] = phy[d]
           /\ lk' = [lk EXCEPT !.dial = "waiting", !.out = FALSE, !.tc = Nobody, !.per = c]
<1>1. \A d \in Bodies : phy[d] \in {"none", "up"}
  <2> SUFFICES ASSUME NEW d \in Bodies PROVE phy[d] \in {"none", "up"}
    OBVIOUS
  <2>1. phy[d] \notin {"cancelled", "closing"}
    BY DEF connect
  <2>2. phy[d] # "asked"
    BY DEF CycleInv, OneAtATime, Resting, Dialling
  <2> QED BY <2>1, <2>2 DEF CycleInv, CycleType, Phys
<1> QED BY <1>1 DEF connect, CycleInv, CycleType, Phys

\* A dial from rest.
LEMMA DialStep ==
    ASSUME CycleInv, ~Late, mpc \in Resting, NEW c \in Bodies, connect(c),
           mpc' = "direct" \/ mpc' = "dial",
           mpc' = "direct" => c = bound /\ pick' = pick,
           mpc' = "dial" => pick' = c,
           UNCHANGED <<bound, obs, hold, may>>
    PROVE  CycleInv'
<1>0. ~hold => ~subscribed
  BY DEF CycleInv, Released
<1>1. /\ phy' \in [Bodies -> Phys] /\ phy'[c] = IF phy[c] = "up" THEN "up" ELSE "asked"
      /\ \A d \in Bodies \ {c} : phy'[d] \in {"none", "up"} /\ phy'[d] = phy[d]
      /\ lk' = [lk EXCEPT !.dial = "waiting", !.out = FALSE, !.tc = Nobody, !.per = c]
  BY <1>0, ConnectFacts
<1>2. lk'.dial = "waiting" /\ lk'.per = c /\ lk'.tc = Nobody /\ lk'.out = FALSE
  BY <1>1 DEF CycleInv, CycleType
<1>3. CycleType'
  BY <1>1, MacCameraAssumption DEF CycleInv, CycleType, Dials, Pcs, Dialling, Somebody
<1>4. OneAtATime'
  BY <1>1, <1>2 DEF OneAtATime, Dialling
<1>5. Target'
  BY <1>1, <1>2 DEF Target, Dialling
<1>6. Released'
  BY <1>1, <1>2 DEF Released, CycleInv, Dialling, Resting
<1> QED BY <1>3, <1>4, <1>5, <1>6 DEF CycleInv

\* connect() returns; nothing is bound or measured by that.
LEMMA DialledFacts ==
    ASSUME CycleInv, mpc \in Dialling, ConnectOk \/ ConnectFailed
    PROVE  /\ phy' \in [Bodies -> Phys]
           /\ lk.per \in Bodies
           /\ lk' = [lk EXCEPT !.dial = "no"]
           /\ \A c \in Bodies \ {lk.per} : phy'[c] = phy[c]
           /\ phy'[lk.per] # "asked"
           /\ phy'[lk.per] = "cancelled" => phy[lk.per] \in {"asked", "cancelled"}
           /\ ConnectFailed => phy'[lk.per] # "up" /\ lk.dial \in {"waiting", "failed"}
<1>1. lk.per \in Bodies /\ lk' = [lk EXCEPT !.dial = "no"]
  BY DEF CycleInv, OneAtATime, CycleType, ConnectOk, ConnectFailed
<1>2. CASE lk.dial = "ok" /\ UNCHANGED phy
  BY <1>1, <1>2 DEF CycleInv, OneAtATime, CycleType, ConnectFailed
<1>3. CASE lk.dial = "failed" /\ UNCHANGED phy
  BY <1>1, <1>3 DEF CycleInv, OneAtATime, CycleType, ConnectFailed
<1>4. CASE lk.dial = "waiting" /\ phy' = Cancelled(lk.per)
  BY <1>1, <1>4 DEF CycleInv, CycleType, Cancelled, Phys
<1> QED BY <1>2, <1>3, <1>4 DEF ConnectOk, ConnectFailed

LEMMA DialledStep ==
    ASSUME CycleInv, mpc \in Dialling,
           pick' \in Somebody, bound' \in Somebody, obs' \in Somebody, UNCHANGED <<hold, may>>,
           \/ ConnectOk /\ mpc' = "subscribe" /\ bound' = lk.per /\ obs' \in {Nobody, IF bound \in {Nobody, lk.per} THEN obs ELSE Nobody}
           \/ ConnectFailed /\ mpc' \in Resting /\ UNCHANGED <<bound, obs>>
    PROVE  CycleInv'
<1>1. /\ phy' \in [Bodies -> Phys]
      /\ lk.per \in Bodies
      /\ lk' = [lk EXCEPT !.dial = "no"]
      /\ \A c \in Bodies \ {lk.per} : phy'[c] = phy[c]
      /\ phy'[lk.per] # "asked"
      /\ phy'[lk.per] = "cancelled" => phy[lk.per] \in {"asked", "cancelled"}
      /\ ConnectFailed => phy'[lk.per] # "up" /\ lk.dial \in {"waiting", "failed"}
  BY DialledFacts
<1>2. /\ lk'.dial = "no" /\ lk'.per = lk.per /\ lk'.tc = lk.tc /\ lk'.out = lk.out /\ lk'.up = lk.up
      /\ lk' \in [up : BOOLEAN, dial : Dials, out : BOOLEAN, per : Somebody, chr : Somebody, tc : Somebody]
  BY <1>1 DEF CycleInv, CycleType, Dials
<1>3. CycleType'
  BY <1>1, <1>2 DEF CycleInv, CycleType, Pcs
<1>4. OneAtATime'
  BY <1>1, <1>2 DEF CycleInv, OneAtATime
<1>5. Target'
  BY <1>1, <1>2, MacCameraAssumption DEF Target, Dialling, Resting
<1>6. Released'
  BY <1>1, <1>2, MacCameraAssumption DEF Released, CycleInv, Dialling, Resting, subscribed
<1> QED BY <1>3, <1>4, <1>5, <1>6 DEF CycleInv

\* A cycle that has a link ends.
Ends ==
    /\ mpc \notin Dialling \cup Resting
    /\ Over
    /\ obs' = obs \/ obs' = lk.tc
    /\ UNCHANGED <<pick, bound, hold, may>>

LEMMA OverStep ==
    ASSUME CycleInv, Ends
    PROVE  CycleInv'
<1> USE DEF Ends
<1>0. mpc' \in {"idle", "exit"} /\ lk.dial = "no"
  BY DEF Over, Ended, CycleInv, OneAtATime, CycleType, Dials
<1>1. CASE hold /\ UNCHANGED <<phy, lk>>
  BY <1>0, <1>1 DEF CycleInv, CycleType, OneAtATime, Target, Released, Pcs, Resting, Dialling
<1>2. CASE disconnect
  <2>1. /\ phy' \in [Bodies -> Phys]
        /\ \A c \in Bodies : c # lk.per => phy'[c] = phy[c]
        /\ lk.per \in Bodies => phy'[lk.per] # "up" /\ (phy'[lk.per] # "closing" => phy'[lk.per] \in {"none", "cancelled"})
        /\ lk.per \in Bodies => (phy'[lk.per] = "cancelled" => phy[lk.per] \in {"asked", "cancelled"})
    BY <1>2, MacCameraAssumption DEF disconnect, Cancelled, CycleInv, CycleType, Phys, Somebody
  <2>2. /\ lk'.dial = "no" /\ lk'.per = lk.per /\ lk'.tc = lk.tc /\ lk'.out = lk.out /\ lk'.up = FALSE
        /\ lk' \in [up : BOOLEAN, dial : Dials, out : BOOLEAN, per : Somebody, chr : Somebody, tc : Somebody]
    BY <1>0, <1>2 DEF disconnect, CycleInv, CycleType
  <2>3. CycleType'
    BY <1>0, <2>1, <2>2 DEF CycleInv, CycleType, Pcs, Resting
  <2>4. OneAtATime'
    BY <1>0, <2>1, <2>2 DEF CycleInv, CycleType, OneAtATime, Somebody
  <2>5. Target'
    BY <1>0, <2>1, <2>2 DEF CycleInv, CycleType, Target, Somebody, Dialling
  <2>6. Released'
    BY <1>0, <2>1, <2>2, MacCameraAssumption DEF CycleInv, CycleType, Released, Somebody, Dialling, Resting, subscribed
  <2> QED BY <2>3, <2>4, <2>5, <2>6 DEF CycleInv
<1> QED BY <1>1, <1>2 DEF Over

\* A step of the cycle that stays on its link, or starts from one it kept, or
\* that rests.
Stays ==
    /\ mpc \notin Dialling
    /\ UNCHANGED <<phy, bound, hold, may>>
    /\ pick' = pick \/ pick' = Nobody
    /\ lk' = lk \/ lk' = forget_timecode
    /\ obs' = obs \/ obs' = Nobody \/ obs' = lk.tc
    /\ mpc \in Resting => obs' = obs \/ obs' = Nobody
    /\ mpc' \in Pcs \ (Dialling \cup {"subscribe"})
    /\ mpc' \in {"source", "write"} => bound \in may
    /\ mpc \in Resting => mpc' \in Resting \/ subscribed
    /\ mpc' \in Resting => mpc \in Resting

LEMMA StayStep ==
    ASSUME CycleInv, Stays
    PROVE  CycleInv'
<1> USE DEF Stays
<1>1. /\ lk'.dial = lk.dial /\ lk'.per = lk.per /\ lk'.tc \in {lk.tc, Nobody} /\ lk'.out = lk.out /\ lk'.up = lk.up
      /\ lk' \in [up : BOOLEAN, dial : Dials, out : BOOLEAN, per : Somebody, chr : Somebody, tc : Somebody]
  BY DEF forget_timecode, CycleInv, CycleType, Somebody
<1>2. CycleType'
  BY <1>1 DEF CycleInv, CycleType, Pcs, Resting, Somebody, Dialling
<1>3. OneAtATime'
  BY <1>1 DEF CycleInv, OneAtATime
<1>4. Target'
  BY <1>1 DEF CycleInv, Target, Dialling
<1>5. Released'
  BY <1>1 DEF CycleInv, CycleType, Released, Dialling, Resting, subscribed, Somebody
<1> QED BY <1>2, <1>3, <1>4, <1>5 DEF CycleInv

\* CoreBluetooth's callbacks.
LEMMA CallbackStep ==
    ASSUME CycleInv, NEW c \in Bodies, Callback(c), UNCHANGED cycleVars
    PROVE  CycleInv'
<1> USE MacCameraAssumption DEF cycleVars
<1>1. CASE DidConnect(c)
  <2>1. c = lk.per /\ lk.dial = "waiting"
    BY <1>1 DEF DidConnect, CycleInv, OneAtATime
  <2>2. /\ phy' = [phy EXCEPT ![c] = "up"]
        /\ lk' = [lk EXCEPT !.up = TRUE, !.dial = "ok"]
    BY <1>1, <2>1 DEF DidConnect, Reported, CycleInv, CycleType
  <2>3. CycleType'
    BY <2>2 DEF CycleInv, CycleType, Phys, Dials
  <2>4. OneAtATime' /\ Target'
    BY <2>1, <2>2 DEF CycleInv, CycleType, OneAtATime, Target
  <2>5. Released'
    BY <2>1, <2>2 DEF CycleInv, CycleType, OneAtATime, Released, Resting, Dialling
  <2> QED BY <2>3, <2>4, <2>5 DEF CycleInv
<1>2. CASE DidConnectLate(c)
  <2>1. c = lk.per /\ lk.dial # "waiting"
    BY <1>2 DEF DidConnectLate, CycleInv, OneAtATime
  <2>2. /\ phy' = [phy EXCEPT ![c] = "closing"]
        /\ lk' = [lk EXCEPT !.up = TRUE]
    BY <1>2, <2>1 DEF DidConnectLate, Reported, CycleInv, CycleType
  <2>3. CycleType'
    BY <2>2 DEF CycleInv, CycleType, Phys, Dials
  <2>4. OneAtATime' /\ Target'
    BY <2>1, <2>2 DEF CycleInv, CycleType, OneAtATime, Target
  <2>5. Released'
    BY <1>2, <2>1, <2>2 DEF DidConnectLate, CycleInv, CycleType, Released, subscribed
  <2> QED BY <2>3, <2>4, <2>5 DEF CycleInv
<1>3. CASE DidFailToConnect(c)
  <2>1. c = lk.per /\ lk.dial = "waiting"
    BY <1>3 DEF DidFailToConnect, CycleInv, OneAtATime
  <2>2. /\ phy' = [phy EXCEPT ![c] = "none"]
        /\ lk' = [lk EXCEPT !.up = FALSE, !.dial = "failed"]
    BY <1>3, <2>1 DEF DidFailToConnect, Reported, CycleInv, CycleType
  <2>3. CycleType'
    BY <2>2 DEF CycleInv, CycleType, Phys, Dials
  <2>4. OneAtATime' /\ Target'
    BY <2>1, <2>2 DEF CycleInv, CycleType, OneAtATime, Target
  <2>5. Released'
    <3>1. /\ phy[c] = "asked" /\ \A d \in Bodies : phy'[d] = IF d = c THEN "none" ELSE phy[d]
          /\ ~lk'.up /\ lk'.dial = "failed" /\ lk'.out = lk.out /\ lk'.tc = lk.tc /\ lk'.per = lk.per
      BY <1>3, <2>2 DEF DidFailToConnect, CycleInv, CycleType
    <3> QED BY <2>1, <3>1 DEF CycleInv, Released, subscribed
  <2> QED BY <2>3, <2>4, <2>5 DEF CycleInv
<1>4. CASE DidDisconnect(c)
  <2>2. /\ phy' = [phy EXCEPT ![c] = "none"] /\ phy[c] # "asked"
        /\ lk' = [lk EXCEPT !.up = FALSE, !.out = FALSE, !.chr = Nobody, !.tc = Nobody]
    BY <1>4 DEF DidDisconnect, on_disconnected
  <2>3. CycleType'
    BY <2>2 DEF CycleInv, CycleType, Phys, Somebody
  <2>4. OneAtATime' /\ Target'
    BY <2>2 DEF CycleInv, CycleType, OneAtATime, Target, Dialling, Somebody
  <2>5. Released'
    BY <2>2 DEF CycleInv, CycleType, OneAtATime, Released, subscribed
  <2> QED BY <2>3, <2>4, <2>5 DEF CycleInv
<1>5. CASE DidDiscover(c)
  <2>2. phy' = phy /\ phy[c] = "up" /\ lk' = [lk EXCEPT !.out = TRUE, !.chr = c]
    BY <1>5 DEF DidDiscover
  <2>3. CycleType'
    BY <2>2 DEF CycleInv, CycleType, Somebody
  <2>4. OneAtATime' /\ Target'
    BY <2>2 DEF CycleInv, CycleType, OneAtATime, Target
  <2>5. Released'
    BY <2>2 DEF CycleInv, CycleType, OneAtATime, Released, subscribed
  <2> QED BY <2>3, <2>4, <2>5 DEF CycleInv
<1>6. CASE DidUpdateValue(c)
  <2>2. phy' = phy /\ phy[c] = "up" /\ lk' = [lk EXCEPT !.tc = c]
    BY <1>6 DEF DidUpdateValue, on_timecode
  <2>3. CycleType'
    BY <2>2 DEF CycleInv, CycleType, Somebody
  <2>4. OneAtATime' /\ Target'
    BY <2>2 DEF CycleInv, CycleType, OneAtATime, Target
  <2>5. Released'
    BY <2>2 DEF CycleInv, CycleType, Released, subscribed
  <2> QED BY <2>3, <2>4, <2>5 DEF CycleInv
<1> QED BY <1>1, <1>2, <1>3, <1>4, <1>5, <1>6 DEF Callback

\* The main loop between cycles: what is forgotten is forgotten.
Between ==
    /\ mpc = "idle"
    /\ UNCHANGED <<phy, lk, mpc, pick, hold>>
    /\ may' \subseteq Bodies
    /\ obs' = obs \/ obs' = Nobody
    /\ bound' # bound => bound' = Nobody /\ obs' = Nobody

LEMMA BetweenStep ==
    ASSUME CycleInv, Between
    PROVE  CycleInv'
<1> USE DEF Between
<1>1. CycleType'
  BY DEF CycleInv, CycleType, Somebody
<1>2. OneAtATime' /\ Target'
  BY DEF CycleInv, OneAtATime, Target
<1>3. Released'
  BY DEF CycleInv, Released, subscribed, Resting
<1> QED BY <1>1, <1>2, <1>3 DEF CycleInv

LEMMA CycleStep ==
    ASSUME ~Late, CycleInv, [CycleNext]_macVars
    PROVE  CycleInv'
<1>0. CycleType /\ Target /\ OneAtATime
  BY DEF CycleInv
<1> USE DEF Pcs, Dialling, Resting, forget_timecode
<1>1. ASSUME NEW w \in Wants, Begin(w) PROVE CycleInv'
  <2>1. CASE bound # Nobody /\ mpc' = "direct" /\ connect(bound)
    <3>1. bound \in Bodies /\ mpc \in Resting /\ UNCHANGED <<pick, bound, obs, hold, may>>
      BY <1>0, <1>1, <2>1 DEF CycleType, Somebody, Begin
    <3> HIDE DEF Resting
    <3> QED BY <2>1, <3>1, DialStep
  <2>2. CASE ~(bound # Nobody /\ mpc' = "direct" /\ connect(bound))
    <3>1. Stays
      BY <1>1, <2>2 DEF Begin, linkVars, Stays
    <3> QED BY <3>1, StayStep
  <2> QED BY <2>1, <2>2
<1>2. CASE Direct
  <2>1. mpc \in Dialling /\ lk.per = bound /\ UNCHANGED <<pick, bound, obs, hold, may>>
    BY <1>0, <1>2 DEF Direct, Target
  <2> QED BY <1>0, <1>2, <2>1, DialledStep DEF Direct, CycleType
<1>3. CASE Scan
  <2>1. CASE NotFound /\ UNCHANGED <<phy, lk>>
    <3>1. Stays
      BY <1>3, <2>1 DEF Scan, NotFound, Ended, Stays
    <3> QED BY <3>1, StayStep
  <2>2. ASSUME NEW c \in Bodies, connect(c), pick' = c, mpc' = "dial" PROVE CycleInv'
    <3>1. mpc \in Resting /\ UNCHANGED <<bound, obs, hold, may>>
      BY <1>3 DEF Scan
    <3> HIDE DEF Resting
    <3> QED BY <2>2, <3>1, DialStep
  <2> QED BY <1>3, <2>1, <2>2 DEF Scan, Advertising, Heard
<1>4. CASE Dial
  <2>1. mpc \in Dialling /\ lk.per = pick /\ pick \in Bodies /\ UNCHANGED <<hold, may>>
    BY <1>0, <1>4 DEF Dial, Target
  <2>2. CASE ConnectOk /\ BindTo(pick) /\ pick' = Nobody /\ mpc' = "subscribe"
    <3>1. bound' = lk.per /\ obs' = IF bound # Nobody /\ bound # lk.per THEN Nobody ELSE obs
      BY <2>1, <2>2 DEF BindTo
    <3> QED BY <1>0, <2>1, <2>2, <3>1, DialledStep DEF CycleType, Somebody
  <2>3. CASE ConnectFailed /\ NotFound /\ UNCHANGED <<bound, obs>>
    BY <1>0, <2>1, <2>3, DialledStep DEF NotFound, Ended, CycleType, Somebody
  <2> QED BY <1>4, <2>2, <2>3 DEF Dial
<1>5. CASE Subscribe
  <2>1. Stays
    BY <1>5 DEF Subscribe, Stays
  <2> QED BY <2>1, StayStep
<1>6. CASE Subscribed
  <2>1. Stays \/ Ends
    BY <1>6 DEF Subscribed, Stays, Ends
  <2> QED BY <2>1, StayStep, OverStep
<1>7. CASE AwaitSource
  <2>1. Stays \/ Ends
    BY <1>7 DEF AwaitSource, Stays, Ends
  <2> QED BY <2>1, StayStep, OverStep
<1>8. CASE WriteSource
  <2>1. Ends
    BY <1>8 DEF WriteSource, Ends
  <2> QED BY <2>1, OverStep
<1>9. CASE Measure
  <2>1. Stays \/ Ends
    BY <1>9 DEF Measure, Permitted, Stays, Ends
  <2> QED BY <2>1, StayStep, OverStep
<1>10. CASE Write
  <2>1. Stays \/ Ends
    BY <1>10 DEF Write, Stays, Ends
  <2> QED BY <2>1, StayStep, OverStep
<1>11. CASE Verify
  <2>1. Ends
    BY <1>11 DEF Verify, Ends
  <2> QED BY <2>1, OverStep
<1>12. CASE mode_scan_only
  <2>1. Stays
    BY <1>12 DEF mode_scan_only, AfterProbe, Stays
  <2> QED BY <2>1, StayStep
<1>13. CASE mode_pair \/ mode_watch \/ mode_poke \/ mode_rtc_test
  <2>1. Stays \/ Ends
    BY <1>13 DEF mode_pair, mode_watch, mode_poke, mode_rtc_test, AfterProbe, Stays, Ends
  <2> QED BY <2>1, StayStep, OverStep
<1>14. CASE CameUp
  <2>1. Between
    BY <1>0, <1>14 DEF CameUp, linkVars, CycleType, Between
  <2> QED BY <2>1, BetweenStep
<1>15. ASSUME NEW c \in Bodies, RemoveBody(c) \/ Permit(c) PROVE CycleInv'
  <2>1. Between
    BY <1>0, <1>15 DEF RemoveBody, Permit, linkVars, CycleType, Between
  <2> QED BY <2>1, BetweenStep
<1>16. CASE (\E c \in Bodies : Callback(c)) /\ UNCHANGED cycleVars
  BY <1>16, CallbackStep
<1>17. CASE UNCHANGED macVars
  BY <1>17 DEF macVars, linkVars, cycleVars, CycleInv, CycleType, OneAtATime, Target, Released, subscribed
<1> QED BY <1>1, <1>2, <1>3, <1>4, <1>5, <1>6, <1>7, <1>8, <1>9, <1>10, <1>11, <1>12, <1>13, <1>14,
           <1>15, <1>16, <1>17 DEF CycleNext

\* Whichever body CoreBluetooth's callbacks are about, the baselines a decision
\* is made on are the bound body's (with --no-hold), and a write reaches only a
\* body that may be written to: for any set of bodies and any order of callbacks
\* in which the end of an attempt that was given up on is not reported after the
\* next one has begun, which is how disconnect() and connect() wait.
THEOREM MacTalksToItsBody ==
    ASSUME ~Late
    PROVE  Spec => []MacActsOnItsBody
<1>1. Init => CycleInv
  BY CycleInitInv DEF Init
<1>2. CycleInv /\ [Next]_vars => CycleInv'
  BY CycleStep DEF Next, vars
<1>3. CycleInv => MacActsOnItsBody
  BY MacCameraAssumption DEF CycleInv, CycleType, Somebody, Target, Released, MacActsOnItsBody, MacMeasuresBound,
     MacWritesWherePermitted, Reaches, Dialling
<1> QED BY <1>1, <1>2, <1>3, PTL DEF Spec

-----------------------------------------------------------------------------
(* The configuration file.                                                 *)

Ways == {"none", "on", "off"}
Confs == [Devs -> [flag : Ways, warn : Ways]]

\* An edit; one that is not under way is about any device there may be.
Edits == [at : {"idle", "open", "write", "rename", "tell"}, dev : Devs \cup {Idle0.dev}, key : {"flag", "warn", "line"},
          val : Ways, lines : Confs, handle : {"none", "tmp", "live"}]

\* What the file is to hold after an edit.
Edited(c, e) == IF e.key = "line" THEN [c EXCEPT ![e.dev] = Unset] ELSE [c EXCEPT ![e.dev][e.key] = e.val]

\* The person's edit: of what the file holds, and on its way there.
EditSound(e) ==
    /\ e \in Edits
    /\ e.at # "idle" => e.dev \in Devs /\ e.dev.id \notin asked
    /\ e.at \in {"open", "write", "rename"} => e.lines = Edited(meant, e)
    /\ e.at = "write" => e.handle = "tmp"
    /\ e.at = "rename" => ctmp = e.lines
    /\ e.at = "tell" /\ e.key = "line" => cf[e.dev] = Unset

\* A camera that is to be forgotten has no line, so the daemon finds nothing to
\* edit: with a person who waits it never becomes an editor at all.
PatientInv ==
    /\ meant \in Confs /\ cf = meant
    /\ DOMAIN edit = Editor
    /\ edit["daemon"] = Idle0
    /\ EditSound(edit["person"])
    /\ \A id \in asked : id \in ConfIds /\ cf[Cam(id)] = Unset
    /\ ~reloading => \A id \in ConfIds \ (unheard \cup removed) : dconf[Cam(id)].flag = cf[Cam(id)].flag

ConfInv == patient => PatientInv

LEMMA EditedFacts ==
    ASSUME NEW c \in Confs, NEW e, e.dev \in Devs, e.key \in {"flag", "warn", "line"}, e.val \in Ways
    PROVE  /\ Edited(c, e) \in Confs
           /\ \A d \in Devs : d # e.dev => Edited(c, e)[d] = c[d]
           /\ e.key = "warn" => Edited(c, e)[e.dev].flag = c[e.dev].flag
           /\ e.key = "line" => Edited(c, e)[e.dev] = Unset
<1> DEFINE dev == e.dev
           old == c[dev]
<1>1. old \in [flag : Ways, warn : Ways] /\ old = [flag |-> old.flag, warn |-> old.warn]
  BY DEF Confs
<1>2. Unset \in [flag : Ways, warn : Ways]
  BY DEF Unset, Ways
<1>3. CASE e.key = "line"
  BY <1>2, <1>3 DEF Confs, Edited
<1>4. CASE e.key = "flag"
  <2>1. [old EXCEPT !["flag"] = e.val] \in [flag : Ways, warn : Ways]
    BY <1>1
  <2>2. Edited(c, e) = [c EXCEPT ![dev] = [old EXCEPT !["flag"] = e.val]]
    BY <1>4 DEF Edited
  <2> QED BY <1>4, <2>1, <2>2 DEF Confs
<1>5. CASE e.key = "warn"
  <2>1. [old EXCEPT !["warn"] = e.val] \in [flag : Ways, warn : Ways]
    BY <1>1
  <2>2. [old EXCEPT !["warn"] = e.val].flag = old.flag
    BY <1>1
  <2>3. Edited(c, e) = [c EXCEPT ![dev] = [old EXCEPT !["warn"] = e.val]]
    BY <1>5 DEF Edited
  <2> QED BY <1>5, <2>1, <2>2, <2>3 DEF Confs
<1> QED BY <1>3, <1>4, <1>5

\* The file is never half of one, so whoever reads it reads all of it.
LEMMA WholeFile ==
    ASSUME PatientInv
    PROVE  /\ read_lines = cf
           /\ \A c \in Loaded(cf) : \A id \in ConfIds : c[Cam(id)].flag = cf[Cam(id)].flag
<1>1. cf \in Confs
  BY DEF PatientInv
<1>2. ASSUME cf = Half PROVE Devs = {}
  <2> SUFFICES ASSUME NEW d \in Devs PROVE FALSE
    OBVIOUS
  <2>1. cf[d].flag = "?"
    BY <1>2 DEF Half
  <2>2. cf[d].flag \in Ways
    BY <1>1 DEF Confs
  <2> QED BY <2>1, <2>2 DEF Ways
<1>3. ASSUME cf = Half PROVE cf = Empty
  BY <1>2, <1>3 DEF Half, Empty
<1>4. \A id \in ConfIds : Cam(id) \in Devs
  BY DEF Cam, Devs
<1>5. read_lines = cf
  BY <1>3 DEF read_lines
<1>6. cf = Half => ConfIds = {}
  BY <1>2, <1>4
<1> QED BY <1>5, <1>6 DEF Loaded

LEMMA EditTypes ==
    ASSUME NEW e, EditSound(e)
    PROVE  /\ e = [at |-> e.at, dev |-> e.dev, key |-> e.key, val |-> e.val, lines |-> e.lines, handle |-> e.handle]
           /\ e.key \in {"flag", "warn", "line"} /\ e.val \in Ways /\ e.lines \in Confs
           /\ \A at \in {"idle", "open", "write", "rename", "tell"}, handle \in {"none", "tmp"} :
                 /\ [e EXCEPT !.at = at, !.handle = handle] \in Edits
                 /\ [e EXCEPT !.at = at] \in Edits
BY DEF EditSound, Edits

LEMMA IdleEdit == Idle0 \in Edits /\ Idle0.at = "idle"
<1>1. Empty \in Confs
  BY DEF Empty, Unset, Confs, Ways
<1>2. Idle0 = [at |-> "idle", dev |-> Idle0.dev, key |-> "flag", val |-> "none", lines |-> Empty, handle |-> "none"]
  BY DEF Idle0
<1> QED BY <1>1, <1>2 DEF Edits, Ways, Idle0

LEMMA ConfInitInv == ConfInit => ConfInv
<1> SUFFICES ASSUME ConfInit PROVE PatientInv
  BY DEF ConfInv
<1>1. Empty \in Confs
  BY DEF Empty, Unset, Confs, Ways
<1>2. EditSound(Idle0) /\ Editor = {"person", "daemon"}
  BY IdleEdit DEF EditSound, Editor
<1> QED BY <1>1, <1>2 DEF ConfInit, PatientInv

\* What the person's command comes to, step by step.
LEMMA BeginsKeeps ==
    ASSUME PatientInv, patient, NEW dev \in Devs, NEW key \in {"flag", "warn", "line"}, NEW val \in Ways, NEW lines,
           Begins(dev, key, val, lines),
           lines = IF key = "line" THEN forget_device(read_lines, dev) ELSE set_flag(read_lines, dev, key, val)
    PROVE  PatientInv'
<1> DEFINE e == [at |-> IF key = "line" /\ lines = read_lines THEN "tell" ELSE "open",
                 dev |-> dev, key |-> key, val |-> val, lines |-> lines, handle |-> "none"]
<1>1. edit' = [edit EXCEPT !["person"] = e]
  BY DEF Begins
<1>2. e.dev = dev /\ e.key = key /\ e.val = val /\ e.lines = lines /\ e.at \in {"tell", "open"}
      /\ (e.at = "tell" => key = "line" /\ lines = read_lines)
  OBVIOUS
<1> HIDE DEF e
<1>3. lines = Edited(meant, e)
  BY <1>2, WholeFile DEF PatientInv, Edited, forget_device, set_flag
<1>4. dev.id \notin asked
  BY DEF Begins, Waits
<1>5. e.at = "tell" => cf[dev] = Unset
  <2>1. meant \in Confs
    BY DEF PatientInv
  <2>2. key = "line" => lines[dev] = Unset
    BY <1>2, <1>3, <2>1, EditedFacts
  <2> QED BY <1>2, <2>2, WholeFile
<1>6. EditSound(e)
  <2>1. lines \in Confs
    BY <1>2, <1>3, EditedFacts DEF PatientInv
  <2>2. e \in Edits
    BY <2>1 DEF Edits, e
  <2> QED BY <1>2, <1>3, <1>4, <1>5, <2>2 DEF EditSound
<1>7. UNCHANGED <<cf, ctmp, asked, reloading, dconf, meant, unheard, removed>>
  BY DEF Begins
<1>8. edit'["person"] = e /\ edit'["daemon"] = Idle0 /\ DOMAIN edit' = Editor
  BY <1>1 DEF PatientInv, Editor
<1> QED BY <1>6, <1>7, <1>8 DEF PatientInv, EditSound, Edited

\* The person's is the only edit, so nobody else has the temporary file.
LEMMA OpenKeeps == ASSUME PatientInv, NEW x \in Editor, OpenTmp(x) PROVE PatientInv'
<1>1. x = "person"
  BY DEF PatientInv, OpenTmp, Editor, Idle0
<1> DEFINE old == edit["person"]
           e == [old EXCEPT !.at = "write", !.handle = "tmp"]
<1>2. edit' = [edit EXCEPT !["person"] = e]
  BY <1>1 DEF OpenTmp, PatientInv, Editor
<1>3. UNCHANGED <<cf, asked, reloading, dconf, meant, unheard, removed>>
  BY DEF OpenTmp
<1>4. edit'["person"] = e /\ edit'["daemon"] = Idle0 /\ DOMAIN edit' = Editor
  BY <1>2 DEF PatientInv, Editor
<1>5. EditSound(old) /\ old.at = "open"
  BY <1>1 DEF PatientInv, OpenTmp
<1>6. e.dev = old.dev /\ e.key = old.key /\ e.val = old.val /\ e.lines = old.lines /\ e.at = "write" /\ e.handle = "tmp"
  BY <1>5 DEF PatientInv, OpenTmp
<1>7. e \in Edits
  BY <1>5, EditTypes
<1> HIDE DEF e
<1> QED BY <1>3, <1>4, <1>5, <1>6, <1>7 DEF PatientInv, EditSound, Edited

LEMMA WriteKeeps == ASSUME PatientInv, NEW x \in Editor, WriteTmp(x) PROVE PatientInv'
<1>1. x = "person"
  BY DEF PatientInv, WriteTmp, Editor, Idle0
<1> DEFINE old == edit["person"]
           e == [old EXCEPT !.at = "rename", !.handle = "none"]
<1>2. edit' = [edit EXCEPT !["person"] = e]
  BY <1>1 DEF WriteTmp, PatientInv, Editor
<1>3. UNCHANGED <<asked, reloading, dconf, meant, unheard, removed>>
  BY DEF WriteTmp
<1>4. edit'["person"] = e /\ edit'["daemon"] = Idle0 /\ DOMAIN edit' = Editor
  BY <1>2 DEF PatientInv, Editor
<1>5. EditSound(old) /\ old.at = "write" /\ old.handle = "tmp"
  BY <1>1 DEF PatientInv, WriteTmp, EditSound
<1>6. e.dev = old.dev /\ e.key = old.key /\ e.val = old.val /\ e.lines = old.lines /\ e.at = "rename"
  BY <1>5 DEF PatientInv, WriteTmp
<1>7. ~\E y \in Editor \ {x} : edit[y].handle = old.handle
  BY <1>1, <1>5 DEF PatientInv, Editor, Idle0
<1>8. ctmp' = old.lines /\ cf' = cf
  BY <1>1, <1>5, <1>7 DEF WriteTmp
<1>9. e \in Edits
  BY <1>5, EditTypes
<1> HIDE DEF e
<1> QED BY <1>3, <1>4, <1>5, <1>6, <1>8, <1>9 DEF PatientInv, EditSound, Edited

\* A rename makes the file what the command meant; of a camera whose flag may be
\* another now, the daemon is still to hear.
LEMMA RenameKeeps == ASSUME PatientInv, NEW x \in Editor, RenameTmp(x) PROVE PatientInv'
<1>1. x = "person"
  BY DEF PatientInv, RenameTmp, Editor, Idle0
<1> DEFINE old == edit["person"]
<1>2. EditSound(old) /\ old.at = "rename" /\ ctmp = Edited(meant, old) /\ meant \in Confs /\ cf = meant
      /\ old.dev \in Devs /\ old.key \in {"flag", "warn", "line"} /\ old.val \in Ways
  <2>1. EditSound(old) /\ old.at = "rename" /\ meant \in Confs /\ cf = meant
    BY <1>1 DEF PatientInv, RenameTmp
  <2> QED BY <2>1, EditTypes DEF EditSound
<1>3. UNCHANGED <<asked, reloading>>
  BY DEF RenameTmp
<1>4. CASE ctmp = NoFile
  <2>1. edit' = [edit EXCEPT !["person"] = Idle0] /\ UNCHANGED <<cf, ctmp, dconf, meant, unheard, removed>>
    BY <1>1, <1>4 DEF RenameTmp
  <2>2. edit'["person"] = Idle0 /\ edit'["daemon"] = Idle0 /\ DOMAIN edit' = Editor
    BY <2>1 DEF PatientInv, Editor
  <2> QED BY <1>3, <2>1, <2>2, IdleEdit DEF PatientInv, EditSound
<1>5. CASE ctmp # NoFile
  <2> DEFINE e == [old EXCEPT !.at = "tell"]
  <2>1. /\ cf' = ctmp /\ ctmp' = NoFile
        /\ edit' = [y \in Editor |-> IF y = "person" THEN e ELSE [edit[y] EXCEPT !.handle = IF @ = "tmp" THEN "live" ELSE @]]
        /\ meant' = Edited(meant, old)
        /\ unheard' = IF old.key # "warn" /\ old.dev.kind = "camera" THEN unheard \cup {old.dev.id} ELSE unheard
        /\ UNCHANGED <<dconf, removed>>
    BY <1>1, <1>5 DEF RenameTmp, Edited
  <2>2. [edit["daemon"] EXCEPT !.handle = IF @ = "tmp" THEN "live" ELSE @] = Idle0
    BY DEF PatientInv, Idle0
  <2>3. edit'["person"] = e /\ edit'["daemon"] = Idle0 /\ DOMAIN edit' = Editor
    BY <2>1, <2>2 DEF Editor
  <2>4. e.dev = old.dev /\ e.key = old.key /\ e.val = old.val /\ e.at = "tell"
    BY <1>2
  <2>5. /\ cf' = meant' /\ meant' \in Confs
        /\ \A d \in Devs : d # old.dev => cf'[d] = cf[d]
        /\ old.key = "warn" => cf'[old.dev].flag = cf[old.dev].flag
        /\ old.key = "line" => cf'[old.dev] = Unset
    BY <1>2, <2>1, EditedFacts
  <2>6. (EditSound(edit["person"]))'
    <3>1. e \in Edits
      BY <1>2, EditTypes
    <3> HIDE DEF e
    <3> QED BY <1>2, <1>3, <2>3, <2>4, <2>5, <3>1 DEF EditSound
  <2>7. \A id \in asked' : id \in ConfIds /\ cf'[Cam(id)] = Unset
    <3> SUFFICES ASSUME NEW id \in asked PROVE id \in ConfIds /\ cf'[Cam(id)] = Unset
      BY <1>3
    <3>1. id \in ConfIds /\ cf[Cam(id)] = Unset /\ Cam(id) \in Devs
      BY DEF PatientInv, Cam, Devs
    <3>2. Cam(id) # old.dev
      BY <1>2 DEF EditSound, Cam
    <3> QED BY <2>5, <3>1, <3>2
  <2>8. ~reloading' => \A id \in ConfIds \ (unheard' \cup removed') : dconf'[Cam(id)].flag = cf'[Cam(id)].flag
    <3> SUFFICES ASSUME ~reloading, NEW id \in ConfIds, id \notin unheard' \cup removed PROVE dconf[Cam(id)].flag = cf'[Cam(id)].flag
      BY <1>3, <2>1
    <3>1. id \notin unheard /\ dconf[Cam(id)].flag = cf[Cam(id)].flag /\ Cam(id) \in Devs
      BY <2>1 DEF PatientInv, Cam, Devs
    <3>2. CASE Cam(id) # old.dev
      BY <2>5, <3>1, <3>2
    <3>3. CASE Cam(id) = old.dev
      <4>1. old.dev.kind = "camera" /\ old.dev.id = id
        BY <3>3 DEF Cam
      <4>2. old.key = "warn"
        BY <1>2, <2>1, <4>1
      <4> QED BY <2>5, <3>1, <3>3, <4>2
    <3> QED BY <3>2, <3>3
  <2> QED BY <2>3, <2>5, <2>6, <2>7, <2>8 DEF PatientInv
<1> QED BY <1>4, <1>5

LEMMA TellKeeps == ASSUME PatientInv, Tell PROVE PatientInv'
<1> DEFINE old == edit["person"]
<1>1. EditSound(old) /\ old.at = "tell" /\ cf = meant
      /\ old.dev \in Devs /\ old.key \in {"flag", "warn", "line"}
  <2>1. EditSound(old) /\ old.at = "tell" /\ cf = meant
    BY DEF PatientInv, Tell
  <2> QED BY <2>1, EditTypes DEF EditSound
<1>2. /\ reloading' \in IF old.key = "flag" THEN (IF old.dev.kind = "camera" THEN {TRUE} ELSE {reloading, TRUE})
                        ELSE {reloading}
      /\ asked' = IF old.key = "line" /\ old.dev.kind = "camera" THEN asked \cup {old.dev.id} ELSE asked
      /\ removed' = IF old.key = "line" /\ old.dev.kind = "camera" THEN removed \cup {old.dev.id} ELSE removed
      /\ unheard' = IF old.key # "warn" /\ old.dev.kind = "camera" THEN unheard \ {old.dev.id} ELSE unheard
      /\ edit' = [edit EXCEPT !["person"] = Idle0]
      /\ UNCHANGED <<cf, ctmp, dconf, meant>>
  BY DEF Tell
<1>3. edit'["person"] = Idle0 /\ edit'["daemon"] = Idle0 /\ DOMAIN edit' = Editor
  BY <1>2 DEF PatientInv, Editor
<1>4. (EditSound(edit["person"]))'
  BY <1>3, IdleEdit DEF EditSound
<1>5. \A id \in asked' : id \in ConfIds /\ cf'[Cam(id)] = Unset
  <2> SUFFICES ASSUME NEW id \in asked' PROVE id \in ConfIds /\ cf[Cam(id)] = Unset
    BY <1>2
  <2>1. CASE id \in asked
    BY <2>1 DEF PatientInv
  <2>2. CASE old.key = "line" /\ old.dev.kind = "camera" /\ id = old.dev.id
    <3>1. Cam(id) = old.dev /\ id \in ConfIds
      BY <1>1, <2>2 DEF Cam, Devs
    <3> QED BY <1>1, <2>2, <3>1 DEF EditSound
  <2> QED BY <1>2, <2>1, <2>2
<1>6. ~reloading' => \A id \in ConfIds \ (unheard' \cup removed') : dconf'[Cam(id)].flag = cf'[Cam(id)].flag
  <2> SUFFICES ASSUME ~reloading', NEW id \in ConfIds, id \notin unheard' \cup removed'
               PROVE  dconf[Cam(id)].flag = cf[Cam(id)].flag
    BY <1>2
  <2>1. ~reloading /\ id \notin removed
    BY <1>2
  <2>2. id \notin unheard
    BY <1>1, <1>2
  <2> QED BY <2>1, <2>2 DEF PatientInv
<1> QED BY <1>2, <1>3, <1>4, <1>5, <1>6 DEF PatientInv

\* The daemon, which reads the file and does not change it.
LEMMA DaemonKeeps ==
    ASSUME PatientInv,
           \/ \E id \in ConfIds : LoopForgets(id)
           \/ LoopReloads
           \/ DaemonStarts
    PROVE  PatientInv'
<1>1. CASE \E id \in ConfIds : LoopForgets(id)
  <2> PICK id \in ConfIds : LoopForgets(id)
    BY <1>1
  <2>1. cf[Cam(id)] = Unset /\ read_lines = cf
    BY WholeFile DEF LoopForgets, PatientInv
  <2>2. asked' = asked \ {id} /\ edit' = edit /\ UNCHANGED <<cf, ctmp, reloading, dconf, meant, unheard, removed>>
    BY <2>1 DEF LoopForgets
  <2> QED BY <2>2 DEF PatientInv, EditSound, Edited
<1>2. CASE LoopReloads
  <2>1. /\ dconf' \in Loaded(cf)
        /\ UNCHANGED <<cf, ctmp, edit, asked, meant>>
    BY <1>2 DEF LoopReloads
  <2>2. \A id \in ConfIds : dconf'[Cam(id)].flag = cf[Cam(id)].flag
    BY <2>1, WholeFile
  <2> QED BY <2>1, <2>2 DEF PatientInv, EditSound, Edited
<1>3. CASE DaemonStarts
  <2>1. /\ dconf' \in Loaded(cf) /\ asked' = {}
        /\ edit' = [edit EXCEPT !["daemon"] = Idle0]
        /\ UNCHANGED <<cf, ctmp, meant>>
    BY <1>3 DEF DaemonStarts
  <2>2. \A id \in ConfIds : dconf'[Cam(id)].flag = cf[Cam(id)].flag
    BY <2>1, WholeFile
  <2>3. edit'["person"] = edit["person"] /\ edit'["daemon"] = Idle0 /\ DOMAIN edit' = Editor
    BY <2>1 DEF PatientInv, Editor
  <2> QED BY <2>1, <2>2, <2>3 DEF PatientInv, EditSound, Edited
<1> QED BY <1>1, <1>2, <1>3

LEMMA ConfStep == ASSUME ConfInv, ConfNext PROVE ConfInv'
<1>1. patient' = patient
  BY DEF ConfNext, OpenTmp, WriteTmp, RenameTmp, run_writes_command, run_boxes_command, run_warn_command,
         run_remove_command, SetFlag, Begins, Tell, GiveUp, LoopForgets, LoopReloads, DaemonStarts
<1> SUFFICES ASSUME patient, PatientInv PROVE PatientInv'
  BY <1>1 DEF ConfInv
<1>2. ASSUME NEW x \in Editor, OpenTmp(x) \/ WriteTmp(x) \/ RenameTmp(x) PROVE PatientInv'
  BY <1>2, OpenKeeps, WriteKeeps, RenameKeeps
<1>3. ASSUME NEW dev \in Devs, NEW key \in {"flag", "warn"}, NEW v \in {"on", "off"}, SetFlag(dev, key, v) PROVE PatientInv'
  BY <1>3, BeginsKeeps DEF SetFlag, Ways
<1>4. ASSUME NEW v \in {"on", "off"}, NEW id \in ConfIds, run_writes_command(id, v) \/ run_boxes_command(id, v)
      PROVE  PatientInv'
  <2>1. Cam(id) \in Devs /\ [kind |-> "box", id |-> id] \in Devs
    BY DEF Cam, Devs
  <2> QED BY <1>3, <1>4, <2>1 DEF run_writes_command, run_boxes_command
<1>5. ASSUME NEW v \in {"on", "off"}, NEW dev \in Devs, run_warn_command(dev, v) PROVE PatientInv'
  BY <1>3, <1>5 DEF run_warn_command
<1>6. ASSUME NEW dev \in Devs, run_remove_command(dev) PROVE PatientInv'
  BY <1>6, BeginsKeeps DEF run_remove_command, Ways
<1>7. CASE Tell
  BY <1>7, TellKeeps
<1>8. CASE GiveUp
  <2>1. /\ edit' = [edit EXCEPT !["person"] = Idle0]
        /\ UNCHANGED <<cf, ctmp, asked, reloading, dconf, meant, unheard, removed>>
    BY <1>8 DEF GiveUp
  <2>2. edit'["person"] = Idle0 /\ edit'["daemon"] = Idle0 /\ DOMAIN edit' = Editor
    BY <2>1 DEF PatientInv, Editor
  <2> QED BY <2>1, <2>2, IdleEdit DEF PatientInv, EditSound
<1>9. CASE (\E id \in ConfIds : LoopForgets(id)) \/ LoopReloads \/ DaemonStarts
  BY <1>9, DaemonKeeps
<1> QED BY <1>2, <1>4, <1>5, <1>6, <1>7, <1>8, <1>9 DEF ConfNext

\* What a command that succeeded said of a device is what the file holds, whole
\* and with nothing else changed, and when nothing is under way it is what the
\* daemon acts on, of every camera it was told of: whichever process was killed or
\* started again between two steps, for any number of devices and edits.
THEOREM CommandsReachTheFile == Spec => []CommandsTakeEffect
<1>1. Init => ConfInv
  BY ConfInitInv DEF Init
<1>2. ConfInv /\ [Next]_vars => ConfInv'
  <2> SUFFICES ASSUME ConfInv, [Next]_vars PROVE ConfInv'
    OBVIOUS
  <2>1. CASE ConfNext
    BY <2>1, ConfStep
  <2>2. CASE UNCHANGED confVars
    BY <2>2 DEF confVars, ConfInv, PatientInv, EditSound, Edited
  <2> QED BY <2>1, <2>2 DEF Next, vars
<1>3. ConfInv => CommandsTakeEffect
  BY DEF ConfInv, PatientInv, CommandsTakeEffect, Quiet
<1> QED BY <1>1, <1>2, <1>3, PTL DEF Spec

-----------------------------------------------------------------------------
(* The page of devices.                                                    *)

\* What is known of a device was known when it was heard.
KeyOf(d) == [radio |-> d.radio, box |-> d.id]
DeviceSound(d, heard) ==
    /\ KeyOf(d) \in scene.keys
    /\ d.last \in Nat \ {0} /\ d.last <= heard[KeyOf(d)]
    /\ d.median = clock[d.id] + IF d.radio = Local THEN 0 ELSE DongleBase

WatchedSound(id, heard) == id \in scene.cams /\ heard[id] >= 1

CamRows(c) == {NoRow} \cup [there : {TRUE}, id : {c}, connected : BOOLEAN, present : BOOLEAN, last_seen : Int,
                            error : BOOLEAN]
StatusSound(rows, heard) ==
    /\ DOMAIN rows = scene.cams
    /\ \A c \in scene.cams :
          /\ rows[c] \in CamRows(c)
          /\ rows[c].there => heard[c] >= 1 /\ rows[c].last_seen <= heard[c]

\* The camera published last, shown as held, was held not long ago.
HeldSince(rows, c, heard, at) == c # Nothing /\ rows[c].there /\ rows[c].connected => heard[c] >= at

Contacts == [scene.cams \cup scene.keys -> Nat]
WorldSound ==
    /\ scene \in Scenes /\ vnow \in Nat \ {0}
    /\ clock \in [{k.box : k \in scene.keys} -> Int]
    /\ contact \in Contacts
    /\ \A d \in scene.cams \cup scene.keys : contact[d] <= vnow
    /\ poll \in {"refresh", "fetch", "query", "draw"}

BenchSound ==
    /\ reg \in [scene.keys -> [at : Nat, mine : BOOLEAN, time : BOOLEAN]]
    /\ \A k \in scene.keys : reg[k].at <= contact[k]
    /\ rcam.id # Nothing => WatchedSound(rcam.id, contact) /\ rcam.at \in Nat /\ rcam.at <= contact[rcam.id]

SyncSound ==
    /\ held # Nothing => held \in scene.cams /\ contact[held] = vnow
    /\ published # Nothing => published \in scene.cams /\ st[published].there
    /\ StatusSound(st, contact) /\ HeldSince(st, published, contact, IF poll = "refresh" THEN vnow - 1 ELSE vnow)

Photograph(snap, heard) ==
    /\ IsFiniteSet(snap.device) /\ \A d \in snap.device : DeviceSound(d, heard)
    /\ \A d, e \in snap.device : KeyOf(d) = KeyOf(e) => d = e
    /\ snap.camera.seen => WatchedSound(snap.camera.id, heard)

PageSound ==
    /\ pb.there \in BOOLEAN /\ ps.there \in BOOLEAN
    /\ pb.there => Photograph(pb, contact)
    /\ ps.there => /\ StatusSound(ps.cameras, contact)
                   /\ HeldSince(ps.cameras, published, contact, IF poll = "draw" THEN vnow ELSE vnow - 1)

ViewInv == WorldSound /\ BenchSound /\ SyncSound /\ PageSound

\* Contact is made, and never unmade.
Grown(before, after) == after \in Contacts /\ \A d \in scene.cams \cup scene.keys : before[d] <= after[d]

LEMMA GrownKeeps ==
    ASSUME NEW before \in Contacts, NEW after, Grown(before, after)
    PROVE  /\ \A rows : StatusSound(rows, before) => StatusSound(rows, after)
           /\ \A snap : Photograph(snap, before) => Photograph(snap, after)
           /\ \A id : WatchedSound(id, before) => WatchedSound(id, after)
<1> USE DEF Grown, Contacts
<1>1. ASSUME NEW id, WatchedSound(id, before) PROVE WatchedSound(id, after)
  BY <1>1 DEF WatchedSound
<1>2. ASSUME NEW d, DeviceSound(d, before) PROVE DeviceSound(d, after)
  BY <1>2 DEF DeviceSound
<1>3. ASSUME NEW rows, StatusSound(rows, before) PROVE StatusSound(rows, after)
  <2> SUFFICES ASSUME NEW c \in scene.cams, rows[c].there PROVE after[c] >= 1 /\ rows[c].last_seen <= after[c]
    BY <1>3 DEF StatusSound
  <2>1. rows[c].last_seen \in Int
    <3>1. rows[c] \in CamRows(c)
      BY <1>3 DEF StatusSound
    <3>2. rows[c] # NoRow
      BY DEF NoRow
    <3> QED BY <3>1, <3>2 DEF CamRows
  <2> QED BY <1>3, <2>1 DEF StatusSound
<1> QED BY <1>1, <1>2, <1>3 DEF Photograph

\* A device hears one of the radios now.
LEMMA HeardGrows ==
    ASSUME WorldSound, NEW d \in scene.cams \cup scene.keys
    PROVE  /\ Grown(contact, [contact EXCEPT ![d] = vnow])
           /\ \A e \in scene.cams \cup scene.keys : [contact EXCEPT ![d] = vnow][e] <= vnow
BY DEF WorldSound, Grown, Contacts

\* The camera's link and the published rows, where only contact was made.
LEMMA SyncGrows ==
    ASSUME WorldSound, SyncSound, Grown(contact, contact'), \A e \in scene.cams \cup scene.keys : contact'[e] <= vnow,
           UNCHANGED <<vnow, scene, statusVars, poll>>
    PROVE  SyncSound'
<1>1. contact \in Contacts /\ vnow \in Nat
  BY DEF WorldSound
<1>2. StatusSound(st, contact')
  BY <1>1, GrownKeeps DEF SyncSound
<1>3. held # Nothing => held \in scene.cams /\ contact'[held] = vnow
  BY <1>1 DEF SyncSound, Grown, Contacts
<1>4. published # Nothing => published \in scene.cams /\ contact[published] \in Nat /\ contact'[published] \in Nat
                             /\ contact[published] <= contact'[published]
  BY <1>1 DEF SyncSound, Grown, Contacts
<1> QED BY <1>1, <1>2, <1>3, <1>4 DEF SyncSound, HeldSince, statusVars, StatusSound

LEMMA PageGrows ==
    ASSUME WorldSound, SyncSound, PageSound, Grown(contact, contact'),
           UNCHANGED <<vnow, worldVars, published, pageVars>>
    PROVE  PageSound'
<1>1. contact \in Contacts /\ vnow \in Nat
  BY DEF WorldSound
<1>2. ps.there => StatusSound(ps.cameras, contact')
  BY <1>1, GrownKeeps DEF PageSound
<1>3. pb.there => Photograph(pb, contact')
  BY <1>1, GrownKeeps DEF PageSound
<1>4. published # Nothing => published \in scene.cams /\ contact[published] \in Nat /\ contact'[published] \in Nat
                             /\ contact[published] <= contact'[published]
  BY <1>1 DEF SyncSound, Grown, Contacts
<1>5. ps.there => HeldSince(ps.cameras, published, contact', IF poll = "draw" THEN vnow ELSE vnow - 1)
  BY <1>1, <1>4 DEF PageSound, HeldSince
<1> QED BY <1>2, <1>3, <1>5 DEF PageSound, worldVars, pageVars, StatusSound, Photograph, DeviceSound, WatchedSound, HeldSince

LEMMA BenchGrows ==
    ASSUME WorldSound, BenchSound, Grown(contact, contact'), UNCHANGED <<scene, reg, rcam>>
    PROVE  BenchSound'
<1>1. contact \in Contacts
  BY DEF WorldSound
<1>2. \A k \in scene.keys : reg[k].at \in Nat /\ contact[k] \in Nat /\ contact'[k] \in Nat /\ contact[k] <= contact'[k]
  BY <1>1 DEF BenchSound, Grown, Contacts
<1>3. rcam.id # Nothing => WatchedSound(rcam.id, contact') /\ rcam.at <= contact'[rcam.id]
  <2> SUFFICES ASSUME rcam.id # Nothing PROVE WatchedSound(rcam.id, contact') /\ rcam.at <= contact'[rcam.id]
    OBVIOUS
  <2>1. WatchedSound(rcam.id, contact') /\ rcam.id \in scene.cams
    BY <1>1, GrownKeeps DEF BenchSound, WatchedSound
  <2> QED BY <1>1, <2>1 DEF BenchSound, Grown, Contacts
<1> QED BY <1>2, <1>3 DEF BenchSound, WatchedSound

LEMMA ViewInitInv == ViewInit => ViewInv
<1> SUFFICES ASSUME ViewInit PROVE ViewInv
  OBVIOUS
<1>1. WorldSound
  <2>1. Clocks \subseteq Int
    BY DeviceViewAssumption DEF DeviceViewAssumption
  <2>2. contact \in Contacts
    BY DEF ViewInit, Contacts
  <2>3. clock \in [{k.box : k \in scene.keys} -> Int]
    <3>1. clock \in [{k.box : k \in scene.keys} -> Clocks]
      BY DEF ViewInit
    <3> QED BY <2>1, <3>1
  <2>4. \A d \in scene.cams \cup scene.keys : contact[d] <= vnow
    BY DEF ViewInit
  <2> QED BY <2>2, <2>3, <2>4 DEF ViewInit, WorldSound
<1>2. BenchSound
  BY DEF ViewInit, BenchSound, Unheard
<1>3. SyncSound
  <2>1. NoRow.there = FALSE
    BY DEF NoRow
  <2> QED BY <2>1 DEF ViewInit, SyncSound, StatusSound, HeldSince, CamRows
<1>4. PageSound
  BY DEF ViewInit, PageSound, NoRow
<1> QED BY <1>1, <1>2, <1>3, <1>4 DEF ViewInv

-----------------------------------------------------------------------------
(* octomancerd's steps *)

LEMMA HearBoxKeeps ==
    ASSUME ViewInv, NEW k \in scene.keys, NEW read \in BOOLEAN, HearBox(k, read)
    PROVE  ViewInv'
<1>1. /\ contact' = [contact EXCEPT ![k] = vnow]
      /\ reg' = [reg EXCEPT ![k] = [at |-> vnow, mine |-> TRUE, time |-> @.time \/ read]]
      /\ UNCHANGED <<vnow, worldVars, attached, rcam, statusVars, pageVars>>
  BY DEF HearBox
<1>2. Grown(contact, contact') /\ \A e \in scene.cams \cup scene.keys : contact'[e] <= vnow
  BY <1>1, HeardGrows DEF ViewInv
<1>3. contact \in Contacts /\ vnow \in Nat /\ contact'[k] = vnow
  BY <1>1 DEF ViewInv, WorldSound, Contacts
<1>4. WorldSound'
  BY <1>1, <1>2 DEF ViewInv, WorldSound, Grown, worldVars, pageVars, Contacts
<1>5. BenchSound'
  <2>1. [at |-> vnow, mine |-> TRUE, time |-> reg[k].time \/ read] \in [at : Nat, mine : BOOLEAN, time : BOOLEAN]
    BY <1>3 DEF ViewInv, BenchSound
  <2>2. reg' \in [scene.keys -> [at : Nat, mine : BOOLEAN, time : BOOLEAN]]
    BY <1>1, <2>1 DEF ViewInv, BenchSound
  <2>3. \A j \in scene.keys : reg'[j].at <= contact'[j]
    BY <1>1, <1>3 DEF ViewInv, BenchSound, Contacts
  <2>4. rcam.id # Nothing => WatchedSound(rcam.id, contact') /\ rcam.at <= contact'[rcam.id]
    <3>1. k \notin scene.cams
      BY DeviceViewAssumption DEF DeviceViewAssumption, ViewInv, WorldSound
    <3> QED BY <1>1, <3>1 DEF ViewInv, BenchSound, WatchedSound
  <2> QED BY <1>1, <2>2, <2>3, <2>4 DEF ViewInv, BenchSound, worldVars, WatchedSound
<1> QED BY <1>1, <1>2, <1>4, <1>5, SyncGrows, PageGrows DEF ViewInv, worldVars, pageVars, statusVars

LEMMA HearCamKeeps ==
    ASSUME ViewInv, NEW c \in scene.cams, HearCam(c)
    PROVE  ViewInv'
<1>1. /\ contact' = [contact EXCEPT ![c] = vnow]
      /\ rcam' = IF rcam.id \in {Nothing, c} THEN [id |-> c, at |-> vnow] ELSE rcam
      /\ UNCHANGED <<vnow, worldVars, reg, attached, statusVars, pageVars>>
  BY DEF HearCam
<1>2. Grown(contact, contact') /\ \A e \in scene.cams \cup scene.keys : contact'[e] <= vnow
  BY <1>1, HeardGrows DEF ViewInv
<1>3. contact \in Contacts /\ vnow \in Nat \ {0} /\ contact'[c] = vnow
  BY <1>1 DEF ViewInv, WorldSound, Contacts
<1>4. WorldSound'
  BY <1>1, <1>2 DEF ViewInv, WorldSound, Grown, worldVars, pageVars, Contacts
<1>5. BenchSound'
  <2>1. \A k \in scene.keys : reg[k].at <= contact'[k]
    <3>1. c \notin scene.keys
      BY DeviceViewAssumption DEF DeviceViewAssumption, ViewInv, WorldSound
    <3> QED BY <1>1, <3>1 DEF ViewInv, BenchSound
  <2>2. CASE rcam.id \in {Nothing, c}
    BY <1>1, <1>3, <2>1, <2>2 DEF ViewInv, BenchSound, worldVars, WatchedSound
  <2>3. CASE rcam.id \notin {Nothing, c}
    <3>1. contact'[rcam.id] = contact[rcam.id]
      BY <1>1, <1>3, <2>3 DEF ViewInv, BenchSound, WatchedSound, Contacts
    <3> QED BY <1>1, <2>1, <2>3, <3>1 DEF ViewInv, BenchSound, worldVars, WatchedSound
  <2> QED BY <2>2, <2>3
<1> QED BY <1>1, <1>2, <1>4, <1>5, SyncGrows, PageGrows DEF ViewInv, worldVars, pageVars, statusVars

\* The dongle comes and goes, and octomancerd starts again.
LEMMA BenchKeeps == ASSUME ViewInv, Plug \/ BenchRestarts PROVE ViewInv'
<1>1. UNCHANGED <<vnow, worldVars, statusVars, pageVars, contact>>
  BY DEF Plug, BenchRestarts
<1>2. WorldSound' /\ SyncSound' /\ PageSound'
  BY <1>1 DEF ViewInv, WorldSound, SyncSound, PageSound, worldVars, statusVars, pageVars, Contacts, StatusSound, HeldSince,
              Photograph, DeviceSound, WatchedSound
<1>s. scene' = scene /\ contact' = contact
  BY <1>1 DEF worldVars
<1>3. CASE Plug
  <2>1. Grown(contact, contact')
    BY <1>s DEF ViewInv, WorldSound, Grown, Contacts
  <2>2. UNCHANGED <<scene, reg, rcam>>
    BY <1>s, <1>3 DEF Plug
  <2> QED BY <1>2, <2>1, <2>2, BenchGrows DEF ViewInv
<1>4. CASE BenchRestarts
  <2>1. /\ reg' = [k \in scene.keys |-> IF k.radio = Local THEN [at |-> reg[k].at, mine |-> FALSE, time |-> FALSE] ELSE Unheard]
        /\ rcam' = [id |-> Nothing, at |-> 0]
    BY <1>4 DEF BenchRestarts
  <2>2. \A k \in scene.keys : reg[k].at \in Nat /\ reg[k].at <= contact[k] /\ contact[k] \in Nat
    BY DEF ViewInv, BenchSound, WorldSound, Contacts
  <2>3. \A k \in scene.keys : reg'[k] \in [at : Nat, mine : BOOLEAN, time : BOOLEAN] /\ reg'[k].at <= contact[k]
    BY <2>1, <2>2 DEF Unheard
  <2>4. reg' \in [scene.keys -> [at : Nat, mine : BOOLEAN, time : BOOLEAN]]
    BY <2>1, <2>3
  <2>5. \A k \in scene'.keys : reg'[k].at <= contact'[k]
    BY <1>s, <2>3
  <2>6. rcam'.id = Nothing
    BY <2>1
  <2>7. reg' \in [scene'.keys -> [at : Nat, mine : BOOLEAN, time : BOOLEAN]]
    BY <1>s, <2>4
  <2> QED BY <1>2, <2>5, <2>6, <2>7 DEF BenchSound, ViewInv
<1> QED BY <1>2, <1>3, <1>4 DEF ViewInv

-----------------------------------------------------------------------------
(* octomancer-sync's steps *)

LEMMA CycleKeeps ==
    ASSUME ViewInv, NEW c \in scene.asked, NEW up \in BOOLEAN, NEW measured \in BOOLEAN, CycleOf(c, up, measured)
    PROVE  ViewInv'
<1> DEFINE row == [there |-> TRUE, id |-> c, connected |-> up, present |-> TRUE, last_seen |-> vnow, error |-> measured]
<1>1. /\ contact' = [contact EXCEPT ![c] = vnow]
      /\ held' = (IF up THEN c ELSE Nothing) /\ published' = c
      /\ st' = [st EXCEPT ![c] = row]
      /\ UNCHANGED <<vnow, scene, clock, reg, attached, rcam, pb, ps, pc, poll>>
  BY DEF CycleOf, worldVars, benchVars, pageVars
<1>2. c \in scene.cams /\ c # Nothing
  BY DeviceViewAssumption DEF DeviceViewAssumption, ViewInv, WorldSound, Nothing
<1>3. Grown(contact, contact') /\ \A e \in scene.cams \cup scene.keys : contact'[e] <= vnow
  BY <1>1, <1>2, HeardGrows DEF ViewInv
<1>4. contact \in Contacts /\ vnow \in Nat \ {0} /\ contact'[c] = vnow
  BY <1>1, <1>2 DEF ViewInv, WorldSound, Contacts
<1>5. WorldSound'
  BY <1>1, <1>3 DEF ViewInv, WorldSound, Grown, Contacts
<1>6. BenchSound'
  BY <1>1, <1>3, BenchGrows DEF ViewInv
<1>7. SyncSound'
  <2>1. row \in CamRows(c) /\ row.last_seen = vnow /\ row.there
    BY <1>4 DEF CamRows
  <2>2. StatusSound(st, contact')
    BY <1>3, <1>4, GrownKeeps DEF ViewInv, SyncSound
  <2> HIDE DEF row
  <2>3. st'[c] = row /\ DOMAIN st' = scene.cams /\ \A d \in scene.cams \ {c} : st'[d] = st[d]
    BY <1>1, <1>2 DEF ViewInv, SyncSound, StatusSound
  <2>4. StatusSound(st', contact')
    BY <1>4, <2>1, <2>2, <2>3 DEF StatusSound
  <2>5. HeldSince(st', c, contact', vnow) /\ HeldSince(st', c, contact', vnow - 1)
    BY <1>4 DEF HeldSince
  <2>6. held' # Nothing => held' = c
    BY <1>1
  <2>7. SyncSound' <=> /\ held' # Nothing => held' \in scene.cams /\ contact'[held'] = vnow
                       /\ published' # Nothing => published' \in scene.cams /\ st'[published'].there
                       /\ StatusSound(st', contact')
                       /\ HeldSince(st', published', contact', IF poll = "refresh" THEN vnow - 1 ELSE vnow)
    BY <1>1 DEF SyncSound, StatusSound, HeldSince
  <2> QED BY <1>1, <1>2, <1>4, <2>1, <2>3, <2>4, <2>5, <2>6, <2>7
<1>8. PageSound'
  <2>1. ps.there => StatusSound(ps.cameras, contact')
    BY <1>3, <1>4, GrownKeeps DEF ViewInv, PageSound
  <2>2. pb.there => Photograph(pb, contact')
    BY <1>3, <1>4, GrownKeeps DEF ViewInv, PageSound
  <2>3. HeldSince(ps.cameras, c, contact', vnow) /\ HeldSince(ps.cameras, c, contact', vnow - 1)
    BY <1>4 DEF HeldSince
  <2>4. PageSound' <=>
            /\ pb.there \in BOOLEAN /\ ps.there \in BOOLEAN
            /\ pb.there => Photograph(pb, contact')
            /\ ps.there => /\ StatusSound(ps.cameras, contact')
                           /\ HeldSince(ps.cameras, published', contact', IF poll = "draw" THEN vnow ELSE vnow - 1)
    BY <1>1 DEF PageSound, StatusSound, HeldSince, Photograph, DeviceSound, WatchedSound
  <2> QED BY <1>1, <2>1, <2>2, <2>3, <2>4 DEF ViewInv, PageSound
<1> QED BY <1>5, <1>6, <1>7, <1>8 DEF ViewInv

LEMMA LinkDropsKeeps == ASSUME ViewInv, LinkDrops PROVE ViewInv'
<1>1. held' = Nothing /\ UNCHANGED <<vnow, scene, clock, reg, attached, rcam, st, published, pb, ps, pc, poll, contact>>
  BY DEF LinkDrops, worldVars, benchVars, pageVars
<1> QED BY <1>1 DEF ViewInv, WorldSound, BenchSound, SyncSound, PageSound, StatusSound, HeldSince, Photograph, DeviceSound,
                    WatchedSound, Contacts

LEMMA SyncRestartsKeeps == ASSUME ViewInv, SyncRestarts PROVE ViewInv'
<1>1. /\ held' = Nothing /\ published' = Nothing /\ st' = [c \in scene.cams |-> NoRow]
      /\ UNCHANGED <<vnow, scene, clock, reg, attached, rcam, pb, ps, pc, poll, contact>>
  BY DEF SyncRestarts, worldVars, benchVars, pageVars
<1>2. NoRow.there = FALSE
  BY DEF NoRow
<1>3. StatusSound(st', contact)
  BY <1>1, <1>2 DEF StatusSound, CamRows
<1> QED BY <1>1, <1>3 DEF ViewInv, WorldSound, BenchSound, SyncSound, PageSound, StatusSound, HeldSince, Photograph, DeviceSound,
                    WatchedSound, Contacts

LEMMA CamRowTyped ==
    ASSUME NEW c, NEW up \in BOOLEAN, NEW present \in BOOLEAN, NEW last_seen \in Int, NEW error \in BOOLEAN
    PROVE  [there |-> TRUE, id |-> c, connected |-> up, present |-> present, last_seen |-> last_seen, error |-> error]
              \in CamRows(c)
BY DEF CamRows

\* refresh(): a row that says held is of the link that is up, and what it says of
\* when the camera was seen is a time it was heard.
LEMMA RefreshKeeps == ASSUME ViewInv, Refresh PROVE ViewInv'
<1>1. /\ poll = "refresh" /\ poll' = "fetch"
      /\ UNCHANGED <<vnow, scene, clock, reg, attached, rcam, held, published, pb, ps, pc, contact>>
  BY DEF Refresh, worldVars, benchVars
<1>2. contact \in Contacts /\ vnow \in Nat \ {0}
  BY DEF ViewInv, WorldSound
<1>3. StatusSound(st', contact) /\ (published # Nothing => st'[published].there) /\ HeldSince(st', published, contact, vnow)
  <2>1. CASE published = Nothing
    BY <2>1 DEF Refresh, ViewInv, SyncSound, HeldSince
  <2>2. CASE published # Nothing
    <3> DEFINE old == st[published]
    <3> PICK seen \in Answers, read \in BOOLEAN : st' = [st EXCEPT ![published] = Refreshed(old, seen, read)]
      BY <2>2 DEF Refresh
    <3> DEFINE new == Refreshed(old, seen, read)
               up == held = old.id
    <3>1. published \in scene.cams /\ old \in CamRows(published) /\ old.there /\ old.last_seen <= contact[published]
          /\ contact[published] >= 1
      BY <2>2 DEF ViewInv, SyncSound, StatusSound
    <3>2. old \in [there : {TRUE}, id : {published}, connected : BOOLEAN, present : BOOLEAN, last_seen : Int, error : BOOLEAN]
      <4>1. old # NoRow
        BY <3>1 DEF NoRow
      <4> QED BY <3>1, <4>1 DEF CamRows
    <3>3. seen.known => seen = presence_from(Snapshot)
      <4>1. seen \in {[known |-> FALSE]} \cup {presence_from(Snapshot)}
        BY DEF Answers
      <4> QED BY <4>1
    <3>4. presence_from(Snapshot).present \in BOOLEAN
      BY DEF presence_from, Snapshot
    <3>5. ASSUME seen.known, seen.seen
          PROVE  seen.id = rcam.id /\ rcam.id # Nothing /\ seen.last_seen = rcam.at
      <4>1. seen.id = rcam.id /\ rcam.id # Nothing /\ seen.last_seen = vnow - (vnow - rcam.at)
        <5>1. presence_from(Snapshot).id = rcam.id /\ presence_from(Snapshot).last_seen = vnow - (vnow - rcam.at)
          BY DEF presence_from, Snapshot
        <5>2. presence_from(Snapshot).seen = (rcam.id # Nothing)
          BY DEF presence_from, Snapshot
        <5> QED BY <3>3, <3>5, <5>1, <5>2
      <4>2. rcam.at \in Nat
        BY <4>1 DEF ViewInv, BenchSound
      <4> QED BY <1>2, <4>1, <4>2
    <3>6. /\ new.there = TRUE /\ new.id = published /\ new.connected = up
          /\ new.last_seen = IF up THEN vnow ELSE IF seen.known /\ seen.id = old.id /\ seen.seen THEN seen.last_seen
                             ELSE old.last_seen
          /\ new.present = IF up THEN TRUE ELSE IF seen.known /\ seen.id = old.id THEN seen.present ELSE old.present
          /\ new.error = (old.error \/ (up /\ read))
          /\ DOMAIN new = DOMAIN old
      <4> HIDE DEF old
      <4> QED BY <3>2 DEF Refreshed, apply_presence
    <3>7. new.last_seen \in Int /\ new.last_seen <= contact[published]
      <4>1. CASE up
        <5>1. held = published
          BY <3>2, <4>1
        <5>2. contact[published] = vnow
          BY <2>2, <5>1 DEF ViewInv, SyncSound
        <5> HIDE DEF old, new
        <5> QED BY <1>2, <3>6, <4>1, <5>2
      <4>2. CASE ~up /\ seen.known /\ seen.id = old.id /\ seen.seen
        <5>1. rcam.at \in Nat /\ rcam.at <= contact[rcam.id] /\ rcam.id = published
          BY <3>2, <3>5, <4>2 DEF ViewInv, BenchSound
        <5> QED BY <3>5, <3>6, <4>2, <5>1
      <4>3. CASE ~up /\ ~(seen.known /\ seen.id = old.id /\ seen.seen)
        BY <3>1, <3>2, <3>6, <4>3
      <4> QED BY <4>1, <4>2, <4>3
    <3>8. new \in CamRows(published)
      <4>1. new.present \in BOOLEAN /\ new.error \in BOOLEAN /\ new.connected \in BOOLEAN
        BY <3>2, <3>3, <3>4, <3>6
      <4>2. new = [there |-> TRUE, id |-> published, connected |-> new.connected, present |-> new.present,
                   last_seen |-> new.last_seen, error |-> new.error]
        <5> HIDE DEF old
        <5> QED BY <3>2, <3>6 DEF Refreshed, apply_presence
      <4> HIDE DEF new
      <4>3. [there |-> TRUE, id |-> published, connected |-> new.connected, present |-> new.present,
             last_seen |-> new.last_seen, error |-> new.error] \in CamRows(published)
        BY <3>7, <4>1, CamRowTyped
      <4> QED BY <4>2, <4>3
    <3>9. new.connected => contact[published] = vnow
      BY <2>2, <3>2, <3>6 DEF ViewInv, SyncSound
    <3> HIDE DEF new
    <3>10. st'[published] = new /\ DOMAIN st' = scene.cams /\ \A d \in scene.cams \ {published} : st'[d] = st[d]
      BY <3>1 DEF new, ViewInv, SyncSound, StatusSound
    <3>11. StatusSound(st', contact)
      BY <3>1, <3>7, <3>8, <3>10 DEF ViewInv, SyncSound, StatusSound
    <3>12. HeldSince(st', published, contact, vnow)
      BY <1>2, <3>9, <3>10 DEF HeldSince
    <3> QED BY <3>6, <3>10, <3>11, <3>12 DEF new
  <2> QED BY <2>1, <2>2
<1> QED BY <1>1, <1>2, <1>3 DEF ViewInv, WorldSound, BenchSound, SyncSound, PageSound, StatusSound, HeldSince, Photograph, DeviceSound,
                    WatchedSound, Contacts

-----------------------------------------------------------------------------
(* The polls *)

LEMMA SnapshotSound == ASSUME ViewInv PROVE Photograph(Snapshot, contact)
<1> DEFINE listed == {j \in scene.keys : reg[j].at > 0}
<1>1. scene \in Scenes
  BY DEF ViewInv, WorldSound
<1>2. Snapshot.device = {Listed(k) : k \in listed}
  BY DEF Snapshot
<1>3. IsFiniteSet(listed)
  BY <1>1, DeviceViewAssumption, FS_Subset DEF DeviceViewAssumption
<1>4. IsFiniteSet(Snapshot.device)
  <2> DEFINE list == [k \in listed |-> Listed(k)]
  <2>1. list \in Surjection(listed, Snapshot.device)
    <3> HIDE DEF listed
    <3> QED BY <1>2 DEF Surjection
  <2> HIDE DEF listed, list
  <2> QED BY <1>3, <2>1, FS_Surjection
<1>5. ASSUME NEW k \in listed
      PROVE  KeyOf(Listed(k)) = k /\ DeviceSound(Listed(k), contact)
  <2>1. k \in [radio : {j.radio : j \in scene.keys}, box : {j.box : j \in scene.keys}]
    BY <1>1, DeviceViewAssumption DEF DeviceViewAssumption
  <2>2. k = [radio |-> k.radio, box |-> k.box]
    BY <2>1
  <2>3. Listed(k).id = k.box /\ Listed(k).radio = k.radio /\ Listed(k).last = reg[k].at
        /\ Listed(k).median = clock[k.box] + IF k.radio = Local THEN 0 ELSE DongleBase
    BY DEF Listed
  <2>4. KeyOf(Listed(k)) = k
    BY <2>2, <2>3 DEF KeyOf
  <2>5. reg[k].at \in Nat \ {0} /\ reg[k].at <= contact[k]
    BY DEF ViewInv, BenchSound
  <2> QED BY <2>3, <2>4, <2>5 DEF DeviceSound
<1>6. \A d \in Snapshot.device : DeviceSound(d, contact)
  BY <1>2, <1>5
<1>7. \A d, e \in Snapshot.device : KeyOf(d) = KeyOf(e) => d = e
  BY <1>2, <1>5
<1>8. Snapshot.camera.seen => WatchedSound(Snapshot.camera.id, contact)
  <2>1. Snapshot.camera.id = rcam.id
    BY DEF Snapshot
  <2>2. Snapshot.camera.seen = (rcam.id # Nothing)
    BY DEF Snapshot
  <2> QED BY <2>1, <2>2 DEF ViewInv, BenchSound
<1> QED BY <1>4, <1>6, <1>7, <1>8 DEF Photograph

LEMMA FetchKeeps == ASSUME ViewInv, Fetch PROVE ViewInv'
<1>1. /\ pb' \in {NoRow} \cup (IF scene.bench THEN {Snapshot} ELSE {})
      /\ poll = "fetch" /\ poll' = "query"
      /\ UNCHANGED <<vnow, scene, clock, reg, attached, rcam, held, st, published, ps, pc, contact>>
  BY DEF Fetch, worldVars, benchVars, statusVars
<1>2. pb' = NoRow \/ pb' = Snapshot
  BY <1>1
<1>3. pb'.there \in BOOLEAN /\ (pb'.there => Photograph(pb', contact))
  <2>1. NoRow.there = FALSE
    BY DEF NoRow
  <2>2. Snapshot.there = TRUE
    BY DEF Snapshot
  <2> QED BY <1>2, <2>1, <2>2, SnapshotSound
<1> QED BY <1>1, <1>3 DEF ViewInv, WorldSound, BenchSound, SyncSound, PageSound, StatusSound, HeldSince, Photograph, DeviceSound,
                    WatchedSound, Contacts

LEMMA QueryKeeps == ASSUME ViewInv, Query PROVE ViewInv'
<1>1. /\ ps' \in {NoRow} \cup {[there |-> TRUE, cameras |-> st, bench |-> has] : has \in BOOLEAN}
      /\ poll = "query" /\ poll' = "draw"
      /\ UNCHANGED <<vnow, scene, clock, reg, attached, rcam, held, st, published, pb, contact>>
  BY DEF Query, worldVars, benchVars, statusVars
<1>2. ps'.there \in BOOLEAN /\ (ps'.there => ps'.cameras = st)
  <2>1. NoRow.there = FALSE
    BY DEF NoRow
  <2>2. ps' = NoRow \/ \E has \in BOOLEAN : ps' = [there |-> TRUE, cameras |-> st, bench |-> has]
    BY <1>1
  <2>3. ASSUME NEW has \in BOOLEAN, ps' = [there |-> TRUE, cameras |-> st, bench |-> has]
        PROVE  ps'.there = TRUE /\ ps'.cameras = st
    BY <2>3
  <2>4. CASE ps' = NoRow
    BY <2>1, <2>4
  <2> QED BY <2>2, <2>3, <2>4
<1>3. HeldSince(st, published, contact, vnow) /\ StatusSound(st, contact)
  BY <1>1 DEF ViewInv, SyncSound
<1> QED BY <1>1, <1>2, <1>3 DEF ViewInv, WorldSound, BenchSound, SyncSound, PageSound, StatusSound, HeldSince, Photograph, DeviceSound,
                    WatchedSound, Contacts

LEMMA TickKeeps == ASSUME ViewInv, Tick PROVE ViewInv'
<1>1. /\ poll = "draw" /\ poll' = "refresh" /\ vnow' = vnow + 1
      /\ contact' = IF held = Nothing THEN contact ELSE [contact EXCEPT ![held] = vnow']
      /\ UNCHANGED <<scene, clock, reg, attached, rcam, held, st, published, pb, ps>>
  BY DEF Tick, worldVars, benchVars
<1>2. contact \in Contacts /\ vnow \in Nat \ {0} /\ vnow' \in Nat \ {0} /\ vnow' - 1 = vnow
      /\ \A d \in scene.cams \cup scene.keys : contact[d] <= vnow
  BY <1>1 DEF ViewInv, WorldSound
<1>3. held # Nothing => held \in scene.cams
  BY DEF ViewInv, SyncSound
<1>4. Grown(contact, contact') /\ \A d \in scene.cams \cup scene.keys : contact'[d] <= vnow'
  BY <1>1, <1>2, <1>3 DEF Grown, Contacts
<1>5. WorldSound'
  BY <1>1, <1>2, <1>4 DEF ViewInv, WorldSound, Grown, Contacts
<1>6. BenchSound'
  BY <1>1, <1>4, BenchGrows DEF ViewInv
<1>7. published # Nothing => published \in scene.cams /\ contact[published] \in Nat /\ contact'[published] \in Nat
                             /\ contact[published] <= contact'[published]
  BY <1>2, <1>4 DEF ViewInv, SyncSound, Grown, Contacts
<1>8. SyncSound'
  <2>1. StatusSound(st, contact')
    BY <1>2, <1>4, GrownKeeps DEF ViewInv, SyncSound
  <2>2. HeldSince(st, published, contact', vnow' - 1)
    BY <1>1, <1>2, <1>7 DEF ViewInv, SyncSound, HeldSince
  <2>3. held # Nothing => contact'[held] = vnow'
    BY <1>1, <1>2, <1>3 DEF Contacts
  <2> QED BY <1>1, <1>3, <2>1, <2>2, <2>3 DEF ViewInv, SyncSound, StatusSound, HeldSince
<1>9. PageSound'
  <2>1. ps.there => StatusSound(ps.cameras, contact')
    BY <1>2, <1>4, GrownKeeps DEF ViewInv, PageSound
  <2>2. pb.there => Photograph(pb, contact')
    BY <1>2, <1>4, GrownKeeps DEF ViewInv, PageSound
  <2>3. ps.there => HeldSince(ps.cameras, published, contact', vnow' - 1)
    BY <1>1, <1>2, <1>7 DEF ViewInv, PageSound, HeldSince
  <2> QED BY <1>1, <2>1, <2>2, <2>3 DEF ViewInv, PageSound, StatusSound, HeldSince, Photograph, DeviceSound, WatchedSound
<1> QED BY <1>5, <1>6, <1>8, <1>9 DEF ViewInv

LEMMA ViewStep == ASSUME ViewInv, ViewNext PROVE ViewInv'
<1>1. ASSUME NEW c \in scene.asked, NEW up \in BOOLEAN, NEW measured \in scene.reads, CycleOf(c, up, measured) PROVE ViewInv'
  <2>1. measured \in BOOLEAN
    BY DeviceViewAssumption DEF DeviceViewAssumption, ViewInv, WorldSound
  <2> QED BY <1>1, <2>1, CycleKeeps
<1> QED BY <1>1, HearBoxKeeps, HearCamKeeps, BenchKeeps, LinkDropsKeeps, RefreshKeeps, SyncRestartsKeeps, FetchKeeps, QueryKeeps,
           TickKeeps DEF ViewNext

LEMMA ViewAlways == Spec => []ViewInv
<1>1. Init => ViewInv
  BY ViewInitInv DEF Init
<1>2. ViewInv /\ [Next]_vars => ViewInv'
  <2> SUFFICES ASSUME ViewInv, [Next]_vars PROVE ViewInv'
    OBVIOUS
  <2>1. CASE ViewNext
    BY <2>1, ViewStep
  <2>2. CASE UNCHANGED viewVars
    <3>1. UNCHANGED <<vnow, scene, clock, reg, attached, rcam, held, st, published, pb, ps, pc, poll, contact>>
      BY <2>2 DEF viewVars, worldVars, benchVars, statusVars, pageVars
    <3> QED BY <3>1 DEF ViewInv, WorldSound, BenchSound, SyncSound, PageSound, StatusSound, HeldSince, Photograph, DeviceSound,
                        WatchedSound, Contacts
  <2> QED BY <2>1, <2>2 DEF Next, vars
<1> QED BY <1>1, <1>2, PTL DEF Spec

-----------------------------------------------------------------------------
(* The rows *)

LEMMA BoxRowIs ==
    ASSUME NEW d
    PROVE  /\ BoxRow(d).kind = "box" /\ BoxRow(d).id = d.id /\ BoxRow(d).radio = d.radio
           /\ BoxRow(d).link = (IF d.live THEN "on" ELSE "off")
           /\ BoxRow(d).has_age = TRUE /\ BoxRow(d).age = age_from(d.last, d.age)
BY DEF BoxRow, Row

LEMMA CamRowIs ==
    ASSUME NEW c
    PROVE  /\ CamRow(c).kind = "camera" /\ CamRow(c).id = c.id
           /\ CamRow(c).link = (IF c.connected THEN "held" ELSE IF c.present THEN "on" ELSE "off")
           /\ CamRow(c).has_age = TRUE /\ CamRow(c).age = Later(0, vnow - c.last_seen)
           /\ CamRow(c).has_offset = (has_canonical /\ c.error /\ link_is_live(CamRow(c).link))
BY DEF CamRow, Row

BenchRow == [Row("camera", pb.camera.id, "bench", IF pb.camera.present THEN "on" ELSE "unknown") EXCEPT
                !.has_age = TRUE, !.age = pb.camera.age]
ConfRow(c) == Row("camera", c, "conf", IF ps.there THEN "off" ELSE "unknown")

LEMMA BenchRowIs ==
    /\ BenchRow.kind = "camera" /\ BenchRow.id = pb.camera.id /\ BenchRow.link \in {"on", "unknown"}
    /\ BenchRow.has_offset = FALSE /\ BenchRow.stale = FALSE
BY DEF BenchRow, Row

LEMMA ConfRowIs ==
    ASSUME NEW c
    PROVE  /\ ConfRow(c).kind = "camera" /\ ConfRow(c).id = c /\ ConfRow(c).link \in {"off", "unknown"}
           /\ ConfRow(c).has_age = FALSE /\ ConfRow(c).has_offset = FALSE /\ ConfRow(c).stale = FALSE
BY DEF ConfRow, Row

\* Which rows there are, by the sources.
Watches(c) == pb.there /\ pb.camera.seen /\ pb.camera.id = c /\ c \notin Published

LEMMA RowsAre ==
    ASSUME ViewInv, NEW r \in Rows
    PROVE  \/ pb.there /\ \E d \in pb.device : r = BoxRow(d)
           \/ \E c \in Published : camera_is_enabled(c) /\ r = CamRow(ps.cameras[c])
           \/ \E c : Watches(c) /\ camera_is_enabled(c) /\ r = BenchRow
           \/ pc.there /\ \E c \in pc.cams : /\ c \notin Published /\ ~Watches(c) /\ camera_is_enabled(c)
                                             /\ r = ConfRow(c)
<1>1. CASE r \in BoxRows
  BY <1>1 DEF BoxRows
<1>2. CASE r \in SyncRows
  BY <1>2 DEF SyncRows
<1>3. CASE r \in BenchCamRows
  BY <1>3 DEF BenchCamRows, BenchRow, Watches
<1>4. CASE r \in ConfRows
  <2>1. pc.there
    BY <1>4 DEF ConfRows
  <2>2. PICK c \in pc.cams : /\ c \notin Published /\ c \notin {b.id : b \in BenchCamRows}
                             /\ camera_is_enabled(c) /\ r = ConfRow(c)
    BY <1>4, <2>1 DEF ConfRows, ConfRow
  <2>3. Watches(c) => BenchCamRows = {BenchRow}
    BY <2>2 DEF Watches, BenchCamRows, BenchRow
  <2>4. ~Watches(c)
    BY <2>2, <2>3, BenchRowIs DEF Watches
  <2> QED BY <2>1, <2>2, <2>4
<1> QED BY <1>1, <1>2, <1>3, <1>4 DEF Rows

\* A camera octomancer-sync lists has been heard, and the row says which it is.
LEMMA PublishedIs ==
    ASSUME ViewInv, NEW c \in Published
    PROVE  /\ c \in scene.cams /\ contact[c] >= 1 /\ contact[c] \in Nat /\ contact[c] <= vnow
           /\ ps.there /\ ps.cameras[c].id = c /\ ps.cameras[c].connected \in BOOLEAN
           /\ ps.cameras[c].last_seen \in Int /\ ps.cameras[c].last_seen <= contact[c]
<1>1. ps.there /\ c \in scene.cams /\ ps.cameras[c].there
  BY DEF Published
<1>2. StatusSound(ps.cameras, contact)
  BY <1>1 DEF ViewInv, PageSound
<1>3. ps.cameras[c] \in CamRows(c) /\ contact[c] >= 1 /\ ps.cameras[c].last_seen <= contact[c]
  BY <1>1, <1>2 DEF StatusSound
<1>4. ps.cameras[c] # NoRow
  <2>1. NoRow.there = FALSE
    BY DEF NoRow
  <2> QED BY <1>1, <2>1
<1>5. contact[c] \in Nat /\ contact[c] <= vnow
  BY <1>1 DEF ViewInv, WorldSound, Contacts
<1> QED BY <1>1, <1>3, <1>4, <1>5 DEF CamRows

LEMMA WatchedIs ==
    ASSUME ViewInv, NEW c, Watches(c)
    PROVE  c \in scene.cams /\ contact[c] >= 1
BY DEF ViewInv, PageSound, Photograph, WatchedSound, Watches

LEMMA NoRowSwitchedOff ==
    ASSUME ViewInv, NEW c, ~camera_is_enabled(c)
    PROVE  {r \in Rows : r.kind = "camera" /\ r.id = c} = {}
<1> SUFFICES ASSUME NEW r \in Rows, r.kind = "camera", r.id = c PROVE FALSE
  OBVIOUS
<1>1. ASSUME pb.there, NEW d \in pb.device, r = BoxRow(d) PROVE FALSE
  BY <1>1, BoxRowIs
<1>2. ASSUME NEW e \in Published, camera_is_enabled(e), r = CamRow(ps.cameras[e]) PROVE FALSE
  BY <1>2, PublishedIs, CamRowIs
<1>3. ASSUME NEW e, Watches(e), camera_is_enabled(e), r = BenchRow PROVE FALSE
  BY <1>3, BenchRowIs DEF Watches
<1>4. ASSUME NEW e \in pc.cams, camera_is_enabled(e), r = ConfRow(e) PROVE FALSE
  BY <1>4, ConfRowIs
<1> QED BY <1>1, <1>2, <1>3, <1>4, RowsAre

\* The row of a listed camera that is enabled, and that there is no other.
LEMMA ListedCameraRow ==
    ASSUME ViewInv, pc.there, NEW c \in pc.cams, camera_is_enabled(c)
    PROVE  {r \in Rows : r.kind = "camera" /\ r.id = c} =
              {IF c \in Published THEN CamRow(ps.cameras[c]) ELSE IF Watches(c) THEN BenchRow ELSE ConfRow(c)}
<1> DEFINE its == {r \in Rows : r.kind = "camera" /\ r.id = c}
<1>0. \A e \in Published : ps.cameras[e].id = e
  BY PublishedIs
<1>1. ASSUME NEW r \in Rows, r.kind = "camera", r.id = c
      PROVE  \/ c \in Published /\ r = CamRow(ps.cameras[c])
             \/ Watches(c) /\ r = BenchRow
             \/ c \notin Published /\ ~Watches(c) /\ r = ConfRow(c)
  <2>1. ASSUME pb.there, NEW d \in pb.device, r = BoxRow(d) PROVE FALSE
    BY <1>1, <2>1, BoxRowIs
  <2>2. ASSUME NEW e \in Published, r = CamRow(ps.cameras[e]) PROVE c \in Published /\ r = CamRow(ps.cameras[c])
    <3>1. CamRow(ps.cameras[e]).id = ps.cameras[e].id
      BY CamRowIs
    <3>2. e = c
      BY <1>0, <1>1, <2>2, <3>1
    <3> QED BY <2>2, <3>2
  <2>3. ASSUME NEW e, Watches(e), r = BenchRow PROVE Watches(c) /\ r = BenchRow
    BY <1>1, <2>3, BenchRowIs DEF Watches
  <2>4. ASSUME NEW e \in pc.cams, e \notin Published, ~Watches(e), r = ConfRow(e)
        PROVE  c \notin Published /\ ~Watches(c) /\ r = ConfRow(c)
    BY <1>1, <2>4, ConfRowIs
  <2> QED BY <1>1, <2>1, <2>2, <2>3, <2>4, RowsAre
<1>2. CASE c \in Published
  <2>1. CamRow(ps.cameras[c]) \in Rows
    BY <1>2 DEF Rows, SyncRows
  <2>2. CamRow(ps.cameras[c]).kind = "camera" /\ CamRow(ps.cameras[c]).id = c
    BY <1>0, <1>2, CamRowIs
  <2>3. ~Watches(c)
    BY <1>2 DEF Watches
  <2> QED BY <1>1, <1>2, <2>1, <2>2, <2>3
<1>3. CASE Watches(c)
  <2>1. c \notin Published
    BY <1>3 DEF Watches
  <2>2. BenchRow \in Rows
    BY <1>3, <2>1 DEF Rows, BenchCamRows, BenchRow, Watches
  <2>3. BenchRow.kind = "camera" /\ BenchRow.id = c
    BY <1>3, BenchRowIs DEF Watches
  <2> QED BY <1>1, <1>3, <2>1, <2>2, <2>3
<1>4. CASE c \notin Published /\ ~Watches(c)
  <2>1. c \notin {b.id : b \in BenchCamRows}
    <3>1. ASSUME NEW b \in BenchCamRows, b.id = c PROVE FALSE
      <4>1. pb.there /\ pb.camera.seen /\ b = BenchRow
        BY <3>1 DEF BenchCamRows, BenchRow
      <4> QED BY <1>4, <3>1, <4>1, BenchRowIs DEF Watches
    <3> QED BY <3>1
  <2>2. ConfRow(c) \in Rows
    BY <1>4, <2>1 DEF Rows, ConfRows, ConfRow
  <2>3. ConfRow(c).kind = "camera" /\ ConfRow(c).id = c
    BY ConfRowIs
  <2> QED BY <1>1, <1>4, <2>2, <2>3
<1> QED BY <1>2, <1>3, <1>4

\* Whatever the two daemons say of it, or fail to, a listed camera that is
\* enabled is on the page once, one that is switched off is not, and one that
\* nobody has heard is never drawn without the warning somebody asked for.
THEOREM EveryListedCameraIsDrawn == Spec => []EveryCameraHasItsRow
<1>1. ViewInv => EveryCameraHasItsRow
  <2> SUFFICES ASSUME ViewInv, pc.there, NEW c \in pc.cams
               PROVE  LET its == {r \in Rows : r.kind = "camera" /\ r.id = c}
                      IN  /\ Cardinality(its) = IF camera_is_enabled(c) THEN 1 ELSE 0
                          /\ c \notin scene.cams \/ contact[c] = 0
                                => \A r \in its : r.id \in pc.warn => ~Unwarned(r)
    BY DEF EveryCameraHasItsRow
  <2> DEFINE its == {r \in Rows : r.kind = "camera" /\ r.id = c}
  <2>1. CASE camera_is_enabled(c)
    <3>1. its = {IF c \in Published THEN CamRow(ps.cameras[c]) ELSE IF Watches(c) THEN BenchRow ELSE ConfRow(c)}
      BY <2>1, ListedCameraRow
    <3>2. Cardinality(its) = 1
      BY <3>1, FS_Singleton
    <3>3. ASSUME c \notin scene.cams \/ contact[c] = 0, NEW r \in its, r.id \in pc.warn PROVE ~Unwarned(r)
      <4>1. c \notin Published
        BY <3>3, PublishedIs
      <4>2. ~Watches(c)
        BY <3>3, WatchedIs
      <4>3. r = ConfRow(c)
        BY <3>1, <3>3, <4>1, <4>2
      <4>4. r.link # "held" /\ r.has_age = FALSE
        BY <4>3, ConfRowIs
      <4> QED BY <3>3, <4>4 DEF Unwarned, warn_level_for, warned
    <3> QED BY <2>1, <3>2, <3>3
  <2>2. CASE ~camera_is_enabled(c)
    <3>1. its = {}
      BY <2>2, NoRowSwitchedOff
    <3>2. Cardinality(its) = 0
      BY <3>1, FS_EmptySet
    <3> QED BY <2>2, <3>1, <3>2
  <2> QED BY <2>1, <2>2
<1> QED BY <1>1, ViewAlways, PTL

-----------------------------------------------------------------------------
(* The median: there is one, and it moves with the readings *)

LessThan == {ss \in Nat \X Nat : ss[1] < ss[2]}

LEMMA LeastNatural == ASSUME NEW S, S \subseteq Nat, S # {} PROVE \E x \in S : \A y \in S : x <= y
<1>1. IsWellFoundedOn(LessThan, Nat)
  BY NatLessThanWellFounded, Zenon DEF OpToRel, LessThan
<1>2. PICK x \in S : \A y \in S : ~(<<y, x>> \in LessThan)
  BY <1>1, WFMin, Zenon
<1>3. \A y \in S : ~(y < x)
  BY <1>2 DEF LessThan
<1> QED BY <1>3

Readings(S) == IsFiniteSet(S) /\ \A d \in S : d.median \in Int
Below(S, v) == {d \in S : d.median < v}
UpTo(S, v) == {d \in S : d.median <= v}
IsNth(S, n, v) ==
    v \in {d.median : d \in S} /\ Cardinality(Below(S, v)) <= n /\ Cardinality(UpTo(S, v)) > n

LEMMA PartsAreFinite ==
    ASSUME NEW S, Readings(S), NEW v
    PROVE  /\ IsFiniteSet(Below(S, v)) /\ IsFiniteSet(UpTo(S, v))
           /\ Cardinality(Below(S, v)) \in Nat /\ Cardinality(UpTo(S, v)) \in Nat
<1>1. Below(S, v) \in SUBSET S /\ UpTo(S, v) \in SUBSET S
  BY DEF Below, UpTo
<1>2. IsFiniteSet(S)
  BY DEF Readings
<1>3. IsFiniteSet(Below(S, v)) /\ IsFiniteSet(UpTo(S, v))
  BY <1>1, <1>2, FS_Subset
<1> QED BY <1>3, FS_CardinalityType

\* More readings are below the greater of two.
LEMMA MoreUpTo ==
    ASSUME NEW S, Readings(S), NEW a \in S, NEW b \in S, a.median < b.median
    PROVE  /\ Cardinality(UpTo(S, a.median)) < Cardinality(UpTo(S, b.median))
           /\ Cardinality(UpTo(S, a.median)) <= Cardinality(Below(S, b.median))
<1> DEFINE A == UpTo(S, a.median)
           B == UpTo(S, b.median)
           C == Below(S, b.median)
<1>1. \A d \in S : d.median \in Int
  BY DEF Readings
<1>2. A \in SUBSET B /\ A \in SUBSET C /\ b \in B /\ b \notin A
  BY <1>1 DEF UpTo, Below
<1>3. IsFiniteSet(B) /\ IsFiniteSet(C) /\ Cardinality(A) \in Nat /\ Cardinality(B) \in Nat /\ Cardinality(C) \in Nat
  BY PartsAreFinite
<1>4. Cardinality(A) <= Cardinality(B) /\ (Cardinality(A) = Cardinality(B) => A = B)
  <2> HIDE DEF A, B, C
  <2> QED BY <1>2, <1>3, FS_Subset
<1>5. Cardinality(A) <= Cardinality(C)
  <2> HIDE DEF A, B, C
  <2> QED BY <1>2, <1>3, FS_Subset
<1>6. A # B
  BY <1>2
<1> HIDE DEF A, B, C
<1>7. Cardinality(A) < Cardinality(B)
  BY <1>3, <1>4, <1>6
<1> QED BY <1>5, <1>7 DEF A, B, C

LEMMA GreatestReading ==
    ASSUME NEW S, Readings(S), S # {}
    PROVE  \E a \in S : \A d \in S : d.median <= a.median
<1> DEFINE size == Cardinality(S)
           after(d) == size - Cardinality(UpTo(S, d.median))
           G == {after(d) : d \in S}
<1>1. size \in Nat /\ \A d \in S : d.median \in Int
  BY FS_CardinalityType DEF Readings
<1>2. ASSUME NEW d \in S PROVE after(d) \in Nat
  <2>1. UpTo(S, d.median) \in SUBSET S
    BY DEF UpTo
  <2>2. Cardinality(UpTo(S, d.median)) <= size
    BY <2>1, FS_Subset DEF Readings
  <2>3. Cardinality(UpTo(S, d.median)) \in Nat
    BY PartsAreFinite
  <2> HIDE DEF size
  <2> QED BY <1>1, <2>2, <2>3
<1>3. G \subseteq Nat /\ G # {}
  <2> HIDE DEF after
  <2> QED BY <1>2
<1>4. PICK g \in G : \A h \in G : g <= h
  <2> HIDE DEF G
  <2> QED BY <1>3, LeastNatural, Zenon
<1>5. PICK a \in S : after(a) = g
  OBVIOUS
<1>6. ASSUME NEW d \in S, a.median < d.median PROVE FALSE
  <2>1. Cardinality(UpTo(S, a.median)) < Cardinality(UpTo(S, d.median))
    BY <1>6, MoreUpTo
  <2>2. Cardinality(UpTo(S, a.median)) \in Nat /\ Cardinality(UpTo(S, d.median)) \in Nat
    BY PartsAreFinite
  <2>3. after(a) <= after(d)
    BY <1>4, <1>5
  <2> HIDE DEF size
  <2> QED BY <1>1, <2>1, <2>2, <2>3
<1> QED BY <1>1, <1>6

LEMMA NthExists ==
    ASSUME NEW S, Readings(S), NEW n \in Nat, n < Cardinality(S)
    PROVE  \E v \in Int : IsNth(S, n, v)
<1> DEFINE E == {d \in S : Cardinality(UpTo(S, d.median)) > n}
           count(d) == Cardinality(UpTo(S, d.median))
           G == {count(d) : d \in E}
<1>1. \A d \in S : d.median \in Int /\ count(d) \in Nat
  BY PartsAreFinite DEF Readings
<1>2. S # {}
  BY FS_EmptySet
<1>3. PICK top \in S : \A d \in S : d.median <= top.median
  BY <1>2, GreatestReading
<1>4. UpTo(S, top.median) = S
  BY <1>3 DEF UpTo
<1>5. top \in E
  BY <1>4
<1>6. G \subseteq Nat /\ G # {}
  <2> HIDE DEF count
  <2> QED BY <1>1, <1>5
<1>7. PICK g \in G : \A h \in G : g <= h
  <2> HIDE DEF G
  <2> QED BY <1>6, LeastNatural, Zenon
<1>8. PICK a \in E : count(a) = g
  OBVIOUS
<1>9. Cardinality(Below(S, a.median)) <= n
  <2> SUFFICES ASSUME Cardinality(Below(S, a.median)) > n PROVE FALSE
    BY PartsAreFinite
  <2> DEFINE L == Below(S, a.median)
  <2>1. L \in SUBSET S /\ IsFiniteSet(L) /\ Readings(L)
    BY PartsAreFinite DEF Readings, Below
  <2>2. L # {}
    <3> HIDE DEF L
    <3>1. Cardinality({}) = 0
      BY FS_EmptySet
    <3> QED BY <3>1 DEF L
  <2>3. PICK b \in L : \A d \in L : d.median <= b.median
    <3> HIDE DEF L
    <3> QED BY <2>1, <2>2, GreatestReading
  <2>4. b \in S /\ b.median < a.median
    BY DEF Below
  <2>5. UpTo(S, b.median) = L
    <3>1. a \in S /\ a.median \in Int /\ b.median \in Int /\ \A d \in S : d.median \in Int
      BY <1>1, <2>4
    <3>2. \A d \in S : d.median <= b.median <=> d \in L
      <4>1. \A d \in S : d \in L <=> d.median < a.median
        BY DEF Below
      <4> HIDE DEF L
      <4> QED BY <2>3, <2>4, <3>1, <4>1
    <3> HIDE DEF L
    <3> QED BY <2>1, <3>2 DEF UpTo
  <2>6. b \in E
    BY <2>4, <2>5
  <2>7. count(b) < count(a)
    BY <2>4, MoreUpTo
  <2>8. count(a) <= count(b)
    BY <1>7, <1>8, <2>6
  <2> HIDE DEF count
  <2> QED BY <1>1, <2>4, <2>7, <2>8
<1> QED BY <1>1, <1>8, <1>9 DEF IsNth

LEMMA NthIsOne ==
    ASSUME NEW S, Readings(S), NEW n \in Nat, NEW v, NEW w, IsNth(S, n, v), IsNth(S, n, w)
    PROVE  v = w
<1>1. PICK a \in S : a.median = v
  BY DEF IsNth
<1>2. PICK b \in S : b.median = w
  BY DEF IsNth
<1>3. a.median \in Int /\ b.median \in Int
  BY DEF Readings
<1>4. ~(a.median < b.median)
  <2>1. Cardinality(UpTo(S, v)) \in Nat /\ Cardinality(Below(S, w)) \in Nat
    BY PartsAreFinite
  <2> QED BY <1>1, <1>2, <2>1, MoreUpTo DEF IsNth
<1>5. ~(b.median < a.median)
  <2>1. Cardinality(UpTo(S, w)) \in Nat /\ Cardinality(Below(S, v)) \in Nat
    BY PartsAreFinite
  <2> QED BY <1>1, <1>2, <2>1, MoreUpTo DEF IsNth
<1> QED BY <1>1, <1>2, <1>3, <1>4, <1>5

LEMMA NthIs == ASSUME NEW S, Readings(S), NEW n \in Nat, NEW v, IsNth(S, n, v) PROVE Nth(S, n) = v
<1>1. Nth(S, n) = CHOOSE w \in {d.median : d \in S} :
                     Cardinality(Below(S, w)) <= n /\ Cardinality(UpTo(S, w)) > n
  BY DEF Nth, Below, UpTo
<1>2. v \in {d.median : d \in S} /\ Cardinality(Below(S, v)) <= n /\ Cardinality(UpTo(S, v)) > n
  BY DEF IsNth
<1>3. IsNth(S, n, Nth(S, n))
  BY <1>1, <1>2 DEF IsNth
<1> QED BY <1>3, NthIsOne

\* The same readings, each moved by as much.
Moved(S, T, f, by) ==
    /\ f \in [S -> T]
    /\ \A d, e \in S : f[d] = f[e] => d = e
    /\ \A t \in T : \E d \in S : f[d] = t
    /\ \A d \in S : d.median = f[d].median + by

LEMMA SameSize ==
    ASSUME NEW S, IsFiniteSet(S), NEW T, NEW f \in [S -> T],
           \A d, e \in S : f[d] = f[e] => d = e, \A t \in T : \E d \in S : f[d] = t
    PROVE  IsFiniteSet(T) /\ Cardinality(T) = Cardinality(S)
<1>1. f \in Bijection(S, T)
  BY Fun_IsBij
<1>2. ExistsBijection(S, T)
  BY <1>1 DEF ExistsBijection
<1> QED BY <1>2, FS_Bijection

LEMMA PartsMove ==
    ASSUME NEW S, NEW T, NEW f, NEW by \in Int, Readings(S), Readings(T), Moved(S, T, f, by), NEW v \in Int
    PROVE  /\ Cardinality(Below(T, v)) = Cardinality(Below(S, v + by))
           /\ Cardinality(UpTo(T, v)) = Cardinality(UpTo(S, v + by))
<1>1. \A d \in S : d.median \in Int /\ f[d] \in T /\ f[d].median \in Int /\ d.median = f[d].median + by
  BY DEF Moved, Readings
<1>2. \A d \in S : (d \in Below(S, v + by) <=> f[d] \in Below(T, v)) /\ (d \in UpTo(S, v + by) <=> f[d] \in UpTo(T, v))
  <2> SUFFICES ASSUME NEW d \in S
               PROVE  (d.median < v + by <=> f[d].median < v) /\ (d.median <= v + by <=> f[d].median <= v)
    BY <1>1 DEF Below, UpTo
  <2> QED BY <1>1
<1>3. ASSUME NEW A \in SUBSET S, NEW B \in SUBSET T, \A d \in S : d \in A <=> f[d] \in B
      PROVE  Cardinality(B) = Cardinality(A)
  <2> DEFINE g == [d \in A |-> f[d]]
  <2>1. g \in [A -> B]
    BY <1>3
  <2>2. \A d, e \in A : g[d] = g[e] => d = e
    BY DEF Moved
  <2>3. \A t \in B : \E d \in A : g[d] = t
    BY <1>3 DEF Moved
  <2>4. IsFiniteSet(A)
    BY FS_Subset DEF Readings
  <2> HIDE DEF g
  <2> QED BY <2>1, <2>2, <2>3, <2>4, SameSize
<1>4. /\ Below(S, v + by) \in SUBSET S /\ UpTo(S, v + by) \in SUBSET S
      /\ Below(T, v) \in SUBSET T /\ UpTo(T, v) \in SUBSET T
  BY DEF Below, UpTo
<1> QED BY <1>2, <1>3, <1>4

LEMMA NthMoves ==
    ASSUME NEW S, NEW T, NEW f, NEW by \in Int, Readings(S), Readings(T), Moved(S, T, f, by),
           NEW n \in Nat, n < Cardinality(S)
    PROVE  Nth(T, n) \in Int /\ Nth(S, n) = Nth(T, n) + by
<1>1. Cardinality(T) = Cardinality(S)
  BY SameSize DEF Moved, Readings
<1>2. PICK v \in Int : IsNth(T, n, v)
  BY <1>1, NthExists
<1>3. PICK t \in T : t.median = v
  BY <1>2 DEF IsNth
<1>4. PICK d \in S : f[d] = t
  BY DEF Moved
<1>5. d.median = v + by
  BY <1>3, <1>4 DEF Moved
<1>6. IsNth(S, n, v + by)
  BY <1>2, <1>5, PartsMove DEF IsNth
<1>7. Nth(T, n) = v
  BY <1>2, NthIs
<1>8. Nth(S, n) = v + by
  BY <1>6, NthIs
<1> QED BY <1>7, <1>8

LEMMA MedianMoves ==
    ASSUME NEW S, NEW T, NEW f, NEW by \in Int, Readings(S), Readings(T), Moved(S, T, f, by), S # {}
    PROVE  Median2(T) \in Int /\ Median2(S) = Median2(T) + 2 * by
<1> DEFINE n == Cardinality(S)
<1>1. n \in Nat /\ n # 0
  BY FS_CardinalityType, FS_EmptySet DEF Readings
<1>2. Cardinality(T) = n
  BY SameSize DEF Moved, Readings
<1> HIDE DEF n
<1>3. /\ (n - 1) \div 2 \in Nat /\ (n - 1) \div 2 < n
      /\ n \div 2 \in Nat /\ n \div 2 < n
  BY <1>1
<1>4. /\ Nth(T, (n - 1) \div 2) \in Int /\ Nth(S, (n - 1) \div 2) = Nth(T, (n - 1) \div 2) + by
      /\ Nth(T, n \div 2) \in Int /\ Nth(S, n \div 2) = Nth(T, n \div 2) + by
  BY <1>3, NthMoves DEF n
<1>5. /\ Median2(S) = Nth(S, (n - 1) \div 2) + Nth(S, n \div 2)
      /\ Median2(T) = Nth(T, (n - 1) \div 2) + Nth(T, n \div 2)
  BY <1>2 DEF Median2, n
<1> QED BY <1>4, <1>5

-----------------------------------------------------------------------------
(* What a row says *)

\* The voters of a radio, and their own clocks, are the same boxes.
LEMMA VotersMove ==
    ASSUME ViewInv, pb.there, NEW radio
    PROVE  \E f : Moved(Voters(radio), OwnClocks(radio), f, IF radio = Local THEN 0 ELSE DongleBase)
<1> DEFINE V == Voters(radio)
           own(d) == [median |-> clock[d.id], id |-> d.id]
           f == [d \in V |-> own(d)]
           by == IF radio = Local THEN 0 ELSE DongleBase
<1>1. V = {d \in pb.device : d.radio = radio /\ box_votes(d)}
  BY DEF Voters, box_votes_for
<1>2. OwnClocks(radio) = {own(d) : d \in V}
  BY <1>1 DEF OwnClocks
<1>3. ASSUME NEW d \in V, NEW e \in V, own(d) = own(e) PROVE d = e
  <2>1. own(d).id = d.id /\ own(e).id = e.id
    OBVIOUS
  <2>2. KeyOf(d) = KeyOf(e)
    BY <1>1, <1>3, <2>1 DEF KeyOf
  <2> QED BY <1>1, <2>2 DEF ViewInv, PageSound, Photograph
<1>4. ASSUME NEW d \in V PROVE d.median = own(d).median + by
  <2>1. own(d).median = clock[d.id]
    OBVIOUS
  <2>2. d.radio = radio /\ DeviceSound(d, contact)
    BY <1>1 DEF ViewInv, PageSound, Photograph
  <2> QED BY <2>1, <2>2 DEF DeviceSound
<1> HIDE DEF V, own
<1>5. Moved(V, OwnClocks(radio), f, by)
  BY <1>2, <1>3, <1>4 DEF Moved
<1> QED BY <1>5 DEF V

LEMMA ClocksAreRead ==
    ASSUME ViewInv, pb.there, NEW radio
    PROVE  /\ Readings(Voters(radio)) /\ Readings(OwnClocks(radio))
           /\ \A d \in pb.device : clock[d.id] \in Int /\ d.median \in Int
<1>1. IsFiniteSet(pb.device) /\ \A d \in pb.device : DeviceSound(d, contact)
  BY DEF ViewInv, PageSound, Photograph
<1>2. ASSUME NEW d \in pb.device PROVE clock[d.id] \in Int /\ d.median \in Int
  <2>1. KeyOf(d).box = d.id /\ KeyOf(d) \in scene.keys
    BY <1>1 DEF DeviceSound, KeyOf
  <2>2. d.id \in {k.box : k \in scene.keys}
    BY <2>1
  <2>3. clock[d.id] \in Int
    BY <2>2 DEF ViewInv, WorldSound
  <2> QED BY <1>1, <2>3, DeviceViewAssumption DEF DeviceSound, DeviceViewAssumption
<1>3. Voters(radio) \in SUBSET pb.device
  BY DEF Voters
<1>4. Readings(Voters(radio))
  BY <1>1, <1>2, <1>3, FS_Subset DEF Readings
<1>5. PICK f : Moved(Voters(radio), OwnClocks(radio), f, IF radio = Local THEN 0 ELSE DongleBase)
  BY VotersMove
<1>6. IsFiniteSet(OwnClocks(radio))
  BY <1>4, <1>5, SameSize DEF Moved, Readings
<1>7. ASSUME NEW t \in OwnClocks(radio) PROVE t.median \in Int
  <2>1. PICK d \in pb.device : t = [median |-> clock[d.id], id |-> d.id]
    BY DEF OwnClocks
  <2> QED BY <1>2, <2>1
<1> QED BY <1>2, <1>4, <1>6, <1>7 DEF Readings

LEMMA OffsetsAreOwn ==
    ASSUME ViewInv, pb.there, NEW d \in pb.device, box_is_enabled(d.id), BoxRow(d).has_offset
    PROVE  BoxRow(d).offset = 2 * clock[d.id] - Median2(OwnClocks(d.radio))
<1> DEFINE by == IF d.radio = Local THEN 0 ELSE DongleBase
           V == Voters(d.radio)
           quoted == d.time /\ IF d.radio = Local THEN has_canonical ELSE radio_view(d.radio).has_canonical
<1>1. /\ BoxRow(d).has_offset = (quoted /\ d.live)
      /\ BoxRow(d).offset = IF quoted /\ d.live THEN 2 * d.median - radio_view(d.radio).canonical ELSE 0
  BY DEF BoxRow, Row
<1>2. d.time /\ d.live /\ BoxRow(d).offset = 2 * d.median - radio_view(d.radio).canonical
  <2> HIDE DEF quoted
  <2>1. quoted /\ d.live
    BY <1>1
  <2> QED BY <1>1, <2>1 DEF quoted
<1>3. d \in V
  BY <1>2 DEF Voters, box_votes_for, box_votes
<1>4. radio_view(d.radio).canonical = Median2(V)
  BY <1>3 DEF radio_view
<1>5. PICK f : Moved(V, OwnClocks(d.radio), f, by)
  BY VotersMove
<1>6. Readings(V) /\ Readings(OwnClocks(d.radio)) /\ clock[d.id] \in Int /\ by \in Int
  BY ClocksAreRead, DeviceViewAssumption DEF DeviceViewAssumption
<1>7. d.median = clock[d.id] + by
  BY DEF ViewInv, PageSound, Photograph, DeviceSound
<1> HIDE DEF V, by
<1>8. Median2(OwnClocks(d.radio)) \in Int /\ Median2(V) = Median2(OwnClocks(d.radio)) + 2 * by
  BY <1>3, <1>5, <1>6, MedianMoves
<1> QED BY <1>2, <1>4, <1>6, <1>7, <1>8

\* A row that is drawn without the warning somebody asked for.
LEMMA UnwarnedIsRecent ==
    ASSUME ViewInv, NEW r \in Rows, Unwarned(r)
    PROVE  (r.link = "held" /\ r.id # published) \/ vnow - HeardAt(r) <= WarnSilence
<1>1. r.link # "held" => r.has_age /\ ~(r.age > WarnSilence)
  BY DEF Unwarned, warn_level_for
<1>2. r.link = "held" \/ r.has_offset \/ r.stale
  BY DEF Unwarned, warn_level_for
<1>3. WarnSilence \in Nat /\ WarnSilence >= 1 /\ vnow \in Nat
  BY DeviceViewAssumption DEF DeviceViewAssumption, ViewInv, WorldSound
<1>4. ASSUME pb.there, NEW d \in pb.device, r = BoxRow(d) PROVE vnow - HeardAt(r) <= WarnSilence
  <2>1. DeviceSound(d, contact)
    BY <1>4 DEF ViewInv, PageSound, Photograph
  <2>2. r.link # "held" /\ r.age = Later(0, vnow - d.last)
    <3>1. r.link # "held"
      BY <1>4, BoxRowIs
    <3>2. ~(d.last <= 0)
      BY <2>1 DEF DeviceSound
    <3>3. r.age = age_from(d.last, d.age)
      BY <1>4, BoxRowIs
    <3> QED BY <3>1, <3>2, <3>3 DEF age_from
  <2>3. HeardAt(r) = contact[KeyOf(d)]
    BY <1>4, BoxRowIs DEF HeardAt, KeyOf
  <2>4. contact[KeyOf(d)] \in Nat /\ d.last \in Nat /\ d.last <= contact[KeyOf(d)]
    BY <2>1 DEF DeviceSound, ViewInv, WorldSound, Contacts
  <2> QED BY <1>1, <1>3, <2>2, <2>3, <2>4 DEF Later
<1>5. ASSUME NEW c \in Published, r = CamRow(ps.cameras[c])
      PROVE  (r.link = "held" /\ r.id # published) \/ vnow - HeardAt(r) <= WarnSilence
  <2>1. r.kind = "camera" /\ r.id = c /\ HeardAt(r) = contact[c]
    BY <1>5, PublishedIs, CamRowIs DEF HeardAt
  <2>2. /\ contact[c] \in Nat /\ ps.there /\ ps.cameras[c].there
        /\ ps.cameras[c].last_seen \in Int /\ ps.cameras[c].last_seen <= contact[c]
    BY PublishedIs DEF Published
  <2>3. CASE r.link = "held" /\ c = published
    <3>1. ps.cameras[c].connected
      BY <1>5, <2>3, CamRowIs
    <3>2. published # Nothing
      BY <2>3, PublishedIs, DeviceViewAssumption DEF DeviceViewAssumption, ViewInv, WorldSound, Nothing
    <3>3. contact[c] >= vnow \/ contact[c] >= vnow - 1
      BY <2>2, <2>3, <3>1, <3>2 DEF ViewInv, PageSound, HeldSince
    <3> QED BY <1>3, <2>1, <2>2, <3>3
  <2>4. CASE r.link # "held"
    <3>1. r.age = Later(0, vnow - ps.cameras[c].last_seen)
      BY <1>5, CamRowIs
    <3> QED BY <1>1, <1>3, <2>1, <2>2, <2>4, <3>1 DEF Later
  <2> QED BY <2>1, <2>3, <2>4
<1>6. ASSUME r = BenchRow PROVE FALSE
  BY <1>2, <1>6, BenchRowIs
<1>7. ASSUME NEW c, r = ConfRow(c) PROVE FALSE
  BY <1>2, <1>7, ConfRowIs
<1> QED BY <1>4, <1>5, <1>6, <1>7, RowsAre

\* A device somebody asked to be warned about and that is drawn without a
\* warning was heard within kWarnSilence, but for a body whose link the program
\* let go of for another's; and the offset of a box is its distance from the
\* median of the boxes its radio hears, by the boxes' own clocks, wherever the
\* radio's clock started.
THEOREM RowsAreTrue == Spec => []RowsTellTheTruth
<1>1. ViewInv => RowsTellTheTruth
  <2> SUFFICES ASSUME ViewInv, NEW r \in Rows
               PROVE  /\ Unwarned(r) =>
                            (r.link = "held" /\ r.id # published) \/ vnow - HeardAt(r) <= WarnSilence
                      /\ r.kind = "box" /\ r.has_offset =>
                            r.offset = 2 * clock[r.id] - Median2(OwnClocks(r.radio))
    BY DEF RowsTellTheTruth
  <2>1. ASSUME r.kind = "box", r.has_offset PROVE r.offset = 2 * clock[r.id] - Median2(OwnClocks(r.radio))
    <3>1. pb.there /\ \E d \in pb.device : box_is_enabled(d.id) /\ r = BoxRow(d)
      <4>1. r \notin SyncRows /\ r \notin BenchCamRows /\ r \notin ConfRows
        <5>1. \A x \in SyncRows : x.kind = "camera"
          BY CamRowIs DEF SyncRows
        <5>2. \A x \in BenchCamRows : x = BenchRow
          BY DEF BenchCamRows, BenchRow
        <5>3. \A x \in ConfRows : x.kind = "camera"
          <6> SUFFICES ASSUME NEW x \in ConfRows PROVE x.kind = "camera"
            OBVIOUS
          <6>1. PICK c \in pc.cams : x = ConfRow(c)
            BY DEF ConfRows, ConfRow
          <6> QED BY <6>1, ConfRowIs
        <5> QED BY <2>1, <5>1, <5>2, <5>3, BenchRowIs
      <4>2. r \in BoxRows
        BY <4>1 DEF Rows
      <4> QED BY <4>2 DEF BoxRows
    <3>2. PICK d \in pb.device : box_is_enabled(d.id) /\ r = BoxRow(d)
      BY <3>1
    <3>3. r.id = d.id /\ r.radio = d.radio
      BY <3>2, BoxRowIs
    <3> QED BY <2>1, <3>1, <3>2, <3>3, OffsetsAreOwn
  <2> QED BY <2>1, UnwarnedIsRecent
<1> QED BY <1>1, ViewAlways, PTL

-----------------------------------------------------------------------------
(* The camera database.                                                    *)

DbLine == [t : {"camera", "write"}, v : Nat]

\* What the lines up to the n-th make of a body.
Makes(lines, n, f) ==
    f = [k \in 0..n |-> IF k = 0 THEN Blank ELSE Replayed(f[k - 1], lines[k])]

LEMMA OneMaking ==
    ASSUME NEW lines, NEW n \in Nat, NEW f, Makes(lines, n, f), NEW m \in Nat, m <= n, NEW g, Makes(lines, m, g)
    PROVE  \A k \in 0..m : f[k] = g[k]
<1> SUFFICES ASSUME {k \in 0..m : f[k] # g[k]} # {} PROVE FALSE
  OBVIOUS
<1> DEFINE odd == {k \in 0..m : f[k] # g[k]}
<1>1. PICK k \in odd : \A j \in odd : k <= j
  <2>1. odd \subseteq Nat /\ odd # {}
    OBVIOUS
  <2> HIDE DEF odd
  <2> QED BY <2>1, LeastNatural
<1>2. f[0] = Blank /\ g[0] = Blank
  BY DEF Makes
<1>3. k \in 1..m /\ k - 1 \in 0..m /\ k - 1 \notin odd
  BY <1>1, <1>2
<1>4. f[k] = Replayed(f[k - 1], lines[k]) /\ g[k] = Replayed(g[k - 1], lines[k])
  BY <1>3 DEF Makes
<1> QED BY <1>1, <1>3, <1>4

LEMMA MakingOn ==
    ASSUME NEW lines, NEW n \in Nat, NEW f, Makes(lines, n, f)
    PROVE  Makes(lines, n + 1, [k \in 0..(n + 1) |-> IF k <= n THEN f[k] ELSE Replayed(f[n], lines[n + 1])])
<1> DEFINE g == [k \in 0..(n + 1) |-> IF k <= n THEN f[k] ELSE Replayed(f[n], lines[n + 1])]
<1>1. ASSUME NEW k \in 0..(n + 1)
      PROVE  g[k] = IF k = 0 THEN Blank ELSE Replayed(g[k - 1], lines[k])
  <2>1. CASE k = 0
    BY <2>1 DEF Makes
  <2>2. CASE k \in 1..n
    <3>1. f[k] = Replayed(f[k - 1], lines[k])
      BY <2>2 DEF Makes
    <3> QED BY <2>2, <3>1
  <2>3. CASE k = n + 1
    BY <2>3
  <2> QED BY <2>1, <2>2, <2>3
<1> HIDE DEF g
<1>2. g = [k \in 0..(n + 1) |-> IF k = 0 THEN Blank ELSE Replayed(g[k - 1], lines[k])]
  <2>1. g = [k \in 0..(n + 1) |-> g[k]]
    BY DEF g
  <2> QED BY <1>1, <2>1
<1> QED BY <1>2 DEF Makes, g

LEMMA ThereIsAMaking == ASSUME NEW lines, NEW n \in Nat PROVE \E f : Makes(lines, n, f)
<1> DEFINE not == {k \in Nat : ~\E f : Makes(lines, k, f)}
<1> SUFFICES ASSUME not # {} PROVE FALSE
  OBVIOUS
<1>1. PICK k \in not : \A j \in not : k <= j
  BY LeastNatural
<1>2. Makes(lines, 0, [i \in 0..0 |-> Blank])
  BY DEF Makes
<1>3. k - 1 \in Nat /\ k - 1 \notin not
  BY <1>1, <1>2
<1>4. PICK f : Makes(lines, k - 1, f)
  BY <1>3
<1>5. \E g : Makes(lines, (k - 1) + 1, g)
  BY <1>3, <1>4, MakingOn
<1>6. (k - 1) + 1 = k
  BY <1>1
<1> QED BY <1>1, <1>5, <1>6

LEMMA ReplayedIsMade ==
    ASSUME NEW lines \in Seq(DbLine), NEW f, Makes(lines, Len(lines), f)
    PROVE  ReplayedLines(lines) = f[Len(lines)]
<1> DEFINE n == Len(lines)
           g == CHOOSE h : Makes(lines, n, h)
<1>1. ReplayedLines(lines) = g[n]
  BY DEF ReplayedLines, Makes
<1>2. Makes(lines, n, g)
  OBVIOUS
<1>3. n \in Nat
  OBVIOUS
<1> HIDE DEF g, n
<1>4. \A k \in 0..n : f[k] = g[k]
  BY <1>2, <1>3, OneMaking DEF n
<1> QED BY <1>1, <1>3, <1>4 DEF n

LEMMA ReplayedNone == ReplayedLines(<<>>) = Blank
<1>1. Makes(<<>>, 0, [i \in 0..0 |-> Blank])
  BY DEF Makes
<1> QED BY <1>1, ReplayedIsMade

LEMMA ReplayedMore ==
    ASSUME NEW lines \in Seq(DbLine), NEW line \in DbLine
    PROVE  ReplayedLines(Append(lines, line)) = Replayed(ReplayedLines(lines), line)
<1> DEFINE n == Len(lines)
           more == Append(lines, line)
<1>1. n \in Nat /\ more \in Seq(DbLine) /\ Len(more) = n + 1 /\ more[n + 1] = line /\ \A k \in 1..n : more[k] = lines[k]
  OBVIOUS
<1>2. PICK g : Makes(more, n + 1, g)
  <2>1. n + 1 \in Nat
    OBVIOUS
  <2> HIDE DEF more, n
  <2> QED BY <2>1, ThereIsAMaking
<1>3. PICK f : Makes(lines, n, f)
  BY <1>1, ThereIsAMaking
<1>4. Makes(more, n, f)
  <2>1. f = [k \in 0..n |-> IF k = 0 THEN Blank ELSE Replayed(f[k - 1], lines[k])]
    BY <1>3 DEF Makes
  <2>2. \A k \in 0..n : (IF k = 0 THEN Blank ELSE Replayed(f[k - 1], lines[k]))
                         = (IF k = 0 THEN Blank ELSE Replayed(f[k - 1], more[k]))
    BY <1>1
  <2>3. [k \in 0..n |-> IF k = 0 THEN Blank ELSE Replayed(f[k - 1], lines[k])]
        = [k \in 0..n |-> IF k = 0 THEN Blank ELSE Replayed(f[k - 1], more[k])]
    BY <2>2
  <2> HIDE DEF more, n
  <2> QED BY <2>1, <2>3 DEF Makes
<1>5. \A k \in 0..n : g[k] = f[k]
  <2>1. n + 1 \in Nat /\ n <= n + 1 /\ n \in Nat
    BY <1>1
  <2> HIDE DEF more, n
  <2> QED BY <1>2, <1>4, <2>1, OneMaking
<1>6. g[n + 1] = Replayed(g[n], line)
  <2>1. n + 1 \in 0..(n + 1) /\ n + 1 # 0 /\ (n + 1) - 1 = n
    BY <1>1
  <2>2. g[n + 1] = Replayed(g[(n + 1) - 1], more[n + 1])
    <3> HIDE DEF more, n
    <3> QED BY <1>2, <2>1 DEF Makes
  <2> QED BY <1>1, <2>1, <2>2
<1>7. g[n] = f[n]
  BY <1>1, <1>5
<1>8. ReplayedLines(more) = g[n + 1] /\ ReplayedLines(lines) = f[n]
  BY <1>1, <1>2, <1>3, ReplayedIsMade
<1> QED BY <1>6, <1>7, <1>8

\* A record as the database has it: within the cap, and nothing of a body that
\* is not there.
Kept(rec) ==
    /\ rec \in [has : BOOLEAN, par : Nat, samples : Seq(Nat)]
    /\ Len(rec.samples) <= MaxSamples
    /\ ~rec.has => rec = Blank

LEMMA AsSequence ==
    ASSUME NEW n \in Nat, NEW S, NEW f, f = [k \in 1..n |-> f[k]], \A k \in 1..n : f[k] \in S
    PROVE  f \in Seq(S) /\ Len(f) = n
OBVIOUS

LEMMA ItemOf == ASSUME NEW S, NEW s \in Seq(S), NEW i \in 1..Len(s) PROVE s[i] \in S
OBVIOUS

LEMMA ReplayedKept ==
    ASSUME NEW rec, Kept(rec), NEW line \in DbLine
    PROVE  /\ Kept(Replayed(rec, line)) /\ Replayed(rec, line).has
           /\ line.t = "camera" => Replayed(rec, line).samples = rec.samples
           /\ line.t = "write" => Replayed(rec, line).samples = Capped(Append(rec.samples, line.v))
<1> DEFINE s == rec.samples
           more == Append(s, line.v)
<1>1. s \in Seq(Nat) /\ Len(s) <= MaxSamples /\ line.v \in Nat /\ MaxSamples \in Nat \ {0}
  BY CamDbAssumption DEF Kept, DbLine, CamDbAssumption
<1>2. more \in Seq(Nat) /\ Len(more) = Len(s) + 1
  BY <1>1
<1> HIDE DEF s, more
<1>3. Capped(more) \in Seq(Nat) /\ Len(Capped(more)) <= MaxSamples
  <2>1. CASE Len(more) > MaxSamples
    <3>1. more # <<>>
      BY <1>1, <1>2, <2>1
    <3> QED BY <1>1, <1>2, <2>1, <3>1 DEF Capped
  <2>2. CASE ~(Len(more) > MaxSamples)
    BY <1>1, <1>2, <2>2 DEF Capped
  <2> QED BY <2>1, <2>2
<1>4. CASE line.t = "camera"
  <2>1. Replayed(rec, line) = [rec EXCEPT !.has = TRUE, !.par = line.v]
    BY <1>4 DEF Replayed
  <2> QED BY <1>1, <1>4, <2>1 DEF Kept, s
<1>5. CASE line.t = "write"
  <2>1. Replayed(rec, line) = [rec EXCEPT !.has = TRUE, !.samples = Capped(more)]
    BY <1>5 DEF Replayed, more, s
  <2> QED BY <1>1, <1>3, <1>5, <2>1 DEF Kept, more, s
<1> QED BY <1>4, <1>5 DEF DbLine

\* What compact() writes is read back as what it was written from.
FirstLines(rec, n) ==
    [k \in 1..(1 + n) |-> IF k = 1 THEN camera_line(rec) ELSE write_line(rec.samples[k - 1])]
FirstSamples(rec, n) ==
    [has |-> TRUE, par |-> rec.par, samples |-> [k \in 1..n |-> rec.samples[k]]]

LEMMA FirstLinesReplayed ==
    ASSUME NEW rec, Kept(rec), NEW n \in Nat, n <= Len(rec.samples)
    PROVE  ReplayedLines(FirstLines(rec, n)) = FirstSamples(rec, n)
<1> DEFINE odd == {m \in 0..n : ReplayedLines(FirstLines(rec, m)) # FirstSamples(rec, m)}
<1> SUFFICES ASSUME odd # {} PROVE FALSE
  OBVIOUS
<1>1. PICK m \in odd : \A j \in odd : m <= j
  <2>1. odd \subseteq Nat
    OBVIOUS
  <2> HIDE DEF odd
  <2> QED BY <2>1, LeastNatural
<1>2. rec.samples \in Seq(Nat) /\ Len(rec.samples) <= MaxSamples /\ camera_line(rec) \in DbLine /\ MaxSamples \in Nat
  BY CamDbAssumption DEF Kept, camera_line, DbLine, CamDbAssumption
<1>3. CASE m = 0
  <2>1. FirstLines(rec, 0) = Append(<<>>, camera_line(rec)) /\ <<>> \in Seq(DbLine)
    BY <1>2 DEF FirstLines
  <2>2. ReplayedLines(FirstLines(rec, 0)) = Replayed(Blank, camera_line(rec))
    BY <1>2, <2>1, ReplayedMore, ReplayedNone
  <2>3. Replayed(Blank, camera_line(rec)) = [has |-> TRUE, par |-> rec.par, samples |-> <<>>]
    BY DEF Replayed, camera_line, Blank
  <2>4. [k \in 1..0 |-> rec.samples[k]] = <<>>
    OBVIOUS
  <2> QED BY <1>1, <1>3, <2>2, <2>3, <2>4 DEF FirstSamples
<1>4. CASE m # 0
  <2> DEFINE x == rec.samples[m]
             few == FirstLines(rec, m - 1)
             s == [k \in 1..(m - 1) |-> rec.samples[k]]
  <2>1. m \in 1..n /\ m - 1 \in 0..n /\ m - 1 \notin odd /\ x \in Nat /\ m <= MaxSamples
    BY <1>1, <1>2, <1>4
  <2>2. write_line(x) \in DbLine
    BY <2>1 DEF write_line, DbLine
  <2>3. few \in Seq(DbLine) /\ Len(few) = m
    <3>1. ASSUME NEW k \in 1..m PROVE few[k] \in DbLine
      <4>1. k \in 1..(1 + (m - 1)) /\ few[k] = IF k = 1 THEN camera_line(rec) ELSE write_line(rec.samples[k - 1])
        BY <2>1 DEF FirstLines
      <4>2. ASSUME k # 1 PROVE rec.samples[k - 1] \in Nat
        <5>1. k - 1 \in 1..Len(rec.samples)
          BY <1>2, <2>1, <4>2
        <5> QED BY <1>2, <5>1, ItemOf
      <4> HIDE DEF few
      <4> QED BY <1>2, <4>1, <4>2 DEF write_line, DbLine
    <3>2. few = [k \in 1..m |-> few[k]] /\ m \in Nat
      BY <2>1 DEF FirstLines
    <3> HIDE DEF few
    <3> QED BY <3>1, <3>2, AsSequence
  <2>4. FirstLines(rec, m) = Append(few, write_line(x))
    <3>1. FirstLines(rec, m) = [k \in 1..(m + 1) |-> FirstLines(rec, m)[k]]
      BY <2>1 DEF FirstLines
    <3>2. Append(few, write_line(x)) = [k \in 1..(m + 1) |-> Append(few, write_line(x))[k]]
      BY <2>1, <2>2, <2>3
    <3>3. \A k \in 1..(m + 1) : FirstLines(rec, m)[k] = Append(few, write_line(x))[k]
      BY <2>1, <2>2, <2>3 DEF FirstLines
    <3> QED BY <3>1, <3>2, <3>3
  <2>5. s \in Seq(Nat) /\ Len(s) = m - 1
    <3>1. s = [k \in 1..(m - 1) |-> s[k]] /\ m - 1 \in Nat
      BY <2>1
    <3>2. ASSUME NEW k \in 1..(m - 1) PROVE s[k] \in Nat
      <4>1. k \in 1..Len(rec.samples)
        BY <1>2, <2>1
      <4> QED BY <1>2, <4>1, ItemOf
    <3> HIDE DEF s
    <3> QED BY <3>1, <3>2, AsSequence
  <2>6. Append(s, x) = [k \in 1..m |-> rec.samples[k]]
    BY <1>2, <2>1, <2>5
  <2>7. ReplayedLines(few) = [has |-> TRUE, par |-> rec.par, samples |-> s]
    BY <2>1 DEF FirstSamples
  <2>8. ReplayedLines(FirstLines(rec, m)) = Replayed([has |-> TRUE, par |-> rec.par, samples |-> s], write_line(x))
    <3> HIDE DEF few, s, x
    <3> QED BY <2>2, <2>3, <2>4, <2>7, ReplayedMore
  <2>9. Capped(Append(s, x)) = Append(s, x)
    BY <1>2, <2>1, <2>5 DEF Capped
  <2>10. Replayed([has |-> TRUE, par |-> rec.par, samples |-> s], write_line(x))
         = [has |-> TRUE, par |-> rec.par, samples |-> Append(s, x)]
    <3> HIDE DEF s, x
    <3> QED BY <2>9 DEF Replayed, write_line
  <2> QED BY <1>1, <2>6, <2>8, <2>10 DEF FirstSamples
<1> QED BY <1>3, <1>4

LEMMA LinesReplayed ==
    ASSUME NEW rec, Kept(rec)
    PROVE  ReplayedLines(Lines(rec)) = rec
<1>1. CASE ~rec.has
  BY <1>1, ReplayedNone DEF Kept, Lines
<1>2. CASE rec.has
  <2>1. rec.samples \in Seq(Nat) /\ Len(rec.samples) \in Nat
    BY DEF Kept
  <2>2. Lines(rec) = FirstLines(rec, Len(rec.samples))
    BY <1>2 DEF Lines, FirstLines
  <2>3. FirstSamples(rec, Len(rec.samples)) = rec
    BY <1>2, <2>1 DEF FirstSamples, Kept
  <2> QED BY <2>1, <2>2, <2>3, FirstLinesReplayed
<1> QED BY <1>1, <1>2

LEMMA LinesAreLines ==
    ASSUME NEW rec, Kept(rec)
    PROVE  Lines(rec) \in Seq(DbLine)
<1>1. rec.samples \in Seq(Nat) /\ rec.par \in Nat
  BY DEF Kept
<1>2. CASE ~rec.has
  BY <1>2 DEF Lines
<1>3. CASE rec.has
  <2> DEFINE n == 1 + Len(rec.samples)
             s == [k \in 1..n |-> IF k = 1 THEN camera_line(rec) ELSE write_line(rec.samples[k - 1])]
  <2>1. \A k \in 1..n : s[k] \in DbLine
    BY <1>1 DEF camera_line, write_line, DbLine
  <2>2. n \in Nat
    BY <1>1
  <2>3. s \in Seq(DbLine)
    <3>1. s = [k \in 1..n |-> s[k]]
      OBVIOUS
    <3> HIDE DEF s, n
    <3> QED BY <2>1, <2>2, <3>1
  <2> QED BY <1>3, <2>3 DEF Lines
<1> QED BY <1>2, <1>3

\* What a body's record has of what was said of it: sample by sample from the
\* newest, none is younger than the one said, and one kept further back than
\* another was said is older than it.
Behind(r, s) ==
    \A i \in 1..Len(r), j \in 1..Len(s) :
        /\ Len(r) - i > Len(s) - j => r[i] < s[j]
        /\ Len(r) - i >= Len(s) - j => r[i] <= s[j]

UpToNow(s, n) == s \in Seq(Nat) /\ \A k \in 1..Len(s) : s[k] <= n

\* The record of a body as the file or memory has it.
Sound(rec, s, n) == Kept(rec) /\ UpToNow(rec.samples, n) /\ Behind(rec.samples, s)

Lacks(rec, s) == Expected(s) \ ToSet(rec.samples)

AllSound(mem, what, n, lost) ==
    \A id \in DbIds : Sound(mem[id], what[id], n) /\ (id \in lost => ~mem[id].has)

AllLack(mem, what) == UNION {Lacks(mem[id], what[id]) : id \in DbIds}

LEMMA CappedBehind ==
    ASSUME NEW r \in Seq(Nat), NEW s \in Seq(Nat), Behind(r, s)
    PROVE  Behind(Capped(r), s)
<1>1. CASE Len(r) > MaxSamples
  <2>1. MaxSamples \in Nat \ {0}
    BY CamDbAssumption DEF CamDbAssumption
  <2>2. r # <<>> /\ Len(r) \in Nat
    BY <1>1, <2>1
  <2>3. Len(Tail(r)) = Len(r) - 1 /\ \A i \in 1..Len(Tail(r)) : Tail(r)[i] = r[i + 1] /\ i + 1 \in 1..Len(r)
    BY <2>2
  <2>4. Behind(Tail(r), s)
    BY <2>2, <2>3 DEF Behind
  <2> QED BY <1>1, <2>4 DEF Capped
<1>2. CASE ~(Len(r) > MaxSamples)
  BY <1>2 DEF Capped
<1> QED BY <1>1, <1>2

LEMMA CappedUpToNow ==
    ASSUME NEW n \in Nat, NEW r, UpToNow(r, n)
    PROVE  UpToNow(Capped(r), n)
<1>1. CASE Len(r) > MaxSamples
  <2>1. MaxSamples \in Nat \ {0}
    BY CamDbAssumption DEF CamDbAssumption
  <2>2. r # <<>> /\ Len(r) \in Nat /\ r \in Seq(Nat)
    BY <1>1, <2>1 DEF UpToNow
  <2>3. Len(Tail(r)) = Len(r) - 1 /\ \A i \in 1..Len(Tail(r)) : Tail(r)[i] = r[i + 1] /\ i + 1 \in 1..Len(r)
    BY <2>2
  <2> QED BY <1>1, <2>2, <2>3 DEF Capped, UpToNow
<1>2. CASE ~(Len(r) > MaxSamples)
  BY <1>2 DEF Capped
<1> QED BY <1>1, <1>2

LEMMA AppendedUpToNow ==
    ASSUME NEW n \in Nat, NEW r, UpToNow(r, n)
    PROVE  UpToNow(r, n + 1) /\ UpToNow(Append(r, n + 1), n + 1)
<1>1. r \in Seq(Nat) /\ Len(r) \in Nat /\ n + 1 \in Nat /\ \A k \in 1..Len(r) : r[k] <= n
  BY DEF UpToNow
<1>2. Append(r, n + 1) \in Seq(Nat) /\ Len(Append(r, n + 1)) = Len(r) + 1
  BY <1>1
<1>3. \A k \in 1..Len(r) : Append(r, n + 1)[k] = r[k] /\ r[k] \in Nat
  BY <1>1
<1>4. Append(r, n + 1)[Len(r) + 1] = n + 1
  BY <1>1
<1> QED BY <1>1, <1>2, <1>3, <1>4 DEF UpToNow

\* A sample said, and recorded or not.
LEMMA SaidBehind ==
    ASSUME NEW n \in Nat, NEW r, UpToNow(r, n), NEW s, UpToNow(s, n), Behind(r, s)
    PROVE  Behind(r, Append(s, n + 1)) /\ Behind(Append(r, n + 1), Append(s, n + 1))
<1> DEFINE p == Append(r, n + 1)
           q == Append(s, n + 1)
<1>1. r \in Seq(Nat) /\ s \in Seq(Nat) /\ n + 1 \in Nat /\ Len(r) \in Nat /\ Len(s) \in Nat
  BY DEF UpToNow
<1>2. Len(p) = Len(r) + 1 /\ p[Len(r) + 1] = n + 1 /\ \A i \in 1..Len(r) : p[i] = r[i] /\ r[i] <= n /\ r[i] \in Nat
  BY <1>1 DEF UpToNow
<1>3. Len(q) = Len(s) + 1 /\ q[Len(s) + 1] = n + 1 /\ \A j \in 1..Len(s) : q[j] = s[j] /\ s[j] <= n /\ s[j] \in Nat
  BY <1>1 DEF UpToNow
<1> HIDE DEF p, q
<1>4. Behind(r, q)
  <2> SUFFICES ASSUME NEW i \in 1..Len(r), NEW j \in 1..Len(q), Len(r) - i >= Len(q) - j
               PROVE  /\ Len(r) - i > Len(q) - j => r[i] < q[j]
                      /\ Len(r) - i >= Len(q) - j => r[i] <= q[j]
    BY <1>1, <1>3 DEF Behind
  <2>1. CASE j = Len(s) + 1
    BY <1>1, <1>2, <1>3, <2>1
  <2>2. CASE j \in 1..Len(s)
    <3>1. Len(r) - i > Len(s) - j
      BY <1>1, <1>3, <2>2
    <3>2. r[i] < s[j]
      BY <2>2, <3>1 DEF Behind
    <3> QED BY <1>2, <1>3, <2>2, <3>2
  <2> QED BY <1>1, <1>3, <2>1, <2>2
<1>5. Behind(p, q)
  <2> SUFFICES ASSUME NEW i \in 1..Len(p), NEW j \in 1..Len(q)
               PROVE  /\ Len(p) - i > Len(q) - j => p[i] < q[j]
                      /\ Len(p) - i >= Len(q) - j => p[i] <= q[j]
    BY DEF Behind
  <2>1. CASE i = Len(r) + 1
    BY <1>1, <1>2, <1>3, <2>1
  <2>2. CASE i \in 1..Len(r) /\ j = Len(s) + 1
    <3>1. p[i] = r[i] /\ r[i] <= n /\ r[i] \in Nat /\ q[j] = n + 1
      BY <1>2, <1>3, <2>2
    <3> QED BY <3>1
  <2>3. CASE i \in 1..Len(r) /\ j \in 1..Len(s)
    <3>1. /\ Len(r) - i > Len(s) - j => r[i] < s[j]
          /\ Len(r) - i >= Len(s) - j => r[i] <= s[j]
      BY <2>3 DEF Behind
    <3>2. p[i] = r[i] /\ q[j] = s[j]
      BY <1>2, <1>3, <2>3
    <3>3. ASSUME Len(p) - i > Len(q) - j PROVE Len(r) - i > Len(s) - j
      BY <1>1, <1>2, <1>3, <2>3, <3>3
    <3>4. ASSUME Len(p) - i >= Len(q) - j PROVE Len(r) - i >= Len(s) - j
      BY <1>1, <1>2, <1>3, <2>3, <3>4
    <3> QED BY <3>1, <3>2, <3>3, <3>4
  <2> QED BY <1>1, <1>2, <1>3, <2>1, <2>2, <2>3
<1> QED BY <1>4, <1>5 DEF p, q

LEMMA SaidExpected ==
    ASSUME NEW s \in Seq(Nat), NEW v \in Nat
    PROVE  /\ v \in Expected(Append(s, v))
           /\ \A e \in Expected(Append(s, v)) :
                 e = v \/ \E j \in 1..Len(s) : j > Len(s) + 1 - MaxSamples /\ e = s[j] /\ e \in Expected(s)
<1> DEFINE q == Append(s, v)
<1>1. MaxSamples \in Nat \ {0} /\ Len(s) \in Nat
  BY CamDbAssumption DEF CamDbAssumption
<1>2. Len(q) = Len(s) + 1 /\ DOMAIN q = 1..(Len(s) + 1) /\ DOMAIN s = 1..Len(s)
  OBVIOUS
<1>3. q[Len(s) + 1] = v /\ \A j \in 1..Len(s) : q[j] = s[j]
  OBVIOUS
<1> HIDE DEF q
<1>4. v \in Expected(q)
  BY <1>1, <1>2, <1>3 DEF Expected
<1>5. ASSUME NEW e \in Expected(q), e # v
      PROVE  \E j \in 1..Len(s) : j > Len(s) + 1 - MaxSamples /\ e = s[j] /\ e \in Expected(s)
  <2>1. PICK j \in 1..(Len(s) + 1) : j > Len(s) + 1 - MaxSamples /\ e = q[j]
    <3>1. e \in {q[k] : k \in {j \in DOMAIN q : j > Len(q) - MaxSamples}}
      BY <1>5 DEF Expected
    <3>2. PICK k \in {i \in DOMAIN q : i > Len(q) - MaxSamples} : e = q[k]
      BY <3>1
    <3>3. k \in 1..(Len(s) + 1) /\ k > Len(s) + 1 - MaxSamples
      BY <1>1, <1>2, <3>2
    <3> QED BY <3>2, <3>3
  <2>2. j \in 1..Len(s) /\ e = s[j]
    BY <1>1, <1>3, <1>5, <2>1
  <2>3. e \in Expected(s)
    BY <1>1, <1>2, <2>1, <2>2 DEF Expected
  <2> QED BY <2>1, <2>2, <2>3
<1> QED BY <1>4, <1>5 DEF q

\* Of what is expected, only what the cap made room with is not kept, and that
\* is not expected any more.
LEMMA SaidKept ==
    ASSUME NEW n \in Nat, NEW r, UpToNow(r, n), Len(r) <= MaxSamples, NEW s, UpToNow(s, n), Behind(r, s)
    PROVE  Expected(Append(s, n + 1)) \ ToSet(Capped(Append(r, n + 1))) \subseteq Expected(s) \ ToSet(r)
<1> DEFINE p == Append(r, n + 1)
<1>1. r \in Seq(Nat) /\ s \in Seq(Nat) /\ n + 1 \in Nat /\ Len(r) \in Nat /\ Len(s) \in Nat /\ MaxSamples \in Nat \ {0}
  BY CamDbAssumption DEF UpToNow, CamDbAssumption
<1>2. /\ p \in Seq(Nat) /\ Len(p) = Len(r) + 1
      /\ p[Len(r) + 1] = n + 1 /\ \A i \in 1..Len(r) : p[i] = r[i]
  BY <1>1
<1> HIDE DEF p
<1>3. \A t \in Seq(Nat) : \A x : x \in ToSet(t) <=> \E i \in 1..Len(t) : t[i] = x
  BY DEF ToSet
<1>4. /\ n + 1 \in ToSet(Capped(p))
      /\ \A i \in 1..Len(r) : r[i] \notin ToSet(Capped(p)) => Len(r) = MaxSamples /\ i = 1
  <2>1. CASE Len(p) > MaxSamples
    <3> DEFINE t == Tail(p)
    <3>1. /\ Len(r) = MaxSamples /\ t \in Seq(Nat) /\ Len(t) = Len(r)
          /\ \A i \in 1..Len(r) : t[i] = p[i + 1]
      BY <1>1, <1>2, <2>1
    <3>2. Capped(p) = t
      BY <2>1 DEF Capped
    <3> HIDE DEF t
    <3>3. t[Len(r)] = n + 1 /\ Len(r) \in 1..Len(t)
      BY <1>1, <1>2, <3>1
    <3>4. ASSUME NEW i \in 1..Len(r), i # 1 PROVE i - 1 \in 1..Len(t) /\ t[i - 1] = r[i]
      BY <1>1, <1>2, <3>1, <3>4
    <3> QED BY <1>3, <3>1, <3>2, <3>3, <3>4
  <2>2. CASE ~(Len(p) > MaxSamples)
    <3>1. Capped(p) = p
      BY <2>2 DEF Capped
    <3>2. Len(r) + 1 \in 1..Len(p) /\ \A i \in 1..Len(r) : i \in 1..Len(p)
      BY <1>1, <1>2
    <3> QED BY <1>2, <1>3, <3>1, <3>2
  <2> QED BY <2>1, <2>2
<1>5. ASSUME NEW e \in Expected(Append(s, n + 1)), e \notin ToSet(Capped(p))
      PROVE  e \in Expected(s) /\ e \notin ToSet(r)
  <2>1. PICK j \in 1..Len(s) : j > Len(s) + 1 - MaxSamples /\ e = s[j] /\ e \in Expected(s)
    BY <1>1, <1>4, <1>5, SaidExpected
  <2>2. ASSUME NEW i \in 1..Len(r), e = r[i] PROVE FALSE
    <3>1. Len(r) = MaxSamples /\ i = 1
      BY <1>4, <1>5, <2>2
    <3>2. Len(r) - i > Len(s) - j
      BY <1>1, <2>1, <3>1
    <3>3. r[i] < s[j]
      BY <2>1, <2>2, <3>2 DEF Behind
    <3>4. s[j] \in Nat
      BY <1>1
    <3> QED BY <2>1, <2>2, <3>3, <3>4
  <2> QED BY <1>1, <1>3, <2>1, <2>2
<1> QED BY <1>5 DEF p

\* The line a call writes, and what is said of the body after it.
Says(line, n, s, more) ==
    \/ line \in DbLine /\ line.t = "camera" /\ more = s
    \/ line = write_line(n) /\ more = Append(s, n)

LEMMA RecordStep ==
    ASSUME NEW n \in Nat, NEW rec, NEW s, Sound(rec, s, n), UpToNow(s, n),
           NEW line, NEW more, Says(line, n + 1, s, more)
    PROVE  /\ Sound(Replayed(rec, line), more, n + 1) /\ Replayed(rec, line).has
           /\ Sound(rec, more, n + 1)
           /\ UpToNow(more, n + 1)
           /\ Lacks(Replayed(rec, line), more) \subseteq Lacks(rec, s)
           /\ Lacks(rec, more) \subseteq Lacks(rec, s) \cup {n + 1}
<1> DEFINE r == rec.samples
           next == Replayed(rec, line)
<1>1. Kept(rec) /\ UpToNow(r, n) /\ Behind(r, s) /\ Len(r) <= MaxSamples /\ r \in Seq(Nat) /\ s \in Seq(Nat)
  BY DEF Sound, Kept, UpToNow
<1>2. line \in DbLine
  BY DEF Says, DbLine, write_line
<1>3. Kept(next) /\ next.has
  BY <1>1, <1>2, ReplayedKept
<1>4. UpToNow(r, n + 1) /\ UpToNow(s, n + 1)
  BY <1>1, AppendedUpToNow
<1>5. CASE line.t = "camera" /\ more = s
  <2>1. next.samples = r
    BY <1>1, <1>2, <1>5, ReplayedKept
  <2> HIDE DEF next
  <2>2. Sound(next, more, n + 1) /\ Sound(rec, more, n + 1)
    BY <1>1, <1>3, <1>4, <1>5, <2>1 DEF Sound
  <2>3. Lacks(next, more) = Lacks(rec, s) /\ Lacks(rec, more) = Lacks(rec, s)
    BY <1>5, <2>1 DEF Lacks
  <2> QED BY <1>3, <1>4, <1>5, <2>2, <2>3 DEF next
<1>6. CASE line = write_line(n + 1) /\ more = Append(s, n + 1)
  <2>1. next.samples = Capped(Append(r, n + 1))
    BY <1>1, <1>2, <1>6, ReplayedKept DEF write_line
  <2>2. Behind(r, more) /\ Behind(Append(r, n + 1), more)
    BY <1>1, <1>6, SaidBehind
  <2>3. UpToNow(Append(r, n + 1), n + 1) /\ UpToNow(more, n + 1) /\ n + 1 \in Nat
    BY <1>1, <1>6, AppendedUpToNow
  <2>4. UpToNow(Capped(Append(r, n + 1)), n + 1)
    BY <2>3, CappedUpToNow
  <2>5. Behind(Capped(Append(r, n + 1)), more)
    BY <2>2, <2>3, CappedBehind DEF UpToNow
  <2>6. Sound(next, more, n + 1) /\ Sound(rec, more, n + 1)
    <3> HIDE DEF next
    <3> QED BY <1>1, <1>3, <1>4, <2>1, <2>2, <2>4, <2>5 DEF Sound
  <2>7. Lacks(next, more) \subseteq Lacks(rec, s)
    <3> HIDE DEF next
    <3> QED BY <1>1, <1>6, <2>1, SaidKept DEF Lacks
  <2>8. Lacks(rec, more) \subseteq Lacks(rec, s) \cup {n + 1}
    BY <1>1, <1>6, <2>3, SaidExpected DEF Lacks
  <2> QED BY <1>3, <2>3, <2>6, <2>7, <2>8
<1>7. line.t = "write" \/ more = s
  BY DEF Says, write_line
<1> QED BY <1>5, <1>6 DEF Says

\* Of all the bodies: one line is taken, and one thing more is said.
AllSaid(what, n) == \A k \in DbIds : UpToNow(what[k], n)
TakesLine(next, mem, id, line) ==
    \A k \in DbIds : next[k] = IF k = id THEN Replayed(mem[id], line) ELSE mem[k]
SaysMore(then, what, n, id, line) ==
    /\ Says(line, n, what[id], then[id])
    /\ \A k \in DbIds : k # id => then[k] = what[k]

LEMMA MemoryStep ==
    ASSUME NEW n \in Nat, NEW mem, NEW what, NEW lost, AllSound(mem, what, n, lost), AllSaid(what, n),
           NEW id \in DbIds, NEW line, NEW then, SaysMore(then, what, n + 1, id, line),
           NEW next, TakesLine(next, mem, id, line)
    PROVE  /\ AllSound(next, then, n + 1, lost \ {id})
           /\ AllSound(mem, then, n + 1, lost \ {id})
           /\ AllSaid(then, n + 1)
           /\ AllLack(next, then) \subseteq AllLack(mem, what)
           /\ AllLack(mem, then) \subseteq AllLack(mem, what) \cup {n + 1}
<1>1. ASSUME NEW k \in DbIds
      PROVE  /\ Sound(next[k], then[k], n + 1) /\ Sound(mem[k], then[k], n + 1)
             /\ UpToNow(then[k], n + 1)
             /\ k \in lost \ {id} => ~next[k].has /\ ~mem[k].has
             /\ Lacks(next[k], then[k]) \subseteq Lacks(mem[k], what[k])
             /\ Lacks(mem[k], then[k]) \subseteq Lacks(mem[k], what[k]) \cup {n + 1}
  <2>1. Sound(mem[k], what[k], n) /\ UpToNow(what[k], n) /\ (k \in lost => ~mem[k].has)
    BY DEF AllSound, AllSaid
  <2>2. CASE k = id
    BY <2>1, <2>2, RecordStep DEF TakesLine, SaysMore
  <2>3. CASE k # id
    <3>1. then[k] = what[k] /\ next[k] = mem[k]
      BY <2>3 DEF TakesLine, SaysMore
    <3>2. UpToNow(what[k], n + 1) /\ UpToNow(mem[k].samples, n + 1)
      BY <2>1, AppendedUpToNow DEF Sound
    <3>3. Sound(mem[k], what[k], n + 1)
      BY <2>1, <3>2 DEF Sound
    <3> QED BY <2>1, <3>1, <3>2, <3>3
  <2> QED BY <2>2, <2>3
<1>2. AllSound(next, then, n + 1, lost \ {id}) /\ AllSound(mem, then, n + 1, lost \ {id})
  BY <1>1 DEF AllSound
<1>3. AllLack(next, then) \subseteq AllLack(mem, what)
  BY <1>1 DEF AllLack
<1>4. AllLack(mem, then) \subseteq AllLack(mem, what) \cup {n + 1}
  BY <1>1 DEF AllLack
<1>5. AllSaid(then, n + 1)
  BY <1>1 DEF AllSaid
<1> QED BY <1>2, <1>3, <1>4, <1>5

LEMMA FewLacking ==
    ASSUME NEW n \in Nat, NEW mem, NEW what, AllSaid(what, n)
    PROVE  IsFiniteSet(AllLack(mem, what)) /\ Cardinality(AllLack(mem, what)) \in Nat
<1>1. AllLack(mem, what) \in SUBSET (0..n)
  <2> SUFFICES ASSUME NEW k \in DbIds, NEW e \in Lacks(mem[k], what[k]) PROVE e \in 0..n
    BY DEF AllLack
  <2>1. PICK j \in DOMAIN what[k] : e = what[k][j]
    BY DEF Lacks, Expected
  <2>2. what[k] \in Seq(Nat) /\ \A i \in 1..Len(what[k]) : what[k][i] <= n
    BY DEF UpToNow, AllSaid
  <2> QED BY <2>1, <2>2
<1>2. IsFiniteSet(0..n)
  BY FS_Interval
<1> QED BY <1>1, <1>2, FS_Subset, FS_CardinalityType

LEMMA NoMore ==
    ASSUME NEW S, NEW T, IsFiniteSet(T), S \subseteq T
    PROVE  Cardinality(S) \in Nat /\ Cardinality(T) \in Nat /\ Cardinality(S) <= Cardinality(T)
<1>1. S \in SUBSET T
  OBVIOUS
<1>2. IsFiniteSet(S) /\ Cardinality(S) <= Cardinality(T)
  BY <1>1, FS_Subset
<1> QED BY <1>2, FS_CardinalityType

LEMMA OneMore ==
    ASSUME NEW S, NEW T, NEW x, IsFiniteSet(T), S \subseteq T \cup {x}
    PROVE  Cardinality(S) \in Nat /\ Cardinality(T) \in Nat /\ Cardinality(S) <= Cardinality(T) + 1
<1>1. IsFiniteSet(T \cup {x}) /\ Cardinality(T \cup {x}) <= Cardinality(T) + 1 /\ Cardinality(T) \in Nat
  BY FS_AddElement, FS_CardinalityType
<1>2. Cardinality(S) \in Nat /\ Cardinality(T \cup {x}) \in Nat /\ Cardinality(S) <= Cardinality(T \cup {x})
  BY <1>1, NoMore
<1> QED BY <1>1, <1>2

\* The file with one line more, and the file as it is rewritten.
Files == [lines : [DbIds -> Seq(DbLine)], tail : {"clean", "part", "bare"}]

LEMMA LineReplayed ==
    ASSUME NEW f \in Files,
           NEW id \in DbIds, NEW line \in DbLine, NEW g, g.lines = [f.lines EXCEPT ![id] = Append(@, line)]
    PROVE  TakesLine(replay_camera_db(g), replay_camera_db(f), id, line)
<1> SUFFICES ASSUME NEW k \in DbIds
             PROVE  ReplayedLines(g.lines[k])
                    = IF k = id THEN Replayed(ReplayedLines(f.lines[id]), line) ELSE ReplayedLines(f.lines[k])
  BY DEF replay_camera_db, TakesLine
<1>1. f.lines \in [DbIds -> Seq(DbLine)] /\ f.lines[id] \in Seq(DbLine)
  BY DEF Files
<1>2. CASE k = id
  <2>1. g.lines[k] = Append(f.lines[id], line)
    BY <1>1, <1>2
  <2> QED BY <1>1, <1>2, <2>1, ReplayedMore
<1>3. CASE k # id
  <2>1. g.lines[k] = f.lines[k]
    BY <1>1, <1>3
  <2> QED BY <1>3, <2>1
<1> QED BY <1>2, <1>3

LEMMA ImageReplayed ==
    ASSUME NEW mem, \A k \in DbIds : Kept(mem[k])
    PROVE  /\ \A k \in DbIds : replay_camera_db(Image(mem))[k] = mem[k]
           /\ Image(mem) \in Files
           /\ Image(mem).tail = "clean"
<1>1. \A k \in DbIds : Lines(mem[k]) \in Seq(DbLine) /\ ReplayedLines(Lines(mem[k])) = mem[k]
  BY LinesAreLines, LinesReplayed
<1> QED BY <1>1 DEF Image, Files, replay_camera_db

LEMMA SameRecords ==
    ASSUME NEW mem, NEW same, \A k \in DbIds : same[k] = mem[k], NEW what, NEW n, NEW lost
    PROVE  /\ AllSound(same, what, n, lost) = AllSound(mem, what, n, lost)
           /\ AllLack(same, what) = AllLack(mem, what)
<1>1. AllSound(same, what, n, lost) = AllSound(mem, what, n, lost)
  BY DEF AllSound
<1>2. AllLack(same, what) = AllLack(mem, what)
  BY DEF AllLack
<1> QED BY <1>1, <1>2

OnDisk == replay_camera_db(dfile)
Torn == IF dfile.tail = "clean" THEN 0 ELSE 1

DbType ==
    /\ dn \in Nat /\ torn \in Nat /\ gone \subseteq DbIds
    /\ dfile \in Files
    /\ dopen \in {"open", "off", "down"}
    /\ said \in [DbIds -> Seq(Nat)] /\ AllSaid(said, dn)
    /\ dopen = "open" => dmem = [id \in DbIds |-> dmem[id]]

\* The file and, while there is a file to write, memory have all that was said
\* but two samples for each recording the machine died in, and the file one
\* fewer while the line the next one is lost to has not been written yet.
DbInv ==
    /\ DbType
    /\ AllSound(OnDisk, said, dn, gone)
    /\ Cardinality(AllLack(OnDisk, said)) + Torn <= 2 * torn
    /\ dopen = "open" =>
          AllSound(dmem, said, dn, gone) /\ Cardinality(AllLack(dmem, said)) <= 2 * torn

LEMMA DbInitInv == DbInit => DbInv
<1> SUFFICES ASSUME DbInit PROVE DbInv
  OBVIOUS
<1>1. DbType
  BY DEF DbInit, DbType, UpToNow, NoRecords, Files, AllSaid
<1>2. \A id \in DbIds : OnDisk[id] = Blank /\ dmem[id] = Blank /\ said[id] = <<>>
  BY ReplayedNone DEF DbInit, OnDisk, replay_camera_db, NoRecords
<1>3. Sound(Blank, <<>>, 0)
  <2>1. MaxSamples \in Nat
    BY CamDbAssumption DEF CamDbAssumption
  <2> QED BY <2>1 DEF Sound, Kept, Blank, UpToNow, Behind
<1>4. AllSound(OnDisk, said, dn, gone) /\ AllSound(dmem, said, dn, gone)
  BY <1>2, <1>3 DEF AllSound, DbInit, Blank
<1>5. AllLack(OnDisk, said) = {} /\ AllLack(dmem, said) = {}
  BY <1>2 DEF AllLack, Lacks, Expected
<1>6. Cardinality({}) = 0
  BY FS_EmptySet
<1>7. Torn = 0 /\ torn = 0
  BY DEF DbInit, Torn
<1> QED BY <1>1, <1>4, <1>5, <1>6, <1>7 DEF DbInv

\* What the invariant says of the records and of what is missing, after a call
\* that says one thing more of one body.
Call(id, line) ==
    /\ dopen # "down" /\ dn' = dn + 1 /\ gone' = gone \ {id}
    /\ \/ line \in DbLine /\ line.t = "camera" /\ said' = said
       \/ /\ line = write_line(dn')
          /\ said' = IF dopen = "open" THEN [said EXCEPT ![id] = Append(@, dn')] ELSE said

Remembered(id, line) == [dmem EXCEPT ![id] = Replayed(@, line)]

LEMMA CallTypes ==
    ASSUME DbInv, NEW id \in DbIds, NEW line, Call(id, line)
    PROVE  /\ dn \in Nat /\ dn' \in Nat /\ gone' \subseteq DbIds /\ torn \in Nat
           /\ said \in [DbIds -> Seq(Nat)] /\ said' \in [DbIds -> Seq(Nat)] /\ line \in DbLine
           /\ AllSaid(said, dn) /\ AllSaid(said', dn')
<1>1. DbType
  BY DEF DbInv
<1>2. dn \in Nat /\ dn' = dn + 1 /\ said \in [DbIds -> Seq(Nat)] /\ AllSaid(said, dn)
  BY <1>1 DEF DbType, Call
<1>3. line \in DbLine
  BY <1>2 DEF Call, write_line, DbLine
<1>4. \A k \in DbIds : UpToNow(said[k], dn') /\ UpToNow(Append(said[k], dn'), dn')
  BY <1>2, AppendedUpToNow DEF AllSaid
<1>5. said' \in [DbIds -> Seq(Nat)] /\ AllSaid(said', dn')
  <2>1. CASE said' = said
    BY <1>2, <1>4, <2>1 DEF AllSaid
  <2>2. CASE said' = [said EXCEPT ![id] = Append(@, dn')]
    <3>1. Append(said[id], dn') \in Seq(Nat)
      BY <1>2
    <3>2. \A k \in DbIds : said'[k] = IF k = id THEN Append(said[id], dn') ELSE said[k]
      BY <1>2, <2>2
    <3>3. said' \in [DbIds -> Seq(Nat)]
      BY <1>2, <2>2, <3>1
    <3> QED BY <1>4, <3>2, <3>3 DEF AllSaid
  <2> QED BY <2>1, <2>2 DEF Call
<1> QED BY <1>1, <1>2, <1>3, <1>5 DEF DbType, Call

\* While the file is open.
LEMMA OpenCall ==
    ASSUME DbInv, dopen = "open", NEW id \in DbIds, NEW line, Call(id, line), NEW mem,
           AllSound(mem, said, dn, gone), NEW next, TakesLine(next, mem, id, line)
    PROVE  /\ AllSound(next, said', dn', gone') /\ AllSound(mem, said', dn', gone')
           /\ Cardinality(AllLack(mem, said)) \in Nat
           /\ Cardinality(AllLack(next, said')) \in Nat /\ Cardinality(AllLack(mem, said')) \in Nat
           /\ Cardinality(AllLack(next, said')) <= Cardinality(AllLack(mem, said))
           /\ Cardinality(AllLack(mem, said')) <= Cardinality(AllLack(mem, said)) + 1
<1>1. /\ dn \in Nat /\ said \in [DbIds -> Seq(Nat)] /\ AllSaid(said, dn)
      /\ dn' = dn + 1 /\ gone' = gone \ {id} /\ line \in DbLine
  BY CallTypes DEF Call
<1>2. SaysMore(said', said, dn + 1, id, line)
  <2>1. CASE said' = said /\ line.t = "camera"
    BY <1>1, <2>1 DEF SaysMore, Says
  <2>2. CASE line = write_line(dn') /\ said' = [said EXCEPT ![id] = Append(@, dn')]
    BY <1>1, <2>2 DEF SaysMore, Says
  <2> QED BY <2>1, <2>2 DEF Call
<1>3. /\ AllSound(next, said', dn + 1, gone \ {id}) /\ AllSound(mem, said', dn + 1, gone \ {id})
      /\ AllLack(next, said') \subseteq AllLack(mem, said)
      /\ AllLack(mem, said') \subseteq AllLack(mem, said) \cup {dn + 1}
  BY <1>1, <1>2, MemoryStep
<1>4. IsFiniteSet(AllLack(mem, said))
  BY <1>1, FewLacking
<1> QED BY <1>1, <1>3, <1>4, NoMore, OneMore

LEMMA AppendKeeps ==
    ASSUME DbInv, dopen = "open", NEW id \in DbIds, NEW line, Call(id, line), append(Remembered(id, line), id, line)
    PROVE  DbInv'
<1> DEFINE mem == Remembered(id, line)
           now == replay_camera_db(dfile')
<1>1. /\ dfile \in Files /\ dmem = [k \in DbIds |-> dmem[k]] /\ torn \in Nat
      /\ AllSound(OnDisk, said, dn, gone) /\ Cardinality(AllLack(OnDisk, said)) + Torn <= 2 * torn
      /\ AllSound(dmem, said, dn, gone) /\ Cardinality(AllLack(dmem, said)) <= 2 * torn
  BY DEF DbInv, DbType
<1>2. /\ dn' \in Nat /\ gone' \subseteq DbIds /\ said' \in [DbIds -> Seq(Nat)] /\ line \in DbLine
      /\ AllSaid(said', dn')
  BY CallTypes
<1>3. /\ mem = [k \in DbIds |-> mem[k]]
      /\ TakesLine(mem, dmem, id, line)
  BY <1>1 DEF Remembered, TakesLine
<1> HIDE DEF mem
<1>4. AllSound(mem, said', dn', gone') /\ Cardinality(AllLack(mem, said')) <= 2 * torn
  <2>1. AllSound(mem, said', dn', gone') /\ Cardinality(AllLack(mem, said')) \in Nat
        /\ Cardinality(AllLack(dmem, said)) \in Nat
        /\ Cardinality(AllLack(mem, said')) <= Cardinality(AllLack(dmem, said))
    BY <1>1, <1>3, OpenCall
  <2> QED BY <1>1, <2>1
\* The file takes the line, or the line is lost, or the file is rewritten.
<1>5. ASSUME NEW f \in Files, f.lines = [dfile.lines EXCEPT ![id] = Append(@, line)]
      PROVE  /\ AllSound(replay_camera_db(f), said', dn', gone')
             /\ Cardinality(AllLack(replay_camera_db(f), said')) \in Nat
             /\ Cardinality(AllLack(replay_camera_db(f), said')) + Torn <= 2 * torn
  <2>1. TakesLine(replay_camera_db(f), OnDisk, id, line)
    BY <1>1, <1>2, <1>5, LineReplayed DEF OnDisk
  <2>2. /\ AllSound(replay_camera_db(f), said', dn', gone')
        /\ Cardinality(AllLack(replay_camera_db(f), said')) \in Nat /\ Cardinality(AllLack(OnDisk, said)) \in Nat
        /\ Cardinality(AllLack(replay_camera_db(f), said')) <= Cardinality(AllLack(OnDisk, said))
    BY <1>1, <2>1, OpenCall
  <2> QED BY <1>1, <2>2 DEF Torn
<1>6. ASSUME NEW f \in Files, f.lines = dfile.lines
      PROVE  /\ AllSound(replay_camera_db(f), said', dn', gone')
             /\ Cardinality(AllLack(replay_camera_db(f), said')) \in Nat
             /\ Cardinality(AllLack(replay_camera_db(f), said')) + Torn <= 2 * torn + 1
  <2> DEFINE next == [k \in DbIds |-> IF k = id THEN Replayed(OnDisk[id], line) ELSE OnDisk[k]]
  <2>1. replay_camera_db(f) = OnDisk
    BY <1>6 DEF OnDisk, replay_camera_db
  <2>2. TakesLine(next, OnDisk, id, line)
    BY DEF TakesLine
  <2> HIDE DEF next
  <2>3. /\ AllSound(OnDisk, said', dn', gone')
        /\ Cardinality(AllLack(OnDisk, said')) \in Nat /\ Cardinality(AllLack(OnDisk, said)) \in Nat
        /\ Cardinality(AllLack(OnDisk, said')) <= Cardinality(AllLack(OnDisk, said)) + 1
    BY <1>1, <2>2, OpenCall
  <2> QED BY <1>1, <2>1, <2>3 DEF Torn
<1>7. /\ \A k \in DbIds : Kept(mem[k])
      /\ AllSound(replay_camera_db(Image(mem)), said', dn', gone')
      /\ Cardinality(AllLack(replay_camera_db(Image(mem)), said')) <= 2 * torn
      /\ Image(mem) \in Files /\ Image(mem).tail = "clean"
  <2>1. \A k \in DbIds : Kept(mem[k])
    BY <1>4 DEF AllSound, Sound
  <2>2. \A k \in DbIds : replay_camera_db(Image(mem))[k] = mem[k]
    BY <2>1, ImageReplayed
  <2> QED BY <1>4, <2>1, <2>2, ImageReplayed, SameRecords
<1>8. ASSUME NEW f, f = Appended(dfile, id, line)
      PROVE  /\ f \in Files /\ f.tail = "clean"
             /\ AllSound(replay_camera_db(f), said', dn', gone')
             /\ Cardinality(AllLack(replay_camera_db(f), said')) <= 2 * torn
  <2>1. CASE dfile.tail = "clean"
    <3>1. f = [dfile EXCEPT !.lines[id] = Append(@, line)]
      BY <1>8, <2>1 DEF Appended
    <3>2. Append(dfile.lines[id], line) \in Seq(DbLine)
      BY <1>1, <1>2 DEF Files
    <3>3. f \in Files /\ f.tail = "clean" /\ f.lines = [dfile.lines EXCEPT ![id] = Append(@, line)]
      BY <1>1, <2>1, <3>1, <3>2 DEF Files
    <3>4. Torn = 0
      BY <2>1 DEF Torn
    <3>5. /\ AllSound(replay_camera_db(f), said', dn', gone') /\ Cardinality(AllLack(replay_camera_db(f), said')) \in Nat
          /\ Cardinality(AllLack(replay_camera_db(f), said')) + Torn <= 2 * torn
      BY <1>5, <3>3
    <3> QED BY <3>3, <3>4, <3>5
  <2>2. CASE dfile.tail # "clean"
    <3>1. f = [dfile EXCEPT !.tail = "clean"]
      BY <1>8, <2>2 DEF Appended
    <3>2. f \in Files /\ f.tail = "clean" /\ f.lines = dfile.lines
      BY <1>1, <3>1 DEF Files
    <3> QED BY <1>1, <1>6, <2>2, <3>2 DEF Torn
  <2> QED BY <2>1, <2>2
<1>9. ASSUME NEW f, f \in Interrupted(dfile, id, line)
      PROVE  /\ f \in Files /\ f.tail # "clean"
             /\ AllSound(replay_camera_db(f), said', dn', gone')
             /\ Cardinality(AllLack(replay_camera_db(f), said')) + 1 <= 2 * (torn + 1)
  <2>1. CASE f.lines = dfile.lines /\ f \in Files /\ f.tail # "clean"
    <3> QED BY <1>1, <1>6, <2>1 DEF Torn
  <2>2. CASE f.lines = [dfile.lines EXCEPT ![id] = Append(@, line)] /\ f \in Files /\ f.tail # "clean"
    <3> QED BY <1>1, <1>5, <2>2 DEF Torn
  <2>3. CASE dfile.tail # "clean"
    <3>1. f = dfile
      BY <1>9, <2>3 DEF Interrupted
    <3> QED BY <1>1, <2>1, <2>3, <3>1
  <2>4. CASE dfile.tail = "clean"
    <3>1. \/ f = [dfile EXCEPT !.tail = "part"]
          \/ f = [dfile EXCEPT !.lines[id] = Append(@, line), !.tail = "bare"]
      BY <1>9, <2>4 DEF Interrupted
    <3>2. CASE f = [dfile EXCEPT !.tail = "part"]
      <4>1. f.lines = dfile.lines /\ f \in Files /\ f.tail # "clean"
        BY <1>1, <3>2 DEF Files
      <4> QED BY <2>1, <4>1
    <3>3. CASE f = [dfile EXCEPT !.lines[id] = Append(@, line), !.tail = "bare"]
      <4>1. Append(dfile.lines[id], line) \in Seq(DbLine)
        BY <1>1, <1>2 DEF Files
      <4>2. f.lines = [dfile.lines EXCEPT ![id] = Append(@, line)] /\ f \in Files /\ f.tail # "clean"
        BY <1>1, <3>3, <4>1 DEF Files
      <4> QED BY <2>2, <4>2
    <3> QED BY <3>1, <3>2, <3>3
  <2> QED BY <2>3, <2>4
<1>10. CASE /\ \/ compact(Appended(dfile, id, line), mem)
               \/ dfile' = Appended(dfile, id, line) /\ dmem' = mem /\ UNCHANGED dopen
            /\ UNCHANGED torn
  <2>1. dfile' \in {Appended(dfile, id, line), Image(mem)} /\ dmem' = mem /\ dopen' \in {"open", "off"} /\ torn' = torn
    BY <1>10 DEF compact
  <2>2. /\ dfile' \in Files /\ dfile'.tail = "clean"
        /\ AllSound(now, said', dn', gone') /\ Cardinality(AllLack(now, said')) <= 2 * torn
    BY <1>7, <1>8, <2>1
  <2> HIDE DEF now
  <2>3. DbType'
    BY <1>1, <1>2, <1>3, <2>1, <2>2 DEF DbType
  <2>4. Torn' = 0
    BY <2>2 DEF Torn
  <2>5. Cardinality(AllLack(now, said')) \in Nat
    BY <1>2, FewLacking
  <2> QED BY <1>4, <2>1, <2>2, <2>3, <2>4, <2>5 DEF DbInv, OnDisk, now
<1>11. CASE /\ torn' = torn + 1 /\ dfile' \in Interrupted(dfile, id, line)
            /\ dopen' = "down" /\ dmem' = NoRecords
  <2>1. /\ dfile' \in Files /\ dfile'.tail # "clean"
        /\ AllSound(now, said', dn', gone') /\ Cardinality(AllLack(now, said')) + 1 <= 2 * (torn + 1)
    BY <1>9, <1>11
  <2> HIDE DEF now
  <2>2. DbType'
    BY <1>1, <1>2, <1>11, <2>1 DEF DbType
  <2>3. Torn' = 1
    BY <2>1 DEF Torn
  <2> QED BY <1>11, <2>1, <2>2, <2>3 DEF DbInv, OnDisk, now
<1> QED BY <1>10, <1>11 DEF append, mem

\* Once the file cannot be written what is done changes neither it nor what is
\* said.
LEMMA OffKeeps ==
    ASSUME DbInv, dopen = "off", NEW id \in DbIds, NEW line, Call(id, line), UNCHANGED <<dfile, dopen, torn>>
    PROVE  DbInv'
<1>1. /\ AllSound(OnDisk, said, dn, gone) /\ Cardinality(AllLack(OnDisk, said)) + Torn <= 2 * torn
      /\ DbType
  BY DEF DbInv
<1>2. said' = said /\ dn' = dn + 1 /\ gone' = gone \ {id} /\ dn \in Nat
  BY <1>1 DEF Call, DbType
<1>3. OnDisk' = OnDisk /\ Torn' = Torn
  BY DEF OnDisk, Torn
<1>4. AllSound(OnDisk, said, dn + 1, gone \ {id})
  <2> SUFFICES ASSUME NEW k \in DbIds PROVE Sound(OnDisk[k], said[k], dn + 1) /\ (k \in gone \ {id} => ~OnDisk[k].has)
    BY DEF AllSound
  <2>1. Sound(OnDisk[k], said[k], dn) /\ (k \in gone => ~OnDisk[k].has)
    BY <1>1 DEF AllSound
  <2>2. UpToNow(OnDisk[k].samples, dn + 1)
    BY <1>2, <2>1, AppendedUpToNow DEF Sound
  <2> QED BY <2>1, <2>2 DEF Sound
<1>5. DbType'
  <2>1. dn' \in Nat /\ gone' \subseteq DbIds /\ said' \in [DbIds -> Seq(Nat)] /\ AllSaid(said', dn')
    BY CallTypes
  <2> QED BY <1>1, <2>1 DEF DbType
<1> QED BY <1>1, <1>2, <1>3, <1>4, <1>5 DEF DbInv

LEMMA CallKeeps ==
    ASSUME DbInv, NEW id \in DbIds, NEW line, NEW mem, Call(id, line),
           dopen = "open" => mem = Remembered(id, line), append(mem, id, line)
    PROVE  DbInv'
<1>1. CASE dopen = "open"
  BY <1>1, AppendKeeps
<1>2. CASE dopen = "off"
  BY <1>2, OffKeeps DEF append
<1> QED BY <1>1, <1>2 DEF Call, DbInv, DbType

LEMMA NothingSaid == (\A r : Behind(r, <<>>)) /\ Expected(<<>>) = {}
BY DEF Behind, Expected

LEMMA ForgetKeeps == ASSUME DbInv, NEW id \in DbIds, forget(id) PROVE DbInv'
<1> DEFINE mem == [dmem EXCEPT ![id] = Blank]
           what == [said EXCEPT ![id] = <<>>]
<1>1. DbType /\ dn' = dn /\ torn' = torn /\ said' = what /\ dopen # "down" /\ dmem' = mem
  BY DEF DbInv, forget, Running, compact
<1>2. said' \in [DbIds -> Seq(Nat)] /\ \A k \in DbIds : said'[k] = IF k = id THEN <<>> ELSE said[k]
  BY <1>1 DEF DbType
<1>3. AllSaid(said, dn) /\ AllSaid(said', dn) /\ dn \in Nat /\ torn \in Nat
  BY <1>1, <1>2 DEF AllSaid, UpToNow, DbType
<1>4. ASSUME NEW all, NEW lost, AllSound(all, said, dn, lost)
      PROVE  /\ AllSound(all, said', dn, lost)
             /\ Cardinality(AllLack(all, said')) \in Nat /\ Cardinality(AllLack(all, said)) \in Nat
             /\ Cardinality(AllLack(all, said')) <= Cardinality(AllLack(all, said))
  <2>1. AllSound(all, said', dn, lost)
    <3> SUFFICES ASSUME NEW k \in DbIds PROVE Sound(all[k], said'[k], dn) /\ (k \in lost => ~all[k].has)
      BY DEF AllSound
    <3>1. Sound(all[k], said[k], dn) /\ (k \in lost => ~all[k].has)
      BY <1>4 DEF AllSound
    <3> QED BY <1>2, <3>1, NothingSaid DEF Sound
  <2>2. \A k \in DbIds : Lacks(all[k], said'[k]) \subseteq Lacks(all[k], said[k])
    BY <1>2, NothingSaid DEF Lacks
  <2>3. AllLack(all, said') \subseteq AllLack(all, said)
    BY <2>2 DEF AllLack
  <2>4. IsFiniteSet(AllLack(all, said))
    BY <1>3, FewLacking
  <2> QED BY <2>1, <2>3, <2>4, NoMore
<1>5. /\ AllSound(OnDisk, said, dn, gone) /\ Cardinality(AllLack(OnDisk, said)) + Torn <= 2 * torn
      /\ dfile \in Files /\ Torn \in Nat
  BY DEF DbInv, DbType, Torn
<1>6. CASE dopen = "off"
  <2>1. dfile' = dfile /\ dopen' = dopen /\ gone' = gone
    BY <1>6 DEF forget
  <2>2. OnDisk' = OnDisk /\ Torn' = Torn
    BY <2>1 DEF OnDisk, Torn
  <2>3. DbType'
    BY <1>1, <1>2, <1>3, <1>6, <2>1 DEF DbType
  <2>4. /\ AllSound(OnDisk, said', dn, gone)
        /\ Cardinality(AllLack(OnDisk, said')) \in Nat /\ Cardinality(AllLack(OnDisk, said)) \in Nat
        /\ Cardinality(AllLack(OnDisk, said')) <= Cardinality(AllLack(OnDisk, said))
    BY <1>4, <1>5
  <2>5. Cardinality(AllLack(OnDisk, said')) + Torn <= 2 * torn
    BY <1>3, <1>5, <2>4
  <2> QED BY <1>1, <1>6, <2>1, <2>2, <2>3, <2>4, <2>5 DEF DbInv
<1>7. CASE dopen = "open"
  <2>1. /\ dfile' \in {dfile, Image(mem)} /\ dopen' \in {"open", "off"}
        /\ gone' = IF dfile' = Image(mem) THEN gone \cup {id} ELSE gone
    BY <1>1, <1>7 DEF forget, compact
  <2>2. /\ dmem = [k \in DbIds |-> dmem[k]]
        /\ AllSound(dmem, said, dn, gone) /\ Cardinality(AllLack(dmem, said)) <= 2 * torn
    BY <1>1, <1>7 DEF DbInv, DbType
  <2>3. mem = [k \in DbIds |-> mem[k]] /\ \A k \in DbIds : mem[k] = IF k = id THEN Blank ELSE dmem[k]
    BY <2>2
  <2> HIDE DEF mem
  <2>4. Sound(Blank, <<>>, dn)
    <3>1. MaxSamples \in Nat
      BY CamDbAssumption DEF CamDbAssumption
    <3> QED BY <3>1 DEF Sound, Kept, Blank, UpToNow, Behind
  <2>5. AllSound(mem, said', dn, gone \cup {id})
    <3> SUFFICES ASSUME NEW k \in DbIds
                 PROVE  Sound(mem[k], said'[k], dn) /\ (k \in gone \cup {id} => ~mem[k].has)
      BY DEF AllSound
    <3>1. Sound(dmem[k], said[k], dn) /\ (k \in gone => ~dmem[k].has)
      BY <2>2 DEF AllSound
    <3>2. ~Blank.has
      BY DEF Blank
    <3> QED BY <1>2, <2>3, <2>4, <3>1, <3>2
  <2>6. AllSound(mem, said', dn, gone')
    BY <2>1, <2>5 DEF AllSound
  <2>7. AllLack(mem, said') \subseteq AllLack(dmem, said)
    <3>1. \A k \in DbIds : Lacks(mem[k], said'[k]) \subseteq Lacks(dmem[k], said[k])
      BY <1>2, <2>3, NothingSaid DEF Lacks
    <3> QED BY <3>1 DEF AllLack
  <2>8. Cardinality(AllLack(mem, said')) <= 2 * torn /\ Cardinality(AllLack(mem, said')) \in Nat
    <3>1. IsFiniteSet(AllLack(dmem, said))
      BY <1>3, FewLacking
    <3> QED BY <1>3, <2>2, <2>7, <3>1, NoMore
  <2>9. CASE dfile' = Image(mem)
    <3>1. \A k \in DbIds : Kept(mem[k])
      BY <2>5 DEF AllSound, Sound
    <3>2. /\ \A k \in DbIds : OnDisk'[k] = mem[k]
          /\ dfile' \in Files /\ dfile'.tail = "clean"
      BY <2>9, <3>1, ImageReplayed DEF OnDisk
    <3>3. AllSound(OnDisk', said', dn, gone') /\ AllLack(OnDisk', said') = AllLack(mem, said')
      BY <2>6, <3>2, SameRecords
    <3>4. Torn' = 0
      BY <3>2 DEF Torn
    <3>5. gone' \subseteq DbIds
      BY <1>1, <2>1 DEF DbType
    <3>6. DbType'
      BY <1>1, <1>2, <1>3, <2>1, <2>3, <3>2, <3>5 DEF DbType
    <3> QED BY <1>1, <2>1, <2>6, <2>8, <3>3, <3>4, <3>6 DEF DbInv
  <2>10. CASE dfile' # Image(mem)
    <3>1. dfile' = dfile /\ gone' = gone
      BY <2>1, <2>10
    <3>2. OnDisk' = OnDisk /\ Torn' = Torn
      BY <3>1 DEF OnDisk, Torn
    <3>3. DbType'
      BY <1>1, <1>2, <1>3, <2>1, <2>3, <3>1 DEF DbType
    <3>4. /\ AllSound(OnDisk, said', dn, gone)
          /\ Cardinality(AllLack(OnDisk, said')) \in Nat /\ Cardinality(AllLack(OnDisk, said)) \in Nat
          /\ Cardinality(AllLack(OnDisk, said')) <= Cardinality(AllLack(OnDisk, said))
      BY <1>4, <1>5
    <3>5. Cardinality(AllLack(OnDisk, said')) + Torn <= 2 * torn
      BY <1>3, <1>5, <3>4
    <3> QED BY <1>1, <2>6, <2>8, <3>1, <3>2, <3>3, <3>4, <3>5 DEF DbInv
  <2> QED BY <2>9, <2>10
<1> QED BY <1>1, <1>6, <1>7 DEF DbType

LEMMA DbStep == ASSUME DbInv, DbNext PROVE DbInv'
<1>1. DbType /\ dn \in Nat
  BY DEF DbInv, DbType
<1>2. ASSUME NEW id \in DbIds, note_seen(id) PROVE DbInv'
  <2> DEFINE line == camera_line(dmem[id])
             mem == [dmem EXCEPT ![id].has = TRUE]
  <2>1. dopen = "open" => line \in DbLine /\ mem = Remembered(id, line)
    <3> SUFFICES ASSUME dopen = "open" PROVE line \in DbLine /\ mem = Remembered(id, line)
      OBVIOUS
    <3>1. dmem = [k \in DbIds |-> dmem[k]] /\ Kept(dmem[id])
      BY <1>1 DEF DbInv, DbType, AllSound, Sound
    <3> QED BY <3>1 DEF Kept, camera_line, DbLine, Remembered, Replayed
  <2>2. dopen # "down" /\ dn' = dn + 1 /\ gone' = gone \ {id} /\ said' = said /\ append(mem, id, line)
    BY <1>2 DEF note_seen, Running
  <2>3. CASE dopen = "open"
    <3>1. Call(id, line)
      BY <2>1, <2>2, <2>3 DEF Call, camera_line
    <3> HIDE DEF line, mem
    <3> QED BY <2>1, <2>2, <3>1, CallKeeps
  <2>4. CASE dopen # "open"
    <3>1. UNCHANGED <<dfile, dopen, torn>> /\ dopen = "off"
      BY <1>1, <2>2, <2>4 DEF append, DbType
    <3>2. Call(id, [t |-> "camera", v |-> 0])
      BY <2>2 DEF Call, DbLine
    <3> QED BY <3>1, <3>2, OffKeeps
  <2> QED BY <2>3, <2>4
<1>3. ASSUME NEW id \in DbIds, record_write(id) PROVE DbInv'
  <2> DEFINE line == write_line(dn')
             mem == [dmem EXCEPT ![id].has = TRUE, ![id].samples = Capped(Append(@, dn'))]
  <2>1. dopen = "open" => mem = Remembered(id, line)
    <3> SUFFICES ASSUME dopen = "open" PROVE mem = Remembered(id, line)
      OBVIOUS
    <3>1. dmem = [k \in DbIds |-> dmem[k]] /\ Kept(dmem[id])
      BY <1>1 DEF DbInv, DbType, AllSound, Sound
    <3> QED BY <3>1 DEF Kept, write_line, Remembered, Replayed
  <2>2. /\ dopen # "down" /\ dn' = dn + 1 /\ gone' = gone \ {id} /\ append(mem, id, line)
        /\ said' = IF dopen = "open" THEN [said EXCEPT ![id] = Append(@, dn')] ELSE said
    BY <1>3 DEF record_write, Running
  <2>3. Call(id, line)
    BY <2>2 DEF Call
  <2> HIDE DEF line, mem
  <2> QED BY <2>1, <2>2, <2>3, CallKeeps
<1>4. ASSUME NEW id \in DbIds, record_params(id) PROVE DbInv'
  <2> DEFINE mem == [dmem EXCEPT ![id].has = TRUE, ![id].par = dn']
             line == camera_line(mem[id])
  <2>1. dn' = dn + 1 /\ dn' \in Nat
    BY <1>1, <1>4 DEF record_params
  <2>2. dopen = "open" => line \in DbLine /\ mem = Remembered(id, line)
    <3> SUFFICES ASSUME dopen = "open" PROVE line \in DbLine /\ mem = Remembered(id, line)
      OBVIOUS
    <3>1. dmem = [k \in DbIds |-> dmem[k]] /\ Kept(dmem[id])
      BY <1>1 DEF DbInv, DbType, AllSound, Sound
    <3>2. mem[id].par = dn'
      BY <3>1 DEF Kept
    <3>3. line = [t |-> "camera", v |-> dn']
      BY <3>2 DEF camera_line
    <3> HIDE DEF line
    <3> QED BY <2>1, <3>1, <3>3 DEF Kept, DbLine, Remembered, Replayed
  <2>3. dopen # "down" /\ gone' = gone \ {id} /\ said' = said /\ append(mem, id, line)
    BY <1>4 DEF record_params, Running
  <2>4. CASE dopen = "open"
    <3>1. Call(id, line)
      BY <2>1, <2>2, <2>3, <2>4 DEF Call, camera_line
    <3> HIDE DEF line, mem
    <3> QED BY <2>2, <2>3, <3>1, CallKeeps
  <2>5. CASE dopen # "open"
    <3>1. UNCHANGED <<dfile, dopen, torn>> /\ dopen = "off"
      BY <1>1, <2>3, <2>5 DEF append, DbType
    <3>2. Call(id, [t |-> "camera", v |-> 0])
      BY <2>1, <2>3 DEF Call, DbLine
    <3> QED BY <3>1, <3>2, OffKeeps
  <2> QED BY <2>4, <2>5
<1>5. CASE DbExit
  <2>1. UNCHANGED <<dfile, dn, said, torn, gone>> /\ dopen' = "down"
    BY <1>5 DEF DbExit
  <2>2. OnDisk' = OnDisk /\ Torn' = Torn
    BY <2>1 DEF OnDisk, Torn
  <2>3. DbType'
    BY <1>1, <2>1 DEF DbType
  <2> QED BY <2>1, <2>2, <2>3 DEF DbInv
<1>6. CASE DbOpen
  <2>1. UNCHANGED <<dfile, dn, said, torn, gone>> /\ dopen' \in {"open", "off"} /\ dmem' = OnDisk
    BY <1>6 DEF DbOpen, OnDisk
  <2>2. OnDisk' = OnDisk /\ Torn' = Torn
    BY <2>1 DEF OnDisk, Torn
  <2>3. OnDisk = [k \in DbIds |-> OnDisk[k]]
    BY DEF OnDisk, replay_camera_db
  <2>4. DbType'
    BY <1>1, <2>1, <2>3 DEF DbType
  <2>5. Cardinality(AllLack(OnDisk, said)) <= 2 * torn
    <3>1. Cardinality(AllLack(OnDisk, said)) \in Nat
      BY <1>1, FewLacking DEF DbType
    <3>2. Cardinality(AllLack(OnDisk, said)) + Torn <= 2 * torn /\ Torn \in Nat /\ torn \in Nat
      BY <1>1 DEF DbInv, DbType, Torn
    <3> QED BY <3>1, <3>2
  <2> QED BY <2>1, <2>2, <2>4, <2>5 DEF DbInv
<1> QED BY <1>2, <1>3, <1>4, <1>5, <1>6, ForgetKeeps DEF DbNext

\* However often the file is compacted, trimmed, torn and reopened: of the
\* samples a body was recorded with, within the cap, the next process finds all
\* but two for each recording the machine died in the middle of, and nothing of
\* a body forgotten and not seen since.
THEOREM TheRecordIsKept == Spec => []DbKeepsTheRecord
<1>1. DbInv => DbKeepsTheRecord
  <2> SUFFICES ASSUME DbInv PROVE DbKeepsTheRecord
    OBVIOUS
  <2>1. AllLack(OnDisk, said) = MissingFrom(replay_camera_db(dfile))
    BY DEF AllLack, Lacks, MissingFrom, OnDisk
  <2>2. Cardinality(AllLack(OnDisk, said)) \in Nat
    BY FewLacking DEF DbInv, DbType
  <2>3. Cardinality(AllLack(OnDisk, said)) + Torn <= 2 * torn /\ Torn \in Nat /\ torn \in Nat
    BY DEF DbInv, DbType, Torn
  <2>4. Cardinality(MissingFrom(replay_camera_db(dfile))) <= 2 * torn
    BY <2>1, <2>2, <2>3
  <2>5. \A id \in gone : id \in DbIds /\ ~OnDisk[id].has
    BY DEF DbInv, DbType, AllSound
  <2> QED BY <2>4, <2>5 DEF DbKeepsTheRecord, OnDisk
<1>2. Init => DbInv
  BY DbInitInv DEF Init
<1>3. DbInv /\ [Next]_vars => DbInv'
  <2> SUFFICES ASSUME DbInv, [Next]_vars PROVE DbInv'
    OBVIOUS
  <2>1. CASE DbNext
    BY <2>1, DbStep
  <2>2. CASE UNCHANGED dbVars
    BY <2>2 DEF dbVars, DbInv, DbType, OnDisk, Torn
  <2> QED BY <2>1, <2>2 DEF Next, vars
<1> QED BY <1>1, <1>2, <1>3, PTL DEF Spec
=============================================================================
