------------------------------ MODULE Service ------------------------------
(***************************************************************************)
(* One daemon as a service: the commands of src/src/agents.cc, given from  *)
(* the terminal (run_agent_command) and from the application at once, to   *)
(* launchd, which is external; and the lock of src/src/proclock.cc, which  *)
(* a daemon takes before it does anything, whether launchd started it or a *)
(* person did.                                                             *)
(***************************************************************************)
EXTENDS Integers, FiniteSets

CONSTANTS
    Clients,    \* those who give commands
    Procs,      \* process slots
    MaxInodes   \* bound: files that have been at the lock's path

ASSUME ServiceAssumption == MaxInodes \in Nat \ {0}

VARIABLES
    plist,     \* whether the plist is installed
    loaded,    \* whether launchd has the job
    job,       \* launchd's process, or "none"
    proc,      \* each process: how far it is, and which file it has open
    inode,     \* the file at the lock's path; 0 is none
    inodes,    \* files that have been there
    cmd,       \* each client's command
    was        \* values loaded has had since that command began

svcVars == <<plist, loaded, job, proc, inode, inodes, cmd, was>>

NoProc == "none"
Gone == [at |-> "gone", fd |-> 0]
NoCmd == [verb |-> "none", at |-> "idle", ok |-> FALSE]

Note == was' = [c \in Clients |-> was[c] \cup {loaded'}]

-----------------------------------------------------------------------------
(* ProcLock.                                                               *)

Holds(p) == proc[p].at \in {"running", "stopping"}

\* acquire(): the file is opened, or made, and then locked; a process that is
\* refused exits.
LockOpen(p) ==
    /\ proc[p].at = "starting"
    /\ IF inode = 0
       THEN inodes < MaxInodes /\ inodes' = inodes + 1 /\ inode' = inodes'
       ELSE UNCHANGED <<inode, inodes>>
    /\ proc' = [proc EXCEPT ![p] = [at |-> "opened", fd |-> inode']]
    /\ UNCHANGED <<plist, loaded, job, cmd, was>>

Flock(p) ==
    /\ proc[p].at = "opened"
    /\ IF \E q \in Procs \ {p} : Holds(q) /\ proc[q].fd = proc[p].fd
       THEN proc' = [proc EXCEPT ![p] = Gone] /\ job' = IF job = p THEN NoProc ELSE job
       ELSE proc' = [proc EXCEPT ![p].at = "running"] /\ UNCHANGED job
    /\ UNCHANGED <<plist, loaded, inode, inodes, cmd, was>>

\* Mutant: the file is taken away with the lock.
Exit_Unlinks(p) ==
    /\ proc[p].at # "gone"
    /\ proc' = [proc EXCEPT ![p] = Gone]
    /\ job' = IF job = p THEN NoProc ELSE job
    /\ inode' = IF Holds(p) THEN 0 ELSE inode
    /\ UNCHANGED <<plist, loaded, inodes, cmd, was>>

\* The process ends, at any point: release(), which leaves the file behind.
Exit(p) ==
    /\ proc[p].at # "gone"
    /\ proc' = [proc EXCEPT ![p] = Gone]
    /\ job' = IF job = p THEN NoProc ELSE job
    /\ UNCHANGED <<plist, loaded, inode, inodes, cmd, was>>

\* A person starts one by hand.
ByHand(p) ==
    /\ proc[p].at = "gone"
    /\ proc' = [proc EXCEPT ![p].at = "starting"]
    /\ UNCHANGED <<plist, loaded, job, inode, inodes, cmd, was>>

-----------------------------------------------------------------------------
(* launchd.                                                                *)

\* A loaded job is started, at first and when it failed.
Launch(p) ==
    /\ loaded /\ job = NoProc /\ proc[p].at = "gone"
    /\ job' = p
    /\ proc' = [proc EXCEPT ![p].at = "starting"]
    /\ UNCHANGED <<plist, loaded, inode, inodes, cmd, was>>

\* The process is asked to end and does so in its own time.
Told(p) == IF p = NoProc THEN proc
           ELSE [proc EXCEPT ![p].at = IF @ = "running" THEN "stopping" ELSE @]

\* launchctl: what it does, and its exit status.
bootstrap(ok) ==
    /\ ok => plist /\ ~loaded
    /\ loaded' = (loaded \/ ok)
    /\ UNCHANGED <<job, proc>>
bootout(ok) ==
    /\ ok => loaded
    /\ loaded' = (loaded /\ ~ok)
    /\ IF ok THEN proc' = Told(job) /\ job' = NoProc ELSE UNCHANGED <<job, proc>>
kickstart(ok, kill) ==
    /\ ok => loaded
    /\ IF ok /\ kill THEN proc' = Told(job) /\ job' = NoProc ELSE UNCHANGED <<job, proc>>
    /\ UNCHANGED loaded

-----------------------------------------------------------------------------
(* The commands, one launchctl after another.                              *)

Goes(c, at) == cmd' = [cmd EXCEPT ![c].at = at]
Done(c, ok) == cmd' = [cmd EXCEPT ![c].at = "done", ![c].ok = ok]

Command(c, verb) ==
    /\ cmd[c].at = "idle"
    /\ cmd' = [cmd EXCEPT ![c] =
          [verb |-> verb, ok |-> FALSE,
           at |-> IF verb \in {"start", "restart"} THEN "state"
                  ELSE IF verb = "install" THEN "copy" ELSE "bootout"]]
    /\ was' = [was EXCEPT ![c] = {loaded}]
    /\ UNCHANGED <<plist, loaded, job, proc, inode, inodes>>

\* What agent_start() and agent_restart() make of agent_state().
agent_start(state) ==
    IF state.loaded THEN "kickstart" ELSE IF state.installed THEN "bootstrap" ELSE "copy"

agent_state(c) ==
    /\ cmd[c].at = "state"
    /\ Goes(c, agent_start([loaded |-> loaded, installed |-> plist]))
    /\ UNCHANGED <<plist, loaded, job, proc, inode, inodes, was>>

\* With -k if it is a restart.
Kickstart(c) ==
    /\ cmd[c].at = "kickstart"
    /\ \E ok \in BOOLEAN : kickstart(ok, cmd[c].verb = "restart") /\ Done(c, ok)
    /\ Note
    /\ UNCHANGED <<plist, inode, inodes>>

\* agent_install(), which may find no plist to copy.
CopyPlist(c) ==
    /\ cmd[c].at = "copy"
    /\ \/ plist' = TRUE /\ Goes(c, "bootout")
       \/ plist' = plist /\ Done(c, FALSE)
    /\ UNCHANGED <<loaded, job, proc, inode, inodes, was>>

Bootstrap(c) ==
    /\ cmd[c].at = "bootstrap"
    /\ \E ok \in BOOLEAN : bootstrap(ok) /\ Done(c, ok)
    /\ Note
    /\ UNCHANGED <<plist, inode, inodes>>

\* Mutant: a stop that fails was not needed.
Stopped_Always(c, ok) == Done(c, TRUE)

\* agent_stop() looks again if it was refused.
Stopped(c, ok) == IF ok THEN Done(c, TRUE) ELSE Goes(c, "look")

Bootout(c) ==
    /\ cmd[c].at = "bootout"
    /\ \E ok \in BOOLEAN :
          /\ bootout(ok)
          /\ IF cmd[c].verb = "stop" THEN Stopped(c, ok)
             ELSE Goes(c, IF cmd[c].verb = "uninstall" THEN "unlink" ELSE "bootstrap")
    /\ Note
    /\ UNCHANGED <<plist, inode, inodes>>

\* Already stopped is not a failure.
LookAgain(c) ==
    /\ cmd[c].at = "look"
    /\ Done(c, ~loaded)
    /\ UNCHANGED <<plist, loaded, job, proc, inode, inodes, was>>

\* agent_uninstall(), whatever the bootout said.
Unlink(c) ==
    /\ cmd[c].at = "unlink"
    /\ \/ plist' = FALSE /\ Done(c, TRUE)
       \/ plist /\ plist' = plist /\ Done(c, FALSE)
    /\ UNCHANGED <<loaded, job, proc, inode, inodes, was>>

Say(c) ==
    /\ cmd[c].at = "done"
    /\ cmd' = [cmd EXCEPT ![c] = NoCmd]
    /\ was' = [was EXCEPT ![c] = {}]
    /\ UNCHANGED <<plist, loaded, job, proc, inode, inodes>>

SvcInit ==
    /\ plist = FALSE /\ loaded = FALSE /\ job = NoProc
    /\ proc = [p \in Procs |-> Gone]
    /\ inode = 0 /\ inodes = 0
    /\ cmd = [c \in Clients |-> NoCmd]
    /\ was = [c \in Clients |-> {}]

Verbs == {"start", "stop", "restart", "install", "uninstall"}

SvcNext ==
    \/ \E p \in Procs : LockOpen(p) \/ Flock(p) \/ Exit(p) \/ ByHand(p) \/ Launch(p)
    \/ \E c \in Clients :
          \/ \E verb \in Verbs : Command(c, verb)
          \/ agent_state(c)
          \/ Kickstart(c)
          \/ CopyPlist(c)
          \/ Bootstrap(c)
          \/ Bootout(c)
          \/ LookAgain(c)
          \/ Unlink(c)
          \/ Say(c)

-----------------------------------------------------------------------------
(* Properties.                                                             *)

\* ProcLock, "One writer": no two processes of one daemon are past the lock at
\* once, however their opening, locking and ending fall between each other, by
\* hand, by launchd and while a stopped one is still on its way out.
OneDaemonRuns == \A p, q \in Procs : Holds(p) /\ Holds(q) => p = q

\* agent_start, agent_restart, agent_install and agent_stop: a command that
\* reports success did what it says at some moment while it ran, whatever the
\* other client was doing.
CommandsTellTheTruth ==
    \A c \in Clients :
        cmd[c].at = "done" /\ cmd[c].ok =>
            /\ cmd[c].verb \in {"start", "restart", "install"} => TRUE \in was[c]
            /\ cmd[c].verb = "stop" => FALSE \in was[c]
=============================================================================
