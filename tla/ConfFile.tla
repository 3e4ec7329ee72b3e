------------------------------ MODULE ConfFile ------------------------------
(***************************************************************************)
(* cameras.conf and those who edit it: CamConf in src/src/camconf.cc, the  *)
(* commands of src/src/octomancer.cc and the device page of src/ui/main.mm *)
(* that set a device's flags or remove it, and the main loop of            *)
(* src/src/octomancer-sync.cc, which holds a copy of the file and edits it *)
(* itself when it is told to forget a camera.                              *)
(*                                                                         *)
(* An edit reads the file, writes cameras.conf.tmp and renames it; anybody *)
(* else may act, and a command may be killed, between the steps.           *)
(***************************************************************************)
EXTENDS Integers

CONSTANTS ConfIds, MaxEdits    \* ids, which a camera and a box may share; bound: edits

ASSUME ConfFileAssumption == MaxEdits \in Nat

VARIABLES
    cf,        \* the file
    ctmp,      \* the temporary file beside it
    edit,      \* who is editing, how far, and with what
    asked,     \* forget_requested_ of the running daemon
    reloading, \* reload_requested_
    dconf,     \* the daemon's copy
    meant,     \* what the commands that succeeded said the file should hold
    unheard,   \* cameras of whose last change the daemon has not been told
    removed,   \* cameras it was told to forget, since it last loaded the file
    patient,   \* whether the person edits nothing the daemon is about to edit
    edits

confVars == <<cf, ctmp, edit, asked, reloading, dconf, meant, unheard, removed, patient, edits>>

Devs == [kind : {"camera", "box"}, id : ConfIds]
Cam(id) == [kind |-> "camera", id |-> id]
Unset == [flag |-> "none", warn |-> "none"]      \* no line about it
Empty == [d \in Devs |-> Unset]
Half == [d \in Devs |-> [flag |-> "?", warn |-> "?"]]   \* not what anybody wrote
NoFile == [d \in Devs |-> [flag |-> "", warn |-> ""]]

Idle0 == [at |-> "idle", dev |-> Cam(CHOOSE id \in ConfIds : TRUE), key |-> "flag", val |-> "none",
          lines |-> Empty, handle |-> "none"]

\* The file as read_lines() and load() have it.
read_lines == IF cf = Half THEN Empty ELSE cf

\* set_flag(): only this key of the line with this verb and id.
set_flag(c, dev, key, v) == [c EXCEPT ![dev][key] = v]

forget_device(c, dev) == [c EXCEPT ![dev] = Unset]

-----------------------------------------------------------------------------
(* write_lines(), of either editor.                                        *)

Editor == {"person", "daemon"}

\* The temporary is truncated, whoever else has it open.
OpenTmp(x) ==
    /\ edit[x].at = "open"
    /\ ctmp' = Half
    /\ edit' = [edit EXCEPT ![x].at = "write", ![x].handle = "tmp"]
    /\ UNCHANGED <<cf, asked, reloading, dconf, meant, unheard, removed, patient, edits>>

\* Into whatever the open file is by now; two that write to the same one from
\* the start leave one text or a mixture.
WriteTmp(x) ==
    LET h == edit[x].handle
        shared == \E y \in Editor \ {x} : edit[y].handle = h
        results == IF shared THEN {edit[x].lines, Half} ELSE {edit[x].lines}
    IN  /\ edit[x].at = "write"
        /\ edit' = [edit EXCEPT ![x].at = "rename", ![x].handle = "none"]
        /\ IF h = "tmp" THEN ctmp' \in results /\ UNCHANGED cf
           ELSE cf' \in results /\ UNCHANGED ctmp
        /\ UNCHANGED <<asked, reloading, dconf, meant, unheard, removed, patient, edits>>

Loaded(c) == IF c = Half THEN {Empty, dconf} ELSE {c}

\* The rename, which fails if another editor's took the temporary away; then
\* load(), which matters to the one who goes on using its copy.
RenameTmp(x) ==
    /\ edit[x].at = "rename"
    /\ IF ctmp = NoFile
       THEN /\ edit' = [edit EXCEPT ![x] = Idle0]
            /\ UNCHANGED <<cf, ctmp, dconf, meant, unheard, removed>>
       ELSE /\ cf' = ctmp /\ ctmp' = NoFile
            /\ edit' = [y \in Editor |->
                  IF y = x
                  THEN IF x = "person" THEN [edit[x] EXCEPT !.at = "tell"] ELSE Idle0
                  ELSE [edit[y] EXCEPT !.handle = IF @ = "tmp" THEN "live" ELSE @]]
            /\ IF x = "person"
               THEN /\ meant' = IF edit[x].key = "line" THEN [meant EXCEPT ![edit[x].dev] = Unset]
                                ELSE [meant EXCEPT ![edit[x].dev][edit[x].key] = edit[x].val]
                    /\ unheard' = IF edit[x].key # "warn" /\ edit[x].dev.kind = "camera"
                                  THEN unheard \cup {edit[x].dev.id} ELSE unheard
                    /\ UNCHANGED <<dconf, removed>>
               ELSE /\ dconf' \in Loaded(ctmp)
                    /\ unheard' = {} /\ removed' = {}
                    /\ UNCHANGED meant
    /\ UNCHANGED <<asked, reloading, patient, edits>>

-----------------------------------------------------------------------------
(* The person, at the terminal or on the device page.                      *)

Waits(dev) == patient /\ (dev.id \in asked \/ edit["daemon"].at # "idle")

Begins(dev, key, v, lines) ==
    /\ edit["person"].at = "idle" /\ edits < MaxEdits /\ ~Waits(dev)
    /\ edits' = edits + 1
    /\ edit' = [edit EXCEPT !["person"] =
          [at |-> IF key = "line" /\ lines = read_lines THEN "tell" ELSE "open",
           dev |-> dev, key |-> key, val |-> v, lines |-> lines, handle |-> "none"]]
    /\ UNCHANGED <<cf, ctmp, asked, reloading, dconf, meant, unheard, removed, patient>>

SetFlag(dev, key, v) == Begins(dev, key, v, set_flag(read_lines, dev, key, v))

\* `writes on|off` of a camera, `enable` and `disable` of a box, `warn on|off`
\* of either; the device page does the same.
run_writes_command(id, v) == SetFlag(Cam(id), "flag", v)
run_boxes_command(id, v) == SetFlag([kind |-> "box", id |-> id], "flag", v)
run_warn_command(dev, v) == SetFlag(dev, "warn", v)

\* `remove`; a device that has no line is only asked about.
run_remove_command(dev) == Begins(dev, "line", "none", forget_device(read_lines, dev))

\* Mutant: a permission that is withdrawn is not passed on.
Tell_OnlyOn ==
    /\ edit["person"].at = "tell"
    /\ LET e == edit["person"]
           camera == e.dev.kind = "camera"
       IN  /\ reloading' \in IF e.key = "flag" THEN (IF camera /\ e.val = "on" THEN {TRUE} ELSE {reloading})
                             ELSE {reloading}
           /\ asked' = IF e.key = "line" /\ camera THEN asked \cup {e.dev.id} ELSE asked
           /\ removed' = IF e.key = "line" /\ camera THEN removed \cup {e.dev.id} ELSE removed
           /\ unheard' = IF e.key # "warn" /\ camera THEN unheard \ {e.dev.id} ELSE unheard
    /\ edit' = [edit EXCEPT !["person"] = Idle0]
    /\ UNCHANGED <<cf, ctmp, dconf, meant, patient, edits>>

\* The daemon is told: to re-read the file, to forget the camera, or nothing.
\* Of a box the terminal says so and the device page does not.
Tell ==
    /\ edit["person"].at = "tell"
    /\ LET e == edit["person"]
           camera == e.dev.kind = "camera"
       IN  /\ reloading' \in IF e.key = "flag" THEN (IF camera THEN {TRUE} ELSE {reloading, TRUE})
                             ELSE {reloading}
           /\ asked' = IF e.key = "line" /\ camera THEN asked \cup {e.dev.id} ELSE asked
           /\ removed' = IF e.key = "line" /\ camera THEN removed \cup {e.dev.id} ELSE removed
           /\ unheard' = IF e.key # "warn" /\ camera THEN unheard \ {e.dev.id} ELSE unheard
    /\ edit' = [edit EXCEPT !["person"] = Idle0]
    /\ UNCHANGED <<cf, ctmp, dconf, meant, patient, edits>>

\* The command is killed, or nobody answers it.
GiveUp ==
    /\ edit["person"].at # "idle"
    /\ edit' = [edit EXCEPT !["person"] = Idle0]
    /\ UNCHANGED <<cf, ctmp, asked, reloading, dconf, meant, unheard, removed, patient, edits>>

-----------------------------------------------------------------------------
(* The daemon, between cycles.                                             *)

\* take_forgotten() and forget_camera(): a camera with no line is no change,
\* and nothing is loaded.
LoopForgets(id) ==
    /\ edit["daemon"].at = "idle" /\ id \in asked
    /\ asked' = asked \ {id}
    /\ edit' = IF read_lines[Cam(id)] = Unset THEN edit
               ELSE [edit EXCEPT !["daemon"] =
                       [Idle0 EXCEPT !.at = "open", !.dev = Cam(id),
                                     !.lines = forget_device(read_lines, Cam(id))]]
    /\ UNCHANGED <<cf, ctmp, reloading, dconf, meant, unheard, removed, patient, edits>>

\* take_reload() and reload(); a file it cannot read changes nothing.
LoopReloads ==
    /\ edit["daemon"].at = "idle" /\ reloading
    /\ reloading' = FALSE
    /\ dconf' \in Loaded(cf)
    /\ unheard' = {} /\ removed' = {}
    /\ UNCHANGED <<cf, ctmp, edit, asked, meant, patient, edits>>

\* The daemon starts again.
DaemonStarts ==
    /\ asked' = {} /\ reloading' = FALSE
    /\ dconf' \in Loaded(cf)
    /\ unheard' = {} /\ removed' = {}
    /\ edit' = [edit EXCEPT !["daemon"] = Idle0]
    /\ UNCHANGED <<cf, ctmp, meant, patient, edits>>

ConfInit ==
    /\ cf = Empty /\ ctmp = NoFile /\ dconf = Empty /\ meant = Empty
    /\ edit = [x \in Editor |-> Idle0]
    /\ asked = {} /\ reloading = FALSE /\ unheard = {} /\ removed = {}
    /\ patient \in BOOLEAN /\ edits = 0

ConfNext ==
    \/ \E x \in Editor : OpenTmp(x) \/ WriteTmp(x) \/ RenameTmp(x)
    \/ \E v \in {"on", "off"} :
          \/ \E id \in ConfIds : run_writes_command(id, v) \/ run_boxes_command(id, v)
          \/ \E dev \in Devs : run_warn_command(dev, v)
    \/ \E dev \in Devs : run_remove_command(dev)
    \/ Tell
    \/ GiveUp
    \/ \E id \in ConfIds : LoopForgets(id)
    \/ LoopReloads
    \/ DaemonStarts

-----------------------------------------------------------------------------
(* Properties.                                                             *)

Quiet ==
    /\ edit["person"].at = "idle" /\ edit["daemon"].at = "idle"
    /\ ~reloading /\ asked = {} /\ cf # Half

\* set_flag, "switching one on never disturbs the other", write_lines, "an
\* interrupted write cannot leave a half-file", and control.cc's "reload": if
\* the person waits for a daemon that is about to edit, the file holds what the
\* last command left, whole and with nothing of another key, device or kind of
\* device changed; and with nothing under way the permissions the daemon acts
\* on are the file's, of every camera whose last change it was told of and was
\* not its removal.  Whoever was killed or started again between two steps.
CommandsTakeEffect ==
    patient =>
        /\ cf = meant
        /\ Quiet => \A id \in ConfIds \ (unheard \cup removed) :
                        dconf[Cam(id)].flag = cf[Cam(id)].flag

\* octomancer.cc, of a removed device: "a device still switched on and in range
\* will reappear, at its defaults".
RemovedIsAtDefaults ==
    Quiet => \A id \in removed \ unheard : dconf[Cam(id)].flag = "none"
=============================================================================
