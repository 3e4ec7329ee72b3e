-------------------------------- MODULE Box --------------------------------
(***************************************************************************)
(* The box's firmware (firmware/src/main.cc) around the sync daemon: how   *)
(* it boots and is watched, the two wires it is talked to over, its radio  *)
(* and the socket that stands in for the wires when the same daemon runs   *)
(* on a host.  The daemon itself is SyncD.  With what a line says left     *)
(* out, the four share no state: each is checked on its own, and "part"    *)
(* says which one.                                                         *)
(***************************************************************************)
EXTENDS BootGuard, BoxWire, NameScan, LineServer

VARIABLE part

boxVars == <<part, bootVars, wireVars, nameVars, lineVars>>

BoxInit ==
    /\ part \in {"boot", "wire", "names", "socket"}
    /\ BootInit /\ WireInit /\ NameInit /\ LineInit
    /\ part # "boot" => image = "none"
    /\ part # "wire" => kind = "usb"

BoxNext ==
    \/ part = "boot" /\ BootNext /\ UNCHANGED <<part, wireVars, nameVars, lineVars>>
    \/ part = "wire" /\ WireNext /\ UNCHANGED <<part, bootVars, nameVars, lineVars>>
    \/ part = "names" /\ NameNext /\ UNCHANGED <<part, bootVars, wireVars, lineVars>>
    \/ part = "socket" /\ LineNext /\ UNCHANGED <<part, bootVars, wireVars, nameVars>>

\* The processor runs and time passes; timers fire, raised signals and ready
\* sources are served, and interrupts run.  The naming timer and the sweep
\* wait for what runs before them, never for ever.  Boxes advertise all the time.
BoxFairness ==
    /\ WF_bootVars(part = "boot" /\ Starts) /\ WF_bootVars(part = "boot" /\ mark_run_settled)
    /\ WF_bootVars(part = "boot" /\ Tick)
    /\ WF_wireVars(part = "wire" /\ poll_control) /\ WF_wireVars(part = "wire" /\ drain_usb)
    /\ WF_wireVars(part = "wire" /\ Transmit) /\ WF_wireVars(part = "wire" /\ ServeAir)
    /\ WF_nameVars(part = "names" /\ drain_reports) /\ SF_nameVars(part = "names" /\ NamingTimer)
    /\ \A b \in Sign : /\ SF_nameVars(part = "names" /\ Speaks(b))
                       /\ SF_nameVars(part = "names" /\ Answers(b))
    /\ SF_lineVars(part = "socket" /\ sweep) /\ WF_lineVars(part = "socket" /\ walk > 0 /\ announce_next)
    /\ \A c \in Console : SF_lineVars(part = "socket" /\ on_ready_write(c))

BoxSpec == BoxInit /\ [][BoxNext]_boxVars /\ BoxFairness
=============================================================================
