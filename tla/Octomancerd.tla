----------------------------- MODULE Octomancerd -----------------------------
(***************************************************************************)
(* octomancerd's main loop (src/octomancerd.cc) serves its socket, drains  *)
(* the radio's queue into the registry, raises alarms and saves the roster. *)
(* With what an advertisement and a request hold left out, the four share  *)
(* no state: each is checked on its own, and "part" says which one.  The   *)
(* registry's boxes and its camera do not meet either.                     *)
(***************************************************************************)
EXTENDS Registry, ScanBridge, Server, Roster

VARIABLE part

vars == <<part, registryVars, bridgeVars, serverVars, rosterVars>>

Init ==
    /\ part \in {"boxes", "camera", "bridge", "server", "roster"}
    /\ RegistryInit /\ BridgeInit /\ ServerInit /\ RosterInit
    /\ part # "boxes" => devices = <<>>

Next ==
    \/ part = "boxes" /\ BoxesNext /\ UNCHANGED <<part, bridgeVars, serverVars, rosterVars>>
    \/ part = "camera" /\ CameraNext /\ UNCHANGED <<part, bridgeVars, serverVars, rosterVars>>
    \/ part = "bridge" /\ BridgeNext /\ UNCHANGED <<part, registryVars, serverVars, rosterVars>>
    \/ part = "server" /\ ServerNext /\ UNCHANGED <<part, registryVars, bridgeVars, rosterVars>>
    \/ part = "roster" /\ RosterNext /\ UNCHANGED <<part, registryVars, bridgeVars, serverVars>>

Spec == Init /\ [][Next]_vars /\ BridgeFairness /\ ServerFairness
=============================================================================
