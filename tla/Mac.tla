-------------------------------- MODULE Mac --------------------------------
(***************************************************************************)
(* The parts of the Mac's side that touch nothing of each other's, side by *)
(* side: the sync program's cycle over CoreBluetooth, its camera database, *)
(* the configuration file and its editors, a daemon as a service, and the  *)
(* page of devices.  A behaviour is a behaviour of one of them.            *)
(***************************************************************************)
EXTENDS MacCycle, CamDb, ConfFile, Service, DeviceView

VARIABLE part

vars == <<part, macVars, dbVars, confVars, svcVars, viewVars>>

Init ==
    /\ part \in {"cycle", "db", "conf", "service", "view"}
    /\ CycleInit /\ DbInit /\ ConfInit /\ SvcInit /\ ViewInit
    /\ part # "cycle" => hold = FALSE /\ mode = "loop"
    /\ part # "conf" => patient = TRUE
    /\ part # "view" => scene = (CHOOSE s \in Scenes : TRUE) /\ clock = CHOOSE f \in [{k.box : k \in scene.keys} -> Clocks] : TRUE

Next ==
    /\ UNCHANGED part
    /\ \/ part = "cycle" /\ CycleNext /\ UNCHANGED <<dbVars, confVars, svcVars, viewVars>>
       \/ part = "db" /\ DbNext /\ UNCHANGED <<macVars, confVars, svcVars, viewVars>>
       \/ part = "conf" /\ ConfNext /\ UNCHANGED <<macVars, dbVars, svcVars, viewVars>>
       \/ part = "service" /\ SvcNext /\ UNCHANGED <<macVars, dbVars, confVars, viewVars>>
       \/ part = "view" /\ ViewNext /\ UNCHANGED <<macVars, dbVars, confVars, svcVars>>

Spec == Init /\ [][Next]_vars
=============================================================================
