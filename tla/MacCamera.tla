----------------------------- MODULE MacCamera -----------------------------
(***************************************************************************)
(* The Mac's connection to a camera: MacCameraLink and its delegate in     *)
(* src/src/camera_mac.mm, over CoreBluetooth.  A call posts its request to *)
(* CoreBluetooth's queue and blocks until a callback or a deadline; the    *)
(* callbacks write the same members whichever peripheral they are about.   *)
(* MacCycle makes the calls.                                               *)
(***************************************************************************)
EXTENDS Integers

CONSTANTS
    Bodies, Nobody,
    Late     \* whether the end of a connection that was given up on may be
             \* reported after another one has been asked for

ASSUME MacCameraAssumption == Nobody \notin Bodies /\ Late \in BOOLEAN

VARIABLES
    phy,      \* what CoreBluetooth has with each body
    lk,       \* the members of the link and of its delegate
    finding,  \* bodies whose services are being discovered
    telling   \* bodies whose notifications are switched on

linkVars == <<phy, lk, finding, telling>>

\* up: link_up; dial: connect_done and connect_ok while somebody waits for
\* them; out: have_outgoing; per, chr: the delegate's peripheral and the body
\* its outgoing characteristic belongs to; tc: whose timecode `live` holds.
Idle == [up |-> FALSE, dial |-> "no", out |-> FALSE, per |-> Nobody,
         chr |-> Nobody, tc |-> Nobody]

connected == lk.up
subscribed == lk.up /\ lk.out

-----------------------------------------------------------------------------
(* The calls, as what they do before they block and when they give up.     *)

\* connect(): the last body is not let go of.
connect(c) ==
    /\ \A d \in Bodies : phy[d] \in {"cancelled", "closing"} => Late /\ d # c
    /\ phy' = [phy EXCEPT ![c] = IF @ = "up" THEN "up" ELSE "asked"]
    /\ lk' = [lk EXCEPT !.dial = "waiting", !.out = FALSE, !.tc = Nobody, !.per = c]

Cancelled(c) ==
    [phy EXCEPT ![c] = IF @ = "asked" THEN "cancelled"
                       ELSE IF @ = "up" THEN "closing" ELSE @]

\* connect() returns: TRUE, FALSE with the failure it was told, or FALSE after
\* the deadline, having cancelled.
ConnectOk ==
    /\ lk.dial = "ok"
    /\ lk' = [lk EXCEPT !.dial = "no"] /\ UNCHANGED phy
ConnectFailed ==
    \/ /\ lk.dial = "failed"
       /\ lk' = [lk EXCEPT !.dial = "no"] /\ UNCHANGED phy
    \/ /\ lk.dial = "waiting"
       /\ lk' = [lk EXCEPT !.dial = "no"] /\ phy' = Cancelled(lk.per)

\* disconnect(), which waits two seconds for the callback and no longer.
disconnect ==
    /\ phy' = IF lk.per = Nobody THEN phy ELSE Cancelled(lk.per)
    /\ lk' = [lk EXCEPT !.up = FALSE]

\* subscribe(), before it blocks.
discover == finding' = finding \cup {c \in {lk.per} : c \in Bodies /\ phy[c] = "up"}

-----------------------------------------------------------------------------
(* The callbacks.                                                          *)

\* on_connected(), for whoever waits in connect().
Reported(ok) == IF lk.dial = "waiting" THEN (IF ok THEN "ok" ELSE "failed") ELSE lk.dial

\* didConnectPeripheral; a body that is connected already says so again.
DidConnect(c) ==
    /\ \/ phy[c] = "asked"
       \/ phy[c] = "up" /\ lk.dial = "waiting" /\ lk.per = c
    /\ phy' = [phy EXCEPT ![c] = "up"]
    /\ lk' = [lk EXCEPT !.up = TRUE, !.dial = Reported(TRUE), !.per = c]
    /\ UNCHANGED <<finding, telling>>

\* The same of a connection that was made as it was cancelled.
DidConnectLate(c) ==
    /\ phy[c] = "cancelled"
    /\ phy' = [phy EXCEPT ![c] = "closing"]
    /\ lk' = [lk EXCEPT !.up = TRUE, !.dial = Reported(TRUE), !.per = c]
    /\ UNCHANGED <<finding, telling>>

DidFailToConnect(c) ==
    /\ phy[c] = "asked"
    /\ phy' = [phy EXCEPT ![c] = "none"]
    /\ lk' = [lk EXCEPT !.up = FALSE, !.dial = Reported(FALSE)]
    /\ UNCHANGED <<finding, telling>>

\* What on_disconnected() and the delegate drop.
on_disconnected == [lk EXCEPT !.up = FALSE, !.out = FALSE, !.chr = Nobody, !.tc = Nobody]

\* didDisconnectPeripheral, whenever the camera or the radio lets go.
DidDisconnect(c) ==
    /\ phy[c] \in {"up", "closing", "cancelled"}
    /\ phy' = [phy EXCEPT ![c] = "none"]
    /\ lk' = on_disconnected
    /\ finding' = finding \ {c} /\ telling' = telling \ {c}

\* didDiscoverServices and didDiscoverCharacteristicsForService: the outgoing
\* characteristic is there and the notifications are asked for.
DidDiscover(c) ==
    /\ c \in finding /\ phy[c] = "up"
    /\ finding' = finding \ {c}
    /\ telling' = telling \cup {c}
    /\ lk' = [lk EXCEPT !.out = TRUE, !.chr = c]
    /\ UNCHANGED phy

on_timecode(c) == [lk EXCEPT !.tc = c]

\* didUpdateValueForCharacteristic: timecode, and with it the transport.
DidUpdateValue(c) ==
    /\ c \in telling /\ phy[c] = "up" /\ lk.tc # c
    /\ lk' = on_timecode(c)
    /\ UNCHANGED <<phy, finding, telling>>

Callback(c) ==
    \/ DidConnect(c)
    \/ DidConnectLate(c)
    \/ DidFailToConnect(c)
    \/ DidDisconnect(c)
    \/ DidDiscover(c)
    \/ DidUpdateValue(c)

\* didDiscoverPeripheral: a connected body does not advertise.
Heard == {c \in Bodies : phy[c] \in {"none", "asked", "cancelled"}}

\* scan(): any of those that match may be what it comes back with.
Advertising(hinted) == Heard \cap hinted

\* write_control(): refused at once without the characteristic, and by
\* CoreBluetooth if that belongs to another peripheral or the body is gone.
Reaches == lk.chr # Nobody /\ lk.chr = lk.per /\ phy[lk.per] = "up"

forget_timecode == [lk EXCEPT !.tc = Nobody]

LinkInit ==
    /\ phy = [c \in Bodies |-> "none"]
    /\ lk = Idle
    /\ finding = {} /\ telling = {}
=============================================================================
