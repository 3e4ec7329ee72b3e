------------------------------- MODULE MCMac -------------------------------
\* Two bodies, asked for by id or not at all; two recordings' worth of samples,
\* four recordings and one of them torn; three edits; two clients; four rooms.
EXTENDS Mac

CONSTANTS a, b, x, y

MCWants == {AnyBody, [cam |-> a, by |-> "id"], [cam |-> b, by |-> "id"]}

\* Two boxes of one radio, one box of two, and two cameras, of which cycles are
\* asked for one or for both.  The ids of the cameras are those of the bodies.
BoxOn(radio, box) == [radio |-> radio, box |-> box]
AllOn == [there |-> TRUE, off |-> {}, warn |-> {a, b, x, y}, cams |-> {a, b}]
SomeOff == [there |-> TRUE, off |-> {b, y}, warn |-> {a, b, x}, cams |-> {a, b}]
MCScenes ==
    LET room(bench, keys, cams, for, reads, confs) ==
            [bench |-> bench, keys |-> keys, cams |-> cams, asked |-> for, reads |-> reads, confs |-> confs]
    IN  {room(TRUE, {BoxOn(Local, x), BoxOn(Local, y)}, {}, {}, {}, {AllOn, SomeOff}),
         room(TRUE, {BoxOn(Local, x), BoxOn("dongle", x)}, {}, {}, {}, {AllOn}),
         room(TRUE, {}, {a, b}, {a}, BOOLEAN, {AllOn, SomeOff}),
         room(FALSE, {}, {a, b}, {a, b}, {TRUE}, {AllOn})}

\* The configuration file and its editors alone.
ConfSpec == Init /\ part = "conf" /\ [][Next]_vars
=============================================================================
