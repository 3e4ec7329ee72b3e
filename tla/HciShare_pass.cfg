SPECIFICATION Spec
CONSTANTS
    Users = {u1, u2}
    Peers = {p1, p2}
    NoPeer = NoPeer
    RoughUsers = {u1}
    RoughPeers = {p1}
    Radios = {"calm", "rough"}
\* The dongle may be unplugged.
CHECK_DEADLOCK FALSE

    
PROPERTY SettlesDown
