SPECIFICATION CameraSpec
CONSTANTS
    MaxHandle = 1
    MaxConns = 2
    MaxCalls = 4
    MaxRounds = 2
    MaxFragments = 2
    AclTotal = 1
    Present = {"timecode", "incoming", "outgoing"}
    Scattered = FALSE
    Stray = TRUE
CHECK_DEADLOCK FALSE
PROPERTY CallsAreAnswered
INVARIANTS
    LinkStateIsItsOwn
