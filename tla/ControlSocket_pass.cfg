SPECIFICATION Spec
CONSTANTS
    Cams = {c1}
    NoCam = NoCam
    MaxHistory = 2
    MaxRequests = 3
    MaxTargets = 2
    MaxEvents = 2
    MaxEmits = 3
    MaxPolls = 3
    MaxRestarts = 1
\* The daemon may be told to stop.
CHECK_DEADLOCK FALSE
INVARIANTS
    RunningIsServed
    NoEventSkippedAfterRestart
PROPERTIES
    RequestsAreAnswered
    EventsArrive
