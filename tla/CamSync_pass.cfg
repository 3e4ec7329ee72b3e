SPECIFICATION FairSpec
CONSTANTS
    Second = 8
    Tolerance = 1
    WriteTolerance = 8
    RestartStep = 8
    MaxBiasStep = 2
    MaxAdapts = 1
    MaxFailures = 2
    Poll = 1
    MaxPoll = 3
    Slices = 2
    MinWriteInterval = 4
    MinDriftInterval = 2
    Frame = 1
    SlowestSpan = 8
    MaxLead = 1
    MaxLate = 0
    MaxDelay = 1
    MaxSpan = 4
    MaxError = 2
    Walks <- MCWalks
    Jumps <- MCJumps
    Quirks <- MCQuirks
    MaxMeddling = 1
    MaxHeld = 3
INVARIANTS
    WritesAreRationed
    LandsWhereAimed
    LooksInTime
PROPERTIES
    Converges
