SPECIFICATION ConfSpec
CONSTANTS
    a = a
    b = b
    Bodies = {a, b}
    Nobody = Nobody
    AnyBody = AnyBody
    Wants <- MCWants
    Late = FALSE
    DbIds = {a, b}
    MaxSamples = 2
    CompactMin = 3
    MaxRecords = 4
    MaxTorn = 1
    ConfIds = {a}
    MaxEdits = 3
    Clients = {t, u}
    Procs = {p, q}
    MaxInodes = 2
    x = x
    y = y
    Scenes <- MCScenes
    Clocks = {0, 3}
    DongleBase = 40
    StaleAfter = 0
    WarnSilence = 1
    WarnOffset = 1
    MaxWall = 3
INVARIANT RemovedIsAtDefaults
CHECK_DEADLOCK FALSE
