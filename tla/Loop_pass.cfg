SPECIFICATION Spec
CONSTANTS
    MaxTimers = 2
    MaxSources = 1
    MaxTime = 3
    Delays = {0, 1}
    Periods = {1}
    MaxWaits <- NoLimitOrNow
    Interests <- ReadOrNothing
    Happens = {"in", "hup", "err"}
CHECK_DEADLOCK FALSE
PROPERTIES
    TimersKeepTheirPromise
    DueTimersFire
    SentBytesAreOffered
