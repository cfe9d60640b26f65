SPECIFICATION FairSpec
CONSTANTS
    N = 2
    Silent = {}
    SkipDt = {}
    EarlyDt = {1, 2}
    ShadowCap = {1, 2}
    DoShadow = TRUE
    DoRelease = TRUE
    BufCap = 1
    EventMax = 2
    MaxEvents = 2
    MaxFaults = 1
    MaxWrites = 0
PROPERTY DeadtimeEnds
CHECK_DEADLOCK FALSE
