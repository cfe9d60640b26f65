SPECIFICATION Spec
CONSTANTS
    N = 2
    Silent = {}
    SkipDt = {}
    EarlyDt = {1, 2}
    ShadowCap = {1, 2}
    DoShadow = TRUE
    DoRelease = TRUE
    BufCap = 2
    EventMax = 1
    MaxEvents = 3
    MaxFaults = 2
    MaxWrites = 0
INVARIANTS Complete NoOverlap Aligned
CHECK_DEADLOCK FALSE
