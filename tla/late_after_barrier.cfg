SPECIFICATION Spec
CONSTANTS
    N = 2
    Silent = {1}
    SkipDt = {}
    EarlyDt = {}
    ShadowCap = {}
    DoShadow = FALSE
    DoRelease = TRUE
    BufCap = 1
    EventMax = 1
    MaxEvents = 1
    MaxFaults = 0
    MaxWrites = 0
INVARIANT LateModulesInDeadtime
CHECK_DEADLOCK FALSE
