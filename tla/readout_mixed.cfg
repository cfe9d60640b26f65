SPECIFICATION Spec
CONSTANTS
    N = 3
    Silent = {3}
    SkipDt = {}
    EarlyDt = {2}
    ShadowCap = {2}
    DoShadow = TRUE
    DoRelease = TRUE
    BufCap = 2
    EventMax = 1
    MaxEvents = 3
    MaxFaults = 1
    MaxWrites = 1
INVARIANTS ReconfigNotSkipped LateModulesInDeadtime
PROPERTIES ReconfigInDeadtime ImplementsEventStream
CHECK_DEADLOCK FALSE
