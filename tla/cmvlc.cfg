SPECIFICATION FairSpec
CONSTANTS
    N = 2
    Half = 2
    Modes = {"free", "trig", "raw"}
    MaxEdit = 1
    MaxMiss = 2
INVARIANTS AcceptedIsWhole RefusedForCause
PROPERTY Recovers
