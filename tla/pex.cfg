SPECIFICATION Spec
CONSTANTS
    Crates <- MCCrates
    MaxTrig = 3
    MaxMiss = 1
    MaxGoc = 1
    MaxReconf = 1
CHECK_DEADLOCK FALSE
INVARIANTS AcceptedIsEvent OtherEventForCause AlarmHasCause
PROPERTIES GocIsTrue
