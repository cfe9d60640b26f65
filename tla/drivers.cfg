SPECIFICATION MCSpec
CONSTANTS
    CounterMod = 16
    NumberMod = 4
    CutOff = 4
    Channels = 2
    Geo = 2
    ScalerStarts = {5, 13}
    EventMax = 2
    MaxEvents = 4
    MaxFaults = 1
    MaxEdits = 1
CHECK_DEADLOCK FALSE
INVARIANTS AcceptedIsEvents RefusedAfterFault AsStarted ChoiceIsHeard
