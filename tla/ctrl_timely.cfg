SPECIFICATION Spec
CONSTANTS
    c1 = c1
    c2 = c2
    Clients = {c1, c2}
    Foreign = {c2}
    Kinds = {"one", "seq", "goc"}
    Lens = {1, 2}
    NodeMax = 2
    NumMod = 4
    Patience = 3
    MaxCalls = 2
    MaxStarts = 2
    MaxLoss = 1
    MaxDup = 0
    MaxLate = 0
INVARIANTS OwnReply NothingStale
CHECK_DEADLOCK FALSE
