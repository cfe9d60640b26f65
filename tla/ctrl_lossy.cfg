SPECIFICATION FairSpec
CONSTANTS
    c1 = c1
    Clients = {c1}
    Foreign = {}
    Kinds = {"seq", "goc", "write"}
    Lens = {2}
    NodeMax = 2
    NumMod = 4
    Patience = 3
    MaxCalls = 2
    MaxStarts = 2
    MaxLoss = 1
    MaxDup = 1
    MaxLate = 1
INVARIANT GocExecuted
PROPERTY CallReturns
CHECK_DEADLOCK FALSE
