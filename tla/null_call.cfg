SPECIFICATION InitSpec
CONSTANTS
  M = 2
  PostInit = {1}
  HasPex = FALSE
  DoShadow = TRUE
  MaxFails = 1
  MaxWrites = 1
INVARIANT NoNullCall
CHECK_DEADLOCK FALSE
