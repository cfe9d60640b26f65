SPECIFICATION FairInitSpec
CONSTANTS
  M = 2
  PostInit = {1, 2}
  HasPex = TRUE
  DoShadow = TRUE
  MaxFails = 2
  MaxWrites = 2
INVARIANTS PreparedIsComplete LockDiscipline ShadowHasModules LostOnlyWhenLate
PROPERTIES ComesUp WorkedOff
CHECK_DEADLOCK FALSE
