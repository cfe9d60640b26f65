SPECIFICATION MCSpec
CONSTANTS
  Items <- MCItems
  Blocks <- MCBlocks
  Start <- MCStart
  Snippets <- MCSnippets
  RawMax = 3
  DupMax = 3
  Room = 12
  MaxMerge = 2
  MaxCut = 3
  Programs <- MCPrograms
  Main = "main"
  Auto <- MCAuto
  BlockDepth = 2
  TagBlocks <- MCTagBlocks
  ModuleBlocks <- MCModuleBlocks
  Places <- MCPlaces
  Skips = {8, 31}
  Overrides = {0, 40}
  MaxBlocks = 4
  MaxTriggers = 1
  Registers <- MCRegisters
  Sizes = {8, 9, 11, 506}
  RequestMax = 504
  NodeMax = 32
  Cases <- MCCases
  Uses <- MCUses
  Word = 12
  IntMax = 2047
INVARIANTS GotIsMeant UnusedIsReported AnswerIsTrue FailsForCause RefusedLeavesNoTrace MergeIsExact DownForCause
  TreeSaysWhatFilesSay OverwritingLoads TagsServeModules NeighboursDiffer
CHECK_DEADLOCK FALSE
