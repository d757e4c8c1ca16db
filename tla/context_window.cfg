SPECIFICATION ContextSpec
CONSTANTS
  Budget = 6
  KeepRecent = 2
  Sizes <- OneOrThree
  MaxCalls = 2
  MaxTurns = 4
INVARIANTS PairsInv WindowFits
CHECK_DEADLOCK FALSE
