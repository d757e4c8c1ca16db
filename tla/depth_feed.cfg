\* Two levels, with sizes that round away and a connection that may drop.
CONSTANTS
  NLevels = 2
  Sizes = {0, 1, 2, 4}
  Openings <- Books
  MaxEvents = 4
  MaxClock = 4
  Fractions <- Quarters
  NWindows = 3
SPECIFICATION Spec
INVARIANTS
  FeedInv
  DepthIsRebuilt
  ReplaysAreTruthful
  AsOfIsPointInTime
  CutsKeepEmbargo
  CutsTile
CHECK_DEADLOCK FALSE
