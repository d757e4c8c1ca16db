\* Two jobs on one store, with curation and crashes: what a reader sees.
CONSTANTS
  Jobs = {1, 2}
  MaxExp = 2
  NExp <- TwoJobs
  MaxParallel = 1
  MaxCalls = 0
SPECIFICATION Spec
INVARIANTS
  BoardHasProvenance
  CompletedRunIsWhole
CHECK_DEADLOCK FALSE
