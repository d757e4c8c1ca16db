\* One job with more experiments than slots: scheduling, accounting, progress.
CONSTANTS
  Jobs = {1}
  MaxExp = 3
  NExp <- OneJobOfThree
  MaxParallel = 2
  MaxCalls = 1
SPECIFICATION FairSpec
INVARIANTS
  TypeOK
  SlotsAccounted
  SurvivorCountHolds
PROPERTIES
  ImplementsLifecycle
  JobsEnd
CHECK_DEADLOCK FALSE
