SPECIFICATION FairSpec
CONSTANTS
  Files = {f, g}
  NoFile = NoFile
  MaxSteps = 4
  MaxToolCalls = 3
  MaxWrites = 3
  Sandboxed = TRUE
INVARIANTS TypeOK CandidateIsReal WorkIsNotLost
PROPERTIES ImplementsTask NoChatAfterSubmission
CHECK_DEADLOCK FALSE
