SPECIFICATION Spec
CONSTANTS
  Files = {f, g}
  NoFile = NoFile
  MaxSteps = 3
  MaxToolCalls = 2
  MaxWrites = 3
  Sandboxed = TRUE
INVARIANT MetricsAreCurrent
CHECK_DEADLOCK FALSE
