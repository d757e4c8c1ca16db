\* Thresholds alpha * k / m that p-values meet exactly, and an odd number of
\* partitions.
CONSTANTS
  MaxCandidates = 4
  D = 8
  Alpha = 4
  PValues = {1, 2, 4, 8}
  Scores = {0, 1}
  cscv_partitions = 3
SPECIFICATION Spec
INVARIANTS
  EvaluationsAreTheirOwn
  CorrectionIsExact
  FailuresOnlyHurt
PROPERTIES
  PboJudgesSelection
  EvaluationIsReport
CHECK_DEADLOCK FALSE
