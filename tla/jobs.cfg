SPECIFICATION FairSpec
CONSTANTS
  a = a
  r = r
  x = x
  Jobs = {a, r}
  Recorders = {a}
  Datasets = {x}
  Dataset <- OneRecorder
  MaxRows = 3
PROPERTY CancelEnds
INVARIANTS StatusInv RowsKept SegmentsInOrder
CHECK_DEADLOCK FALSE
