CONSTANTS
  Windows = {w1, w2}
  First = w1
  Capacity = 1
  LargeWindows = TRUE
  MaxEdits = 1
  MaxEntries = 2
  MaxFailures = 1
SPECIFICATION Spec
INVARIANTS TypeOK Connected CleanIsStored SoleWindowKeepsAcked CleanCloseLeavesNothing FailureReported
PROPERTIES UsageNeverErased
CHECK_DEADLOCK FALSE
