CONSTANTS
  Windows = {w1, w2}
  First = w1
  Capacity = 1
  LargeWindows = FALSE
  MaxEdits = 1
  MaxEntries = 1
  MaxFailures = 0
SPECIFICATION Spec
PROPERTIES FullNeverRevertsPreferences
CHECK_DEADLOCK FALSE
