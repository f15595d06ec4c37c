CONSTANTS
  Windows = {w1}
  First = w1
  Capacity = 1
  LargeWindows = TRUE
  MaxEdits = 3
  MaxEntries = 1
  MaxFailures = 1
SPECIFICATION FairSpec
PROPERTIES DirtyEventuallySaved
CHECK_DEADLOCK FALSE
