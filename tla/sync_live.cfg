SPECIFICATION FairSpec
CONSTANTS
  Entity = {e1}
  Value = {v1, v2}
  Deleted = Deleted
  Missing = Missing
  None = None
  Paths <- Tracked
  MaxEdits = 1
  MaxRemoteWrites = 1
  MaxFaults = 1
PROPERTIES ChangeEventuallySent Converges
CHECK_DEADLOCK FALSE
