SPECIFICATION Spec
CONSTANTS
  Entity = {e1, e2}
  Value = {v1, v2}
  Deleted = Deleted
  Missing = Missing
  None = None
  Paths <- UsageOnly
  MaxEdits = 2
  MaxRemoteWrites = 1
  MaxFaults = 0
SYMMETRY Symmetry
PROPERTIES UntouchedNeverReverted
CHECK_DEADLOCK FALSE
