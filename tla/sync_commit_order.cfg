SPECIFICATION Spec
CONSTANTS
  Entity = {e1}
  Value = {v1, v2}
  Deleted = Deleted
  Missing = Missing
  None = None
  Paths <- CommitsOnly
  MaxEdits = 1
  MaxRemoteWrites = 0
  MaxFaults = 0
SYMMETRY Symmetry
PROPERTIES CommittedIsStored
CHECK_DEADLOCK FALSE
