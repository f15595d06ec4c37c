SPECIFICATION Spec
CONSTANTS
  Entity = {e1}
  Value = {v1, v2}
  Deleted = Deleted
  Missing = Missing
  None = None
  Paths <- Everything
  MaxEdits = 2
  MaxRemoteWrites = 1
  MaxFaults = 1
SYMMETRY Symmetry
INVARIANTS TypeOK NeverWedged KnownVersions
PROPERTIES NoUnseenOverwrite
CHECK_DEADLOCK FALSE
