SPECIFICATION Spec
CONSTANTS
  Entity = {e1, e2}
  Value = {v1, v2}
  Deleted = Deleted
  Missing = Missing
  None = None
  Paths <- Tracked
  MaxEdits = 2
  MaxRemoteWrites = 2
  MaxFaults = 1
SYMMETRY Symmetry
INVARIANTS ChangeNeverForgotten
PROPERTIES EditNeverLost UntouchedKeptUnlessSkewed
CHECK_DEADLOCK FALSE
