SPECIFICATION Spec
CONSTANTS
  CommitKinds = {}
  MaxChanges = 0
INVARIANTS ConfirmedIsDriven
CHECK_DEADLOCK FALSE
