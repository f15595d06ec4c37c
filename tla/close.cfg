SPECIFICATION FairSpec
CONSTANTS
  CommitKinds = {"plain", "inWindow"}
  MaxChanges = 3
INVARIANTS Consistent DrivenUnlessGap
PROPERTIES ImplementsProtocol ConfirmedEnds
CHECK_DEADLOCK FALSE
