SPECIFICATION FairEngine
CONSTANTS
  Builds = {b1, b2}
  Cancellers = {c1}
  Kinds = {"launch"}
  Keep = 1
  MaxAt = 1
  MaxExits = 1
  None = None
INVARIANTS
  TypeOK
  CancelAnswerHolds
  NoLaunchOfCancelled
PROPERTIES
  ImplementsLedger
  LaunchReturns
CHECK_DEADLOCK FALSE
