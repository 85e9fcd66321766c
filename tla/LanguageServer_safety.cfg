SPECIFICATION FairServer
CONSTANTS
  Projects = {a, b}
  MaxRestarts = 2
  MaxRetries = 1
  Slots = 4
  MaxChanges = 3
  MaxCrashes = 2
  MaxFailures = 1
INVARIANTS
  TypeOK
  SkipIsSafe
  NoOrphan
PROPERTIES
  Serves
  Settles
CHECK_DEADLOCK FALSE
