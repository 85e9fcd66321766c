SPECIFICATION FairServer
CONSTANTS
  Projects = {a}
  MaxRestarts = 3
  MaxRetries = 2
  Slots = 3
  MaxChanges = 3
  MaxCrashes = 0
  MaxFailures = 0
PROPERTIES
  ComesBack
CHECK_DEADLOCK FALSE
