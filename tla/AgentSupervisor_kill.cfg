SPECIFICATION FairSupervisor
CONSTANTS
  MaxProcs = 3
  MaxSessions = 1
  MaxCrashes = 2
  TreeKill = TRUE
PROPERTIES
  KillRecovers
CHECK_DEADLOCK FALSE
