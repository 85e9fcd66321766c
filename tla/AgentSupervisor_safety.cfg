SPECIFICATION FairSupervisor
CONSTANTS
  MaxProcs = 4
  MaxSessions = 2
  MaxCrashes = 1
  TreeKill = TRUE
INVARIANTS
  TypeOK
  RegistryIsRight
  OnePort
  QuitsClean
PROPERTIES
  FirstKillRecovers
CHECK_DEADLOCK FALSE
