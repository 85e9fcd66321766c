SPECIFICATION FairEvents
CONSTANTS
  Workspaces = {w1, w2}
  NoWorkspace = none
  Streams = 2
  MaxSeq = 2
  MaxSubBuffer = 1
  MaxCrashes = 1
  MaxMoves = 3
INVARIANTS
  TypeOK
  OneStream
  StatusIsCurrent
  NoGap
PROPERTIES
  Connects
CHECK_DEADLOCK FALSE
