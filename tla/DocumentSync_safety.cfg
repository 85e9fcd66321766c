SPECIFICATION FairSync
CONSTANTS
  Docs = {d1}
  MaxText = 3
  MaxStarts = 2
  MaxQueue = 2
INVARIANTS
  NoTornCopy
  InTurn
  AnswerIsFresh
PROPERTIES
  ImplementsMirror
  Converges
CHECK_DEADLOCK FALSE
