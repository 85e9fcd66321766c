SPECIFICATION FairPublishers
CONSTANTS
  Workspaces = {w1, w2}
  Publishers = {p1}
  Subs = {s1, s2}
  MaxHistory = 1
  MaxSubBuffer = 1
  MaxSubscribers = 1
  MaxSeq = 3
PROPERTIES
  PublishReturns
CHECK_DEADLOCK FALSE
