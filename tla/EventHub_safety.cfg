SPECIFICATION Spec
CONSTANTS
  Workspaces = {w1}
  Publishers = {p1, p2}
  Subs = {s1, s2}
  MaxHistory = 2
  MaxSubBuffer = 2
  MaxSubscribers = 2
  MaxSeq = 3
SYMMETRY HubSymmetry
INVARIANTS
  TypeOK
  RingHoldsLatest
  NoDuplicateDelivery
  ReplayBeforeLive
  PublisherOrder
  NoSilentMiss
CHECK_DEADLOCK FALSE
