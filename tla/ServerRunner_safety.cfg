SPECIFICATION Spec
CONSTANTS
  Servers = {s1}
  Ops = {o1, o2}
  Insts = {i1, i2}
  Ports = {p1, p2}
  KillOnClose = FALSE
  MaxExits = 1
  None = None
SYMMETRY RunnerSymmetry
INVARIANTS
  RunningIsTracked
  NoLeak
  StoppedIsDeadInTurn
CHECK_DEADLOCK FALSE
