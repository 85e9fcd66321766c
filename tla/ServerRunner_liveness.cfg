SPECIFICATION FairRunner
CONSTANTS
  Servers = {s1}
  Ops = {o1}
  Insts = {i1, i2, i3}
  Ports = {p1}
  KillOnClose = FALSE
  MaxExits = 1
  None = None
PROPERTIES
  RequestsReturn
CHECK_DEADLOCK FALSE
