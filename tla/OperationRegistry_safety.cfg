SPECIFICATION Spec
CONSTANTS
  Requests = {r1, r2, r3, r4}
  Keys = {k1, k2}
  NoId = NoId
  Payloads = {h1, h2}
  None = None
  MaxEntries = 1
  TTL = 0
  MaxClock = 1
  MaxRestarts = 1
SYMMETRY RegistrySymmetry
INVARIANTS
  OneWorkerPerKey
  OnceWhileKept
  MapBounded
  WaiterIsServed
CHECK_DEADLOCK FALSE
