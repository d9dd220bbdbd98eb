SPECIFICATION Spec
CONSTANTS
  x1 = x1  x2 = x2  s1 = s1  s2 = s2  k1 = k1  k2 = k2  k3 = k3  p1 = p1  p2 = p2
  None = None
  Instances = {x1, x2}
  Stores = {s1, s2}
  Keys = {k1}
  Payloads = {p1}
  ThreadLimit = 2
  Uses <- NotAsked
  MaxPending = 1
  MaxEpoch = 2
INVARIANTS TypeOK CheckSeesUpdate
CHECK_DEADLOCK FALSE
