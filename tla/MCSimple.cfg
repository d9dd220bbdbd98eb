SPECIFICATION FairSpec
CONSTANTS
  x1 = x1  x2 = x2  s1 = s1  s2 = s2  k1 = k1  k2 = k2  k3 = k3  p1 = p1  p2 = p2
  None = None
  Instances = {x1, x2}
  Stores = {s1}
  Keys = {k1, k2, k3}
  Payloads = {p1, p2}
  ThreadLimit = 2
  Uses <- AllUses
  MaxPending = 3
  MaxEpoch = 3
INVARIANTS FoundHasPayload NothingIsHalfDone
PROPERTIES PendingOnceIsInserted StoredAloneIsAppendOnly
CHECK_DEADLOCK FALSE
