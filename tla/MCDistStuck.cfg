SPECIFICATION FairSpec
CONSTANTS
  c1 = c1  c2 = c2  k1 = k1  k2 = k2  p1 = p1  p2 = p2  t1 = t1  t2 = t2
  None = None
  Tries = {t1, t2}
  Keys = {k1, k2}
  Payloads = {p1, p2}
  Clients = {c1, c2}
  Uses <- RepeatedInserts
PROPERTY UpdatesArePublished
CHECK_DEADLOCK FALSE
