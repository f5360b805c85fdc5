SPECIFICATION Spec
CONSTANTS
  p1 = p1
  p2 = p2
  r = r
  k1 = k1
  k2 = k2
  Producers = {p1, p2}
  Readers = {r}
  Keys = {k1, k2}
  Requests <- MCRequests
  Variants = {1, 2}
  Nobody = Nobody
  None = None
  MaxCrashes = 1
  MaxDamage = 1
INVARIANTS
  GroupsGenuine
  NoWorkTwice
PROPERTIES
  Served
CHECK_DEADLOCK FALSE
