CONSTANTS
  Carriers = {c1, c2}
  Tokens = {t1}
  Owners = {o1, o2}
  NoOwner = NoOwner
  Atoms = {a1}
  MaxTime = 2
  MaxEpoch = 1
SPECIFICATION Spec
CHECK_DEADLOCK FALSE
SYMMETRY OwnerSymmetry
INVARIANTS AtomsExclusive ExitCoversMotion
PROPERTY NothingStartsInFlight
