CONSTANTS
  Carriers = {c1}
  Tokens = {t1, t2}
  Owners = {o1, o2}
  NoOwner = NoOwner
  Atoms = {}
  MaxTime = 1
  MaxEpoch = 1
  Slots = {s1, s2}
  Capacity = 2
SPECIFICATION BufferSpec
SYMMETRY Symmetry
CHECK_DEADLOCK FALSE
INVARIANTS RecordsAgree ShelfTrue BooksAgree
PROPERTIES ClosedDrains ImplementsCustody
