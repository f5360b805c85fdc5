SPECIFICATION Spec
CONSTANTS
  p1 = p1
  p2 = p2
  c1 = c1
  c2 = c2
  None = None
  Parking = Parking
  Producers <- TwoProducers
  Consumers <- TwoConsumers
  InitialRoles <- OneRole
  Rotations = 2
  Capacities = {1, 2}
  MaxCycles = 4
  Batches = 2
  MaxFaults = 1
INVARIANTS RolesSound ChecksAgree InventoryKept StuckForRoom
PROPERTIES DiscardByKeeper KeepsContract Terminates
