SPECIFICATION GroupSpec
CONSTANTS
  Patches = {1, 2, 3, 4}
  Claims <- MCClaims
  Aods = {"a1", "a2"}
  Grids = {"g", "h"}
  Channels = {"ch"}
  Limits = {"l", "m"}
  Codes = {"c1", "c2"}
  JointFamilies = {"f1", "f2"}
  NoFamily = NoFamily
  NoClaim = NoClaim
  MaxColumns = 4
  MaxReadout = 3
  Spacing = 1
  Columns <- MCColumns
  Declarations <- MCDeclarations
  MaxGroup = 3
INVARIANT GroupsSound
CHECK_DEADLOCK FALSE
