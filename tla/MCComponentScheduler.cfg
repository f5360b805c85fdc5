SPECIFICATION Spec
CONSTANTS
  Patches = {"p1", "p2", "p3"}
  Claims = {"a1"}
  Aods = {"a1"}
  Grids = {"g"}
  Channels = {"ch"}
  Limits = {"l"}
  Codes = {"c1", "c2"}
  JointFamilies = {"f1"}
  NoFamily = NoFamily
  NoClaim = NoClaim
  MaxColumns = 3
  MaxReadout = 0
  Spacing = 1
  Columns <- MCColumns
  Nodes = {1, 2, 3, 4}
  Gates = {"g1"}
  Reasons = {"rejected"}
  Declared <- MCDeclared
  MaxTime = 1
  MaxSubmission = 2
  None = None
INVARIANTS CallsInOrder HeldProposalFresh NeverStuck
PROPERTY BatchMaximal
CHECK_DEADLOCK FALSE
