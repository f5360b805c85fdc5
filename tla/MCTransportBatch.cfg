SPECIFICATION Spec
CONSTANTS
  Atoms = {"a1", "a2", "a3"}
  Sites <- MCSites
  Aods = {"d1", "d2"}
  SiteAt <- MCSiteAt
  Capacity <- MCCapacity
  Spacing <- MCSpacing
  Workspace <- MCWorkspace
  Rigid = {"d2"}
  Members = {1, 2}
  LocalIds = {0}
  Xs = {0, 1, 2, 3}
  Ys = {0, 1}
  Entry <- MCEntry
  Declared <- MCDeclared
  NoWave = NoWave
  MaxSteps = 4
INVARIANTS SoundLayouts MembersUndisturbed RefusedForCause
CHECK_DEADLOCK FALSE
