SPECIFICATION Spec
CONSTANTS
  Circuits <- MCCircuits
  Durations <- MCDurations
  Limits <- MCLimits
  Latencies = {0, 2}
  Transport = {0, 1}
  NoLayer = NoLayer
  NoResult = NoResult
  Altered <- MCAltered
  MaxAlterations = 1
  Bodies = {3}
  Longer = {1, 2, 3}
INVARIANTS
  TesterEarliest
  StopsForCause
  ChecksExact
PROPERTIES
  ReadersKeepOrder
  PreviewExact
  Finishes
CHECK_DEADLOCK FALSE
