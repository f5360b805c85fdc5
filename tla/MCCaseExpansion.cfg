CONSTANTS
  none = none
  None <- none
  Cases <- MCCases
SPECIFICATION Spec
INVARIANT ExportTrue
CHECK_DEADLOCK FALSE
