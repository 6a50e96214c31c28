SPECIFICATION Spec
CONSTANTS
  d1 = d1
  d2 = d2
  Directory <- MCDirectory
  MayReturn = FALSE
  MaxChanges = 4
PROPERTY EveryLossIsHeard
CHECK_DEADLOCK FALSE
