SPECIFICATION Spec
CONSTANTS
  a = a
  b = b
  Path <- MCPath
  MaxPendingFiles = 1
  MaxQueueDepth = 1
  MaxReintroductions = 1
  MaxEmitAttempts = 2
  MaxObservations = 3
SYMMETRY Symmetry
INVARIANT CleanJoinLosesNothing
