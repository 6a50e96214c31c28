SPECIFICATION Spec
CONSTANTS
  f1 = f1
  f2 = f2
  f3 = f3
  Path <- MCPath
  QuietSeconds = 2
  MaxWaitSeconds = 2
  MaxPendingFiles = 2
  PollSeconds = 1
  StallBound = 1
  MaxReintroductions = 1
  MaxTime = 4
  MaxObservations = 3
SYMMETRY Symmetry
INVARIANT TypeOK
INVARIANT ObservationConservation
INVARIANT CeilingBoundsTheWait
INVARIANT OldestWindowFirst
PROPERTY QuietMeansQuiet
CHECK_DEADLOCK FALSE
