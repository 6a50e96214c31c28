SPECIFICATION FairSpec
CONSTANTS
  a = a
  b = b
  Path <- MCPath
  MaxPendingFiles = 1
  MaxQueueDepth = 1
  MaxReintroductions = 1
  MaxEmitAttempts = 2
  MaxObservations = 2
INVARIANT TypeOK
INVARIANT NothingVanishes
INVARIANT CleanJoinEmptiesTheLists
INVARIANT RoundsArePaidFor
PROPERTY SettledOnce
PROPERTY EveryObservationIsSettled
PROPERTY StopEnds
