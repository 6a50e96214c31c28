SPECIFICATION FairSpec
CONSTANTS
  d1 = d1
  d2 = d2
  Directory <- MCDirectory
  MayReturn = FALSE
  MaxChanges = 5
INVARIANT TypeOK
INVARIANT NothingStartsAfterStop
PROPERTY ActiveHidesNoLoss
PROPERTY ActiveMeansWatched
PROPERTY MissingDirectoryReturns
CHECK_DEADLOCK FALSE
