SPECIFICATION FairSpec
CONSTANTS
  e1 = e1
  e2 = e2
  e3 = e3
  Event <- MCEvent
  MaxEvents = 2
  BatchSize = 2
  MaxEmitAttempts = 2
  RollsBack = FALSE
  MaxFaults = 2
INVARIANT TypeOK
INVARIANT AcceptedIsNotLost
INVARIANT DuplicatesHaveACause
PROPERTY OldestFirst
PROPERTY QueueKept
PROPERTY EveryEventIsSettled
CHECK_DEADLOCK FALSE
