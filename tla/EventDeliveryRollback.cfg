SPECIFICATION Spec
CONSTANTS
  e1 = e1
  e2 = e2
  e3 = e3
  Event <- MCEvent
  MaxEvents = 2
  BatchSize = 2
  MaxEmitAttempts = 2
  RollsBack = TRUE
  MaxFaults = 2
SYMMETRY Symmetry
INVARIANT AcceptedIsNotLost
CHECK_DEADLOCK FALSE
