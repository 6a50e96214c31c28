SPECIFICATION Spec
CONSTANTS
  MaxKeys = 3
  MaxFaults = 2
  MaxRepairs = 2
INVARIANT AlwaysRecoverable
CHECK_DEADLOCK FALSE
