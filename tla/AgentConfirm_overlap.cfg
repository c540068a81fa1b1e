CONSTANTS
  Runs = {r1, r2}
  MaxBatches = 1
  MaxFaults = 0
SPECIFICATION Spec
INVARIANT ConfirmedOnce
CHECK_DEADLOCK FALSE
