CONSTANTS
  Runs = {r1}
  MaxBatches = 2
  MaxFaults = 0
SPECIFICATION Spec
INVARIANT OnlyApprovedRuns
CHECK_DEADLOCK FALSE
