\* Start once, Stop while the start is still in flight.
SPECIFICATION Spec
CONSTANTS
  N = 1
  Platforms <- MCAlone
  MaxStarts = 1
  Restarts = FALSE
INVARIANT StopLeavesNothingRunning
CHECK_DEADLOCK FALSE
