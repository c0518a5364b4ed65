\* Up to two Start calls, then Stop, which no Start follows (but another Stop
\* may); two channels of two kinds, or one beside a rejected configuration.
SPECIFICATION FairSpec
CONSTANTS
  N = 2
  Platforms <- MCPairs
  MaxStarts = 2
  Restarts = FALSE
INVARIANTS
  AtMostOneStartInFlight
  StopCancelsStarts
  StopEndsLoops
  
PROPERTIES
  
  CallsReturn
CHECK_DEADLOCK FALSE
