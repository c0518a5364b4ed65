\* Two connections that may or may not share a session, from start to exit.
SPECIFICATION GFairSpec
CONSTANTS
  Conns = {c1, c2}
  Sessions = {s}
INVARIANTS
  NoGhostClients
  OwnIdIsListed
  ExitTellsShutdown
PROPERTIES
  GoneIsCleanedUpInTime
  SignalEnds
CHECK_DEADLOCK FALSE
