\* Two events of any kinds, one of them sent again, over overlapping sessions.
SPECIFICATION FairSpec
CONSTANTS
  None = None
  e1 = e1
  e2 = e2
  Events = {e1, e2}
  Mixes <- SomeMixes
  Sessions = {s1, s2}
  MaxDeliveries = 2
  MinBackoff = 1
  MaxBackoff = 2
INVARIANTS
  AckedIsHandled
  HandledAsSent
PROPERTIES
  SlashIsAnswered
  StopEnds
CHECK_DEADLOCK FALSE
