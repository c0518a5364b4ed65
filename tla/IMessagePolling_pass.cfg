\* No page consists of rows without text only.
SPECIFICATION FairSpec
CONSTANTS
  MaxRows = 4
  Blank = {2}
  Limit = 2
  MaxDeaths = 1
INVARIANTS
  EachRowOnce
PROPERTIES
  DeliverySpec
  StoppedIsQuiet
  StopEnds
  ArrivedIsHandled
CHECK_DEADLOCK FALSE
