\* A full response is larger than what getUpdates reads of it.
SPECIFICATION FairSpec
CONSTANTS
  MaxUpdates = 2
  Limit = 2
  Big = {1}
  BodyCap = 2
  MaxDeaths = 0
PROPERTIES
  PostedIsHandled
CHECK_DEADLOCK FALSE
