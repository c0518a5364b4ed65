\* Two deaths, responses of at most two updates, every response within BodyCap.
SPECIFICATION FairSpec
CONSTANTS
  MaxUpdates = 3
  Limit = 2
  Big = {2}
  BodyCap = 4
  MaxDeaths = 2
INVARIANTS
  OffsetNeverSkips
  RepeatsBounded
  UnansweredBounded
PROPERTIES
  DeliverySpec
  PostedIsHandled
CHECK_DEADLOCK FALSE
