\* Limit rows without text in a row.
SPECIFICATION FairSpec
CONSTANTS
  MaxRows = 3
  Blank = {1, 2}
  Limit = 2
  MaxDeaths = 0
PROPERTY ArrivedIsHandled
CHECK_DEADLOCK FALSE
