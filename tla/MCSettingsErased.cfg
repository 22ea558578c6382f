SPECIFICATION FairSpec
CONSTANTS
  NumCams = 2
  MaxRows = 1
  MaxDisturbances = 2
PROPERTY ErrorErasesNothing
CHECK_DEADLOCK FALSE
