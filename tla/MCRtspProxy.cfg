SPECIFICATION FairSpec
CONSTANTS
  PayloadMax = 2
  Documents <- MCDocuments
  FirstNumbers = {0, 65534}
  MaxMedia = 2
  MaxDocuments = 3
INVARIANT
  DocumentsWhole
PROPERTY
  ProxyStopEnds
CHECK_DEADLOCK FALSE
