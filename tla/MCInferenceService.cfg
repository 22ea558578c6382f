SPECIFICATION FairSpec
CONSTANTS
  u1 = u1
  u2 = u2
  Units <- MCUnits
  NumHandlers = 2
  BatchSize <- MCBatchSize
  MaxInput = 1
  ResultCap = 1
  MaxRequests <- MCMaxRequests
INVARIANTS
  ExactlyOnce
  HandlerKeepsOrder
  QuietWhenUnitsStop
  InputQBound
PROPERTIES
  EveryRequestAnswered
  QuitEnds
