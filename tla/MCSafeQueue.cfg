SPECIFICATION FairSpec
CONSTANTS
  Consumers = {c1, c2, c3}
  MaxSize = 2
  MaxItems = 5
INVARIANTS
  TypeOK
  Ordered
  WithinMaxSize
  NoLostWakeup
  TerminateReachesAll
PROPERTIES
  ImplementsChannel
  TerminatedConsumersReturn
