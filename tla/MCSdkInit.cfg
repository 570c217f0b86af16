SPECIFICATION FairSpec
CONSTANTS
  MaxSubscribe = 3
INVARIANTS
  TypeOK
  HeapReturned
  HostKnown
  UsernameFits
  QueueBeforeMessages
  SuccessMeansRunning
PROPERTIES
  InitEnds
CHECK_DEADLOCK FALSE
