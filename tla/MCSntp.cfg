SPECIFICATION FairSpec
CONSTANTS
  StartupDelay = 1
  RecvTimeout = 2
  RetryTimeout = 2
  RetryTimeoutMax = 5
  UpdateDelay = 5
  Bits = 3
  MaxTries = 1
  MaxDisturbances = 1
INVARIANTS
  TypeOK
  NeverStalls
  OneChain
  Backoff
  ReachabilityHonest
  ReachableMeansSet
PROPERTIES
  KeepsAsking
CHECK_DEADLOCK FALSE
