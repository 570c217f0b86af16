SPECIFICATION FairSpec
CONSTANTS
  t1 = t1
  t2 = t2
  q1 = q1
  q2 = q2
  NULL = NULL
  Fetchers <- MCFetchers
  Queues <- MCQueues
  QueueLength = 2
INVARIANTS
  TypeOK
  OneFetcher
  ReturnHonest
  PendingOnlyMissed
PROPERTIES
  FreeUnblocks
