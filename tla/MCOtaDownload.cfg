SPECIFICATION FairSpec
CONSTANTS
  ImageSizes <- MCImageSizes
  ChunkSize = 2
  MaxTries = 2
  StackDigits = {0}
  MaxRequests = 2
INVARIANTS
  TypeOK
  ImageComplete
  ContiguousPrefix
  StringsFreed
PROPERTIES
  RequestEnds
  HandlesRequests
