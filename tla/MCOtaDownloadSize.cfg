SPECIFICATION Spec
CONSTANTS
  ImageSizes <- MCImageSizes
  ChunkSize = 2
  MaxTries = 1
  StackDigits = {}
  MaxRequests = 2
INVARIANTS
  SizeIsActual
