SPECIFICATION Spec
CONSTANTS
  Word = 11
  TickRate = 3
  Second = 5
  Epoch = 4
  Starts <- MCStarts
  MaxMoment = 24
  None = None
INVARIANTS
  TypeOK
  RightUntilWrap
  WrongAfterWrap
  ElapsedRight
