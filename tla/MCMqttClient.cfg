SPECIFICATION Spec
CONSTANTS
  NULL = NULL
  Publishers = {app}
  CommandTask = cmd
  Buffers = {b1, b2, b3}
  QueueLength = 2
  AgentQueueLength = 2
  MaxCalls = 2
  MaxMessages = 3
SYMMETRY Symmetry
INVARIANTS
  TypeOK
  BufferOwnership
  CommandOrder
  FreshNotification
  NoLostWakeup
  OutcomeOrder
PROPERTIES
  OwnOutcome
  DeliversInOrder
