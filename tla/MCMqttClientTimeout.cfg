SPECIFICATION Spec
CONSTANTS
  NULL = NULL
  Publishers = {app}
  CommandTask = cmd
  Buffers = {b1}
  QueueLength = 1
  AgentQueueLength = 1
  MaxCalls = 1
  MaxMessages = 1
INVARIANTS
  SuccessIsAcknowledged
