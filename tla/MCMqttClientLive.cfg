SPECIFICATION FairSpec
CONSTANTS
  NULL = NULL
  Publishers = {app}
  CommandTask = cmd
  Buffers = {b1, b2}
  QueueLength = 1
  AgentQueueLength = 1
  MaxCalls = 1
  MaxMessages = 2
PROPERTIES
  PublishReturns
  CallbackReturns
  QueuedHandled
