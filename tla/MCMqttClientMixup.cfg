SPECIFICATION Spec
CONSTANTS
  NULL = NULL
  Publishers = {app}
  CommandTask = cmd
  Buffers = {b1}
  QueueLength = 1
  AgentQueueLength = 2
  MaxCalls = 2
  MaxMessages = 1
PROPERTIES
  OutcomeMatchesCall
