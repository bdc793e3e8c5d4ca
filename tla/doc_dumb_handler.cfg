CONSTANTS
  Contexts = {x1}
  Hook = Hook
  QueueSize = 1
  SettledNew = TRUE
  Closed = Closed
SPECIFICATION Spec
CHECK_DEADLOCK FALSE
INVARIANT DumbHandlerClosed
