CONSTANTS
  Contexts = {x1, x2}
  Hook = Hook
  QueueSize = 1
  SettledNew = FALSE
  Closed = Closed
SPECIFICATION Spec
CHECK_DEADLOCK FALSE
INVARIANT HandlerOutlivesContext
