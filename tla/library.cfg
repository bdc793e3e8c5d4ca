CONSTANTS
  Contexts = {x1, x2, x3}
  Hook = Hook
  QueueSize = 2
  SettledNew = TRUE
  Closed = Closed
SPECIFICATION Spec
CHECK_DEADLOCK FALSE
INVARIANT TypeOK
INVARIANT HandlerOutlivesContext
INVARIANT HandlerRemoved
INVARIANT NothingOrphaned
