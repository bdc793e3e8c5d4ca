CONSTANTS
  h1 = h1
  h2 = h2
  h3 = h3
  file = file
  other = other
  Handles = {h1, h2, h3}
  Fillers = {h1, h3}
  PathOf <- MCPathOf
  Requests = {h1, h3}
  HandleOf <- MCHandleOf
  Blocks = 2
  MaxTasks = 3
  None = None
SPECIFICATION Spec
CHECK_DEADLOCK FALSE
INVARIANT TypeOK
INVARIANT LockKept
INVARIANT WrittenToOwnFile
INVARIANT DurableOnFile
INVARIANT FilledAsAsked
