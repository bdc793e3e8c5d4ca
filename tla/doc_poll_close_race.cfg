CONSTANTS
  None = None
  Dumb = Dumb
  QueueSize = 1
  Submitters = {"s1"}
  Closers = {"c1"}
  Requests = {1}
  NullRequests = {}
  WriteRequests = {1}
  FileOf <- MCFileOf
  SemaphoreModes = {TRUE}
  UseFdatasync = TRUE
  PollModes = {"blocked"}
  PollMin = 1
  PollMax = 1
  Faults = {}
  SettledClose = FALSE
SPECIFICATION Spec
CHECK_DEADLOCK FALSE
INVARIANT NoUseAfterFree
