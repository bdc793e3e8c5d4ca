CONSTANTS
  None = None
  Dumb = Dumb
  QueueSize = 2
  Submitters = {"s1", "s2"}
  Closers = {"c1"}
  Requests = {1, 2, 3}
  NullRequests = {3}
  WriteRequests = {1, 2}
  FileOf <- MCFileOf
  SemaphoreModes = {TRUE}
  UseFdatasync = TRUE
  PollModes = {"blocked"}
  PollMin = 1
  PollMax = 2
  Faults = {"timeout", "submit", "callback", "io", "fdatasync"}
  SettledClose = TRUE
SPECIFICATION FairSpec
CHECK_DEADLOCK FALSE
PROPERTY CloseReturns
INVARIANT PermitsConserved
