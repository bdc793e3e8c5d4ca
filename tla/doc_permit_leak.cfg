CONSTANTS
  None = None
  Dumb = Dumb
  QueueSize = 1
  Submitters = {"s1"}
  Closers = {}
  Requests = {1, 2}
  NullRequests = {}
  WriteRequests = {1, 2}
  FileOf <- MCFileOf
  SemaphoreModes = {TRUE}
  UseFdatasync = TRUE
  PollModes = {"blocked"}
  PollMin = 1
  PollMax = 1
  Faults = {"submit"}
  SettledClose = TRUE
SPECIFICATION Spec
CHECK_DEADLOCK FALSE
INVARIANT BlocksOnlyWhenFull
