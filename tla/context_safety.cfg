CONSTANTS
  None = None
  Dumb = Dumb
  QueueSize = 2
  Submitters = {"s1", "s2"}
  Closers = {"c1", "c2"}
  Requests = {1, 2, 3}
  NullRequests = {}
  WriteRequests = {1, 2}
  FileOf <- MCFileOf
  SemaphoreModes = {TRUE, FALSE}
  UseFdatasync = TRUE
  PollModes = {"blocked", "array"}
  PollMin = 1
  PollMax = 2
  Faults = {"io", "interrupt", "getevents", "submit", "callback"}
  SettledClose = TRUE
SPECIFICATION Spec
INVARIANT TypeOK
INVARIANT NoUseAfterFree
INVARIANT NoOvercommit
INVARIANT NoRequestAbandoned
INVARIANT EachIocbFreedOnce
INVARIANT ToldOnce
INVARIANT DoneIsDurable
INVARIANT RefsExact
INVARIANT ErrorsReported
INVARIANT PermitsConserved
PROPERTY PoolProtocol
