CONSTANTS
  None = None
  Dumb = Dumb
  QueueSize = 2
  Submitters = {"s1", "s2"}
  Closers = {"c1"}
  Requests = {1, 2, 3}
  NullRequests = {}
  WriteRequests = {1, 2}
  FileOf <- MCFileOf
  SemaphoreModes = {TRUE}
  UseFdatasync = TRUE
  PollModes = {"blocked"}
  PollMin = 1
  PollMax = 2
  Faults = {"io"}
  SettledClose = TRUE
SPECIFICATION FairSpec
CHECK_DEADLOCK FALSE
PROPERTY AcceptedIsDone
PROPERTY SubmissionSettles
PROPERTY CloseStopsPoll
