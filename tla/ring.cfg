CONSTANTS
  Nr = 5
  QueueSize = 3
  Calls <- MCAllCalls
  UsableRing = TRUE
  MaxEvents = 9
SPECIFICATION FairSpec
INVARIANT TypeOK
INVARIANT CountsAgree
INVARIANT BatchInOrder
INVARIANT CopyInOrder
INVARIANT CallHonoured
PROPERTY ImplementsQueue
PROPERTY AllEventsRead
