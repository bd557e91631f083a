SPECIFICATION FairSpec
CONSTANTS
  NumPublishers = 2
  NumSubscribers = 2
  NumIter = 1
  InitializeSampleCount = 1
  SendQueueSize = 2
  MaxAnnouncements = 1
  Modes <- Sessions
CHECK_DEADLOCK FALSE
INVARIANTS
  NothingMissedWhenReliable
PROPERTIES
  SessionEnds
  ImplementsTestSession
