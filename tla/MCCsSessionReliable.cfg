SPECIFICATION FairSpec
CONSTANTS
  NumPublishers = 2
  NumSubscribers = 2
  NumIter = 1
  DataSize = "DATA"
  InitializeSampleCount = 1
  AnnouncementSampleCount = 2
  SendQueueSize = 2
  MaxLosses = 0
  Modes <- ReliableSessions
CHECK_DEADLOCK TRUE
INVARIANTS
  NoSampleBeforeDiscovery
  EndTestAfterAllPublishers
  NothingMissedWhenReliable
PROPERTIES
  ImplementsTestSession
