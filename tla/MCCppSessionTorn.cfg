SPECIFICATION Spec
CONSTANTS
  NumPublishers = 2
  NumSubscribers = 2
  NumIter = 1
  InitializeSampleCount = 1
  SendQueueSize = 2
  MaxAnnouncements = 2
  Modes <- TornSession
CHECK_DEADLOCK TRUE
INVARIANTS
  NoSampleBeforeDiscovery
