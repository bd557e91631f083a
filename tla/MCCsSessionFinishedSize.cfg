SPECIFICATION FairSpec
CONSTANTS
  NumPublishers = 1
  NumSubscribers = 1
  NumIter = 2
  DataSize = "FINISHED"
  InitializeSampleCount = 1
  AnnouncementSampleCount = 2
  SendQueueSize = 2
  MaxLosses = 0
  Modes <- UntimedSessions
CHECK_DEADLOCK FALSE
INVARIANTS
  EndTestAfterAllPublishers
