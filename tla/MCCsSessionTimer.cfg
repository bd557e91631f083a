SPECIFICATION FairSpec
CONSTANTS
  NumPublishers = 1
  NumSubscribers = 1
  NumIter = 2
  DataSize = "DATA"
  InitializeSampleCount = 1
  AnnouncementSampleCount = 2
  SendQueueSize = 2
  MaxLosses = 0
  Modes <- LatencySessions
CHECK_DEADLOCK FALSE
PROPERTIES
  ExecutionTimeFinishesTest
