SPECIFICATION FairSpec
CONSTANTS
  NumPublishers = 2
  NumSubscribers = 1
  NumIter = 1
  DataSize = "DATA"
  InitializeSampleCount = 1
  AnnouncementSampleCount = 2
  SendQueueSize = 2
  MaxLosses = 1
  Modes <- FaultySessions
CHECK_DEADLOCK TRUE
INVARIANTS
  QuietExitIsGlobal
PROPERTIES
  SessionEnds
  InterruptEndsProcess
  PublisherGivesUp
