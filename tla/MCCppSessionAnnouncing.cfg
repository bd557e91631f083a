SPECIFICATION FairSpec
CONSTANTS
  NumPublishers = 1
  NumSubscribers = 1
  NumIter = 1
  InitializeSampleCount = 1
  SendQueueSize = 2
  MaxAnnouncements = 2
  Modes <- ShortSession
CHECK_DEADLOCK TRUE
PROPERTIES
  AnnouncementLoopEnds
