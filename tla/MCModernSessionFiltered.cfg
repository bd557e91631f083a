SPECIFICATION FairSpec
CONSTANTS
  NumPublishers = 1
  NumSubscribers = 2
  InitializeSampleCount = 0
  SendQueueSize = 2
  Modes <- FilteredSessions
CHECK_DEADLOCK FALSE
PROPERTIES
  PingsAreAnswered
