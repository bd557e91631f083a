SPECIFICATION FairSpec
CONSTANTS
  NumPublishers = 1
  NumSubscribers = 2
  InitializeSampleCount = 1
  SendQueueSize = 2
  Modes <- PingSessions
CHECK_DEADLOCK FALSE
INVARIANTS
  EveryPongCounted
