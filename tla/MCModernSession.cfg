SPECIFICATION FairSpec
CONSTANTS
  NumPublishers = 2
  NumSubscribers = 2
  InitializeSampleCount = 0
  SendQueueSize = 2
  Modes <- SmallSessions
CHECK_DEADLOCK FALSE
INVARIANTS
  SubscriberUsesLive
PROPERTIES
  ImplementsTestSession
  SessionEnds
