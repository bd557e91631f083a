SPECIFICATION FairSpec
CONSTANTS
  Plans <- UnansweredPlans
CHECK_DEADLOCK FALSE
PROPERTIES
  PongEndsWait
