SPECIFICATION FairSpec
CONSTANTS
  Plans <- AllPlans
CHECK_DEADLOCK TRUE
INVARIANTS
  OnePingAtATime
  SummaryIsComplete
  PingEveryLatencyCountBatches
PROPERTIES
  LoopEnds
