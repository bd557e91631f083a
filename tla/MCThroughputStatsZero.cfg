SPECIFICATION Spec
CONSTANTS
  Tests <- LossyTest
CHECK_DEADLOCK TRUE
INVARIANTS
  EveryGapIsCounted
