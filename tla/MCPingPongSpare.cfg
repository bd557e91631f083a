SPECIFICATION Spec
CONSTANTS
  Plans <- SparePlans
CHECK_DEADLOCK FALSE
INVARIANTS
  WaitsForPong
