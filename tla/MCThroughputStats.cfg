SPECIFICATION Spec
CONSTANTS
  Tests <- AllTests
CHECK_DEADLOCK TRUE
INVARIANTS
  MissingAreGaps
  SummaryAccounts
  IntervalWrapsOnlyAtSummary
