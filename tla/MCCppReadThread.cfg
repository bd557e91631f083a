SPECIFICATION FairSpec
CONSTANTS
  Configs <- AllReaders
CHECK_DEADLOCK TRUE
INVARIANTS
  EverySampleOnce
  NoUseAfterDelete
  LoansAreClosed
PROPERTIES
  FinalizeEnds
  ConsistentStreamProcessed
