SPECIFICATION FairSpec
CONSTANTS
  Configs <- DynamicReader
CHECK_DEADLOCK FALSE
PROPERTIES
  FinalizeEnds
