SPECIFICATION FairSpec
CONSTANTS
  Configs <- OverwrittenSample
CHECK_DEADLOCK TRUE
PROPERTIES
  EverySampleProcessed
