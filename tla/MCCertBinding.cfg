SPECIFICATION CertFairSpec
CONSTANT
  Commands <- AllCommands
CHECK_DEADLOCK FALSE
INVARIANTS
  HandlesRegistered
  MatchedEndpointsExist
  RegistryEmptied
PROPERTIES
  BothRun
