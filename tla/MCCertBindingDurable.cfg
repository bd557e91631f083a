SPECIFICATION CertSpec
CONSTANT
  Commands <- DurableCommands
CHECK_DEADLOCK FALSE
INVARIANTS
  RequestedIsOffered
