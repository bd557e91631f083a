SPECIFICATION Spec
CONSTANT
  Commands <- AllCommands
INVARIANTS
  QosConsistent
  SentAsAsked
  SmallFitsMessage
