SPECIFICATION Spec
CONSTANT
  Commands <- AllCommands
INVARIANTS
  QosConsistent
  EndpointsMatch
  InstancesFit
  SentAsAsked
  LoansSuffice
  TransportFits
