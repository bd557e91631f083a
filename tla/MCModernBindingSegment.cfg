SPECIFICATION Spec
CONSTANT
  Commands <- SegmentCommands
INVARIANTS
  QosConsistent
