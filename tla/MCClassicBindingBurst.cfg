SPECIFICATION Spec
CONSTANT
  Commands <- KeyedCommands
INVARIANTS
  BurstRegistersInstances
