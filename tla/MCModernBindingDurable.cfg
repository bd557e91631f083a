SPECIFICATION Spec
CONSTANT
  Commands <- DurableCommands
INVARIANTS
  DurabilityAsAsked
