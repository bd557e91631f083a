SPECIFICATION Spec
CONSTANT
  Commands <- DurableCommands
INVARIANTS
  DestructorReturns
