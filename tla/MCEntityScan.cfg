SPECIFICATION Spec
CONSTANTS
  Address = {}
  ProviderType = {"bucket"}
  Name = {"a"}
  Undefined = Undefined
  Null = Null
  InvalidDefinition = InvalidDefinition
  Files <- MCFiles
INVARIANTS
  TypeOK
  ComputesEntities
  DecoratorsAreTheTagsAbove
PROPERTIES
  ImplementsAutomaton
\* The scan ends: a state without successor is a finished one.
CHECK_DEADLOCK FALSE
