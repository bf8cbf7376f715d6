SPECIFICATION Spec
CONSTANTS
  Address = {}
  ProviderType = {"bucket"}
  Name = {"a"}
  Undefined = Undefined
  Null = Null
  InvalidDefinition = InvalidDefinition
  Files <- MCFiles
INVARIANT DecoratorStopsAtClosingBracket
\* The scan ends: a state without successor is a finished one.
CHECK_DEADLOCK FALSE
