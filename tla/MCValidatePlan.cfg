SPECIFICATION ScriptSpec
CONSTANTS
  Address = {"first", "second"}
  ProviderType = {"bucket", "topic"}
  Name = {"a", "a[0]"}
  Undefined = Undefined
  Null = Null
  InvalidDefinition = InvalidDefinition
  TerraformFile = {"main.tf", "module.tf"}
  OtherFile = {"notes.md"}
  Arguments <- NotStarted
  Disks <- FaultyDisks
  MaxChanges = 1
  Inputs <- AllInputs
INVARIANTS
  ScriptTypeOK
  OutputIsDecision
  FailureIsReported
  CodeBaseIsReadWhole
  EvidenceIsInOrder
PROPERTIES
  ScriptImplementsGate
\* The script ends.
CHECK_DEADLOCK FALSE
