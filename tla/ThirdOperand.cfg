SPECIFICATION Spec
CONSTANTS
  Address = {"first", "second"}
  ProviderType = {"bucket", "topic"}
  Name = {"a", "a[0]"}
  Undefined = Undefined
  Null = Null
  InvalidDefinition = InvalidDefinition
  TerraformFile = {"main.tf", "module.tf"}
  OtherFile = {"notes.md"}
  Arguments <- AllCommandLines
  Disks <- FaultyDisks
  MaxChanges = 0
INVARIANT ZeroIsADecision
\* The process ends.
CHECK_DEADLOCK FALSE
