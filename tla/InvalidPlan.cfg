SPECIFICATION Spec
CONSTANTS
  Address = {"first", "second"}
  ProviderType = {"bucket", "topic"}
  Name = {"a", "a[0]"}
  Undefined = Undefined
  Null = Null
  InvalidDefinition = InvalidDefinition
  TerraformFile = {"main.tf", "module.tf"}
  OtherFile = {"notes.md"}
  Arguments <- StandardMode
  Disks <- StandardDisks
  MaxChanges = 0
INVARIANT InvalidPlansAreRejected
\* The process ends.
CHECK_DEADLOCK FALSE
