SPECIFICATION UndisturbedSpec
CONSTANTS
  Address = {"first", "second"}
  ProviderType = {"bucket", "topic"}
  Name = {"a", "a[0]"}
  Undefined = Undefined
  Null = Null
  InvalidDefinition = InvalidDefinition
  TerraformFile = {"main.tf", "module.tf"}
  OtherFile = {"notes.md"}
  Arguments <- BothModes
  Disks <- VerdictDisks
  MaxChanges = 0
INVARIANTS
  TypeOK
  ItemsConcernNoDeclaredEntity
PROPERTIES
  ImplementsGate
  AlwaysExits
\* The process ends.
CHECK_DEADLOCK FALSE
