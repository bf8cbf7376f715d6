SPECIFICATION FairEventsSpec
CONSTANTS
  plan1 = plan1
  sourceCode1 = sourceCode1
  Call = {c1, c2}
  PlanId = {plan1}
  SourceCodeId = {sourceCode1}
  NotUuid = NotUuid
  Bodies <- MCBodies
  Capacity = 1
  MaxStarts = 2
  MaxRecords = 4
INVARIANTS
  EventsTypeOK
PROPERTIES
  ImplementsNotifications
  PassedRecordsAreNotSent
  RecordsAreSentOrTheJobFails
\* Every call is answered and the job is down for good.
CHECK_DEADLOCK FALSE
