SPECIFICATION FairServiceSpec
CONSTANTS
  plan1 = plan1
  sourceCode1 = sourceCode1
  Call = {c1, c2}
  PlanId = {plan1}
  SourceCodeId = {sourceCode1}
  NotUuid = NotUuid
  NotAUrl = NotAUrl
  Bodies <- MCBodies
  PlanUrls <- MCPlanUrls
  SourceCodeUrls <- MCSourceCodeUrls
INVARIANTS
  ServiceTypeOK
  EventsFollowRuns
  AnswersAreTrue
  EventsPerRunAreBounded
  RunsReferToFetchableUrls
  ReferenceAnswersAreTrue
PROPERTIES
  AcknowledgedReferencesAreFound
  ImplementsRunService
  CallsAreAnswered
  ReferenceCallsAreAnswered
\* Every call is answered.
CHECK_DEADLOCK FALSE
