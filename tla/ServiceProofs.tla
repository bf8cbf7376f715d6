------------------------------ MODULE ServiceProofs ------------------------------
(***************************************************************************)
(* The service as a whole implements RunService, so that what is proved of *)
(* POST /runs holds whatever the calls of the other controllers do; and    *)
(* every run leads to two addresses that were checked before they were     *)
(* stored; and no call of POST /runs contradicts the answer of another     *)
(* controller.                                                             *)
(***************************************************************************)
EXTENDS Service, RunServiceProofs

PlanProofs == INSTANCE ReferenceCallsProofs
  WITH Call <- PlanId, Bodies <- PlanUrls, rows <- plans,
       body <- planUrl, pc <- planPc, answer <- planAnswer

SourceCodeProofs == INSTANCE ReferenceCallsProofs
  WITH Call <- SourceCodeId, Bodies <- SourceCodeUrls, rows <- sourceCodes,
       body <- sourceCodeUrl, pc <- sourceCodePc, answer <- sourceCodeAnswer

\* Nothing relates the calls of one controller to those of another but the
\* rows they share.
SInv == IInv /\ PlanProofs!CallsInv /\ SourceCodeProofs!CallsInv

-----------------------------------------------------------------------------
\* The definitions of the instances are those of Service.
LEMMA PlanAssumption == NotAUrl \notin PlanProofs!Url
BY NotAUrlIsNoUrl DEF Url, PlanProofs!Url

LEMMA PlanChecksAgree ==
  ASSUME NEW url
  PROVE  /\ PlanRefs!isValidS3Url(url) = PlanProofs!isValidS3Url(url)
         /\ PlanProofs!isValidS3Url(url) = isValidS3Url(url)
BY DEF isValidS3Url, PlanRefs!isValidS3Url, PlanProofs!isValidS3Url,
       doesUrlIncludeCredentials, PlanRefs!doesUrlIncludeCredentials,
       PlanProofs!doesUrlIncludeCredentials,
       isHttpOrHttpsProtocol, PlanRefs!isHttpOrHttpsProtocol,
       PlanProofs!isHttpOrHttpsProtocol

LEMMA PlanCallsAgree ==
  ASSUME NEW plan \in PlanId
  PROVE  PlanRefs!Handle(plan) => PlanProofs!Handle(plan)
<1>1. PlanRefs!ValidateRequest(plan) => PlanProofs!ValidateRequest(plan)
  BY PlanChecksAgree
  DEF PlanRefs!ValidateRequest, PlanProofs!ValidateRequest,
      PlanRefs!proceed, PlanProofs!proceed, PlanRefs!respond, PlanProofs!respond,
      PlanRefs!generateErrorResponse, PlanProofs!generateErrorResponse
<1>2. PlanRefs!Persist(plan) => PlanProofs!Persist(plan)
  BY DEF PlanRefs!Persist, PlanProofs!Persist, PlanRefs!proceed, PlanProofs!proceed
<1>3. PlanRefs!LoseDatabase(plan) => PlanProofs!LoseDatabase(plan)
  BY DEF PlanRefs!LoseDatabase, PlanProofs!LoseDatabase, PlanRefs!respond,
         PlanProofs!respond
<1>4. PlanRefs!Respond(plan) => PlanProofs!Respond(plan)
  BY DEF PlanRefs!Respond, PlanProofs!Respond, PlanRefs!respond, PlanProofs!respond
<1> QED
  BY <1>1, <1>2, <1>3, <1>4
  DEF PlanRefs!Handle, PlanProofs!Handle

LEMMA PlanInitsAgree == PlanRefs!CallsInit => PlanProofs!CallsInit
BY DEF PlanRefs!CallsInit, PlanProofs!CallsInit

LEMMA PlanResetsAgree == PlanRefs!resetCalls => PlanProofs!resetCalls
BY DEF PlanRefs!resetCalls, PlanProofs!resetCalls,
       PlanRefs!inFlight, PlanProofs!inFlight

LEMMA SourceCodeAssumption == NotAUrl \notin SourceCodeProofs!Url
BY NotAUrlIsNoUrl DEF Url, SourceCodeProofs!Url

LEMMA SourceCodeChecksAgree ==
  ASSUME NEW url
  PROVE  /\ SourceCodeRefs!isValidS3Url(url) = SourceCodeProofs!isValidS3Url(url)
         /\ SourceCodeProofs!isValidS3Url(url) = isValidS3Url(url)
BY DEF isValidS3Url, SourceCodeRefs!isValidS3Url, SourceCodeProofs!isValidS3Url,
       doesUrlIncludeCredentials, SourceCodeRefs!doesUrlIncludeCredentials,
       SourceCodeProofs!doesUrlIncludeCredentials,
       isHttpOrHttpsProtocol, SourceCodeRefs!isHttpOrHttpsProtocol,
       SourceCodeProofs!isHttpOrHttpsProtocol

LEMMA SourceCodeCallsAgree ==
  ASSUME NEW sourceCode \in SourceCodeId
  PROVE  SourceCodeRefs!Handle(sourceCode) => SourceCodeProofs!Handle(sourceCode)
<1>1. SourceCodeRefs!ValidateRequest(sourceCode) => SourceCodeProofs!ValidateRequest(sourceCode)
  BY SourceCodeChecksAgree
  DEF SourceCodeRefs!ValidateRequest, SourceCodeProofs!ValidateRequest,
      SourceCodeRefs!proceed, SourceCodeProofs!proceed, SourceCodeRefs!respond,
      SourceCodeProofs!respond,
      SourceCodeRefs!generateErrorResponse, SourceCodeProofs!generateErrorResponse
<1>2. SourceCodeRefs!Persist(sourceCode) => SourceCodeProofs!Persist(sourceCode)
  BY DEF SourceCodeRefs!Persist, SourceCodeProofs!Persist, SourceCodeRefs!proceed,
         SourceCodeProofs!proceed
<1>3. SourceCodeRefs!LoseDatabase(sourceCode) => SourceCodeProofs!LoseDatabase(sourceCode)
  BY DEF SourceCodeRefs!LoseDatabase, SourceCodeProofs!LoseDatabase,
         SourceCodeRefs!respond, SourceCodeProofs!respond
<1>4. SourceCodeRefs!Respond(sourceCode) => SourceCodeProofs!Respond(sourceCode)
  BY DEF SourceCodeRefs!Respond, SourceCodeProofs!Respond, SourceCodeRefs!respond,
         SourceCodeProofs!respond
<1> QED
  BY <1>1, <1>2, <1>3, <1>4
  DEF SourceCodeRefs!Handle, SourceCodeProofs!Handle

LEMMA SourceCodeInitsAgree == SourceCodeRefs!CallsInit => SourceCodeProofs!CallsInit
BY DEF SourceCodeRefs!CallsInit, SourceCodeProofs!CallsInit

LEMMA SourceCodeResetsAgree == SourceCodeRefs!resetCalls => SourceCodeProofs!resetCalls
BY DEF SourceCodeRefs!resetCalls, SourceCodeProofs!resetCalls,
       SourceCodeRefs!inFlight, SourceCodeProofs!inFlight

\* A call of the controller is a row that appears, or nothing.
LEMMA PlanStep ==
  ASSUME SInv, NEW plan \in PlanId, createPlanRef(plan)
  PROVE  SInv' /\ [Next]_vars
<1>1. PlanProofs!Handle(plan)
  BY PlanCallsAgree DEF createPlanRef
<1>2. PlanProofs!CallsInv'
  BY <1>1, PlanAssumption, PlanProofs!HandleInv DEF SInv
<1>3. SourceCodeProofs!CallsInv'
  BY SourceCodeAssumption, SourceCodeProofs!OthersKeepInv
  DEF SInv, createPlanRef, sourceCodeCalls, SourceCodeProofs!callVars
<1>4. [Next]_vars
  <2>1. plans' = plans \/ plans' = plans \cup {plan}
    BY <1>1, PlanAssumption, PlanProofs!HandleAddsRow
  <2>2. UNCHANGED <<sourceCodes, runs, topic, body, pc, attempts, answer>>
    BY DEF createPlanRef, runCalls
  <2> QED
    BY <2>1, <2>2 DEF Next, CreatePlanRef, vars, tables
<1> QED
  BY <1>2, <1>3, <1>4, NextInv DEF SInv

\* A call of the controller is a row that appears, or nothing.
LEMMA SourceCodeStep ==
  ASSUME SInv, NEW sourceCode \in SourceCodeId, createSourceCodeRef(sourceCode)
  PROVE  SInv' /\ [Next]_vars
<1>1. SourceCodeProofs!Handle(sourceCode)
  BY SourceCodeCallsAgree DEF createSourceCodeRef
<1>2. SourceCodeProofs!CallsInv'
  BY <1>1, SourceCodeAssumption, SourceCodeProofs!HandleInv DEF SInv
<1>3. PlanProofs!CallsInv'
  BY PlanAssumption, PlanProofs!OthersKeepInv
  DEF SInv, createSourceCodeRef, planCalls, PlanProofs!callVars
<1>4. [Next]_vars
  <2>1. sourceCodes' = sourceCodes \/ sourceCodes' = sourceCodes \cup {sourceCode}
    BY <1>1, SourceCodeAssumption, SourceCodeProofs!HandleAddsRow
  <2>2. UNCHANGED <<plans, runs, topic, body, pc, attempts, answer>>
    BY DEF createSourceCodeRef, runCalls
  <2> QED
    BY <2>1, <2>2 DEF Next, CreateSourceCodeRef, vars, tables
<1> QED
  BY <1>2, <1>3, <1>4, NextInv DEF SInv

LEMMA RunStep ==
  ASSUME SInv, NEW c \in Call, createRun(c)
  PROVE  SInv' /\ [Next]_vars
<1>1. [Next]_vars
  BY DEF createRun, Next
<1>2. UNCHANGED <<plans, sourceCodes, planCalls, sourceCodeCalls>>
  BY DEF createRun, Handle, Validate, Persist, PersistRun, RejectRun, LoseDatabase,
         Publish, PublishAcknowledged, PublishUnacknowledged, PublishLost,
         PublishRefused, tables
<1>3. PlanProofs!CallsInv' /\ SourceCodeProofs!CallsInv'
  BY <1>2, PlanAssumption, SourceCodeAssumption,
     PlanProofs!OthersKeepInv, SourceCodeProofs!OthersKeepInv
  DEF SInv, planCalls, sourceCodeCalls, PlanProofs!callVars, SourceCodeProofs!callVars
<1> QED
  BY <1>1, <1>3, NextInv DEF SInv

\* The crash of the process is one of its calls of POST /runs, if there are
\* any, and passes unnoticed otherwise.
LEMMA CrashStep == ASSUME SInv, crashAndRestart PROVE SInv' /\ [Next]_vars
<1>1. /\ resetCalls /\ PlanProofs!resetCalls /\ SourceCodeProofs!resetCalls
      /\ UNCHANGED <<tables, topic, body, attempts, planUrl, sourceCodeUrl>>
  BY PlanResetsAgree, SourceCodeResetsAgree DEF crashAndRestart
<1>2. [Next]_vars
  <2>1. CASE inFlight # {}
    BY <1>1, <2>1 DEF Next, Crash
  <2>2. CASE inFlight = {}
    <3>1. pc' = pc /\ answer' = answer
      BY <1>1, <2>2 DEF resetCalls, SInv, IInv, TypeOK
    <3> QED
      BY <1>1, <3>1 DEF vars
  <2> QED
    BY <2>1, <2>2
<1>3. PlanProofs!CallsInv'
  BY <1>1, PlanAssumption, PlanProofs!ResetInv DEF SInv, tables
<1>4. SourceCodeProofs!CallsInv'
  BY <1>1, SourceCodeAssumption, SourceCodeProofs!ResetInv DEF SInv, tables
<1> QED
  BY <1>2, <1>3, <1>4, NextInv DEF SInv

LEMMA ServiceInitInv == ServiceInit => SInv /\ Init
<1> SUFFICES ASSUME ServiceInit PROVE SInv /\ Init
  OBVIOUS
<1>1. Init /\ plans = {} /\ sourceCodes = {}
  BY DEF ServiceInit, Init
<1>2. PlanProofs!CallsInv
  BY <1>1, PlanInitsAgree, PlanAssumption, PlanProofs!CallsInitInv DEF ServiceInit
<1>3. SourceCodeProofs!CallsInv
  BY <1>1, SourceCodeInitsAgree, SourceCodeAssumption, SourceCodeProofs!CallsInitInv
  DEF ServiceInit
<1> QED
  BY <1>1, <1>2, <1>3, InitInv DEF SInv

LEMMA ServiceNextInv == SInv /\ [ServiceNext]_serviceVars => SInv' /\ [Next]_vars
<1> SUFFICES ASSUME SInv, [ServiceNext]_serviceVars PROVE SInv' /\ [Next]_vars
  OBVIOUS
<1>1. CASE UNCHANGED serviceVars
  <2>1. UNCHANGED <<vars, plans, sourceCodes, planCalls, sourceCodeCalls>>
    BY <1>1 DEF serviceVars, vars, tables
  <2>2. PlanProofs!CallsInv' /\ SourceCodeProofs!CallsInv'
    BY <2>1, PlanAssumption, SourceCodeAssumption,
       PlanProofs!OthersKeepInv, SourceCodeProofs!OthersKeepInv
    DEF SInv, planCalls, sourceCodeCalls, PlanProofs!callVars, SourceCodeProofs!callVars
  <2> QED
    BY <2>1, <2>2, NextInv DEF SInv
<1> QED
  BY <1>1, PlanStep, SourceCodeStep, RunStep, CrashStep DEF ServiceNext

LEMMA ServiceInvariance == ServiceSpec => []SInv
BY ServiceInitInv, ServiceNextInv, PTL DEF ServiceSpec

-----------------------------------------------------------------------------
\* The service is the one of RunService: the controllers of the references
\* only make rows appear, and a crash only ends calls that are under way
\* (app.module.ts 7-12, plan.service.ts 20-35, source-code.service.ts 21-37).
THEOREM ServiceImplementsRunService == ServiceSpec => ImplementsRunService
BY ServiceInitInv, ServiceNextInv, ServiceInvariance, PTL
DEF ServiceSpec, ImplementsRunService, Spec

\* An event in the topic is about a run that is stored with all it refers to,
\* while references are created and the process crashes (run.service.ts 41-53).
THEOREM ServiceEventsFollowRuns == ServiceSpec => []EventsFollowRuns
BY ServiceImplementsRunService, EventsAlwaysFollowRuns, PTL DEF ImplementsRunService

\* What the callers of POST /runs are told is true, and the events of a run
\* stay bounded, while references are created and the process crashes
\* (run.controller.ts 25-59, kafka-publisher.ts 10-31).
THEOREM ServiceAnswersAreTrue == ServiceSpec => [](AnswersAreTrue /\ EventsPerRunAreBounded)
BY ServiceImplementsRunService, AnswersAreAlwaysTrue, EventsAreBounded, PTL
DEF ImplementsRunService

\* 201 of a reference is a row that is stored, 400 one that is not
\* (plan.controller.ts 26-36, source-code.controller.ts 26-38).
THEOREM ReferenceAnswersAreAlwaysTrue == ServiceSpec => []ReferenceAnswersAreTrue
<1>1. SInv => ReferenceAnswersAreTrue
  BY PlanAssumption, SourceCodeAssumption,
     PlanProofs!CallsInvIsEnough, SourceCodeProofs!CallsInvIsEnough
  DEF SInv, ReferenceAnswersAreTrue,
      PlanRefs!CallsAnswersAreTrue, PlanProofs!CallsAnswersAreTrue,
      SourceCodeRefs!CallsAnswersAreTrue, SourceCodeProofs!CallsAnswersAreTrue
<1> QED
  BY <1>1, ServiceInvariance, PTL

LEMMA RightIsFetchable ==
  ASSUME NEW url \in RequestUrl, isValidS3Url(url) = "right"
  PROVE  isFetchable(url)
BY DEF isValidS3Url, isFetchable, RequestUrl, Url, isHttpOrHttpsProtocol,
       doesUrlIncludeCredentials

\* Whatever fails, a run leads to http or https addresses without credentials
\* (s3-urls.ts 5-17, run.repository.ts 60-79).
THEOREM RunsAlwaysReferToFetchableUrls == ServiceSpec => []RunsReferToFetchableUrls
<1>1. ASSUME SInv, NEW run \in runs
      PROVE  isFetchable(planUrl[run.planId]) /\ isFetchable(sourceCodeUrl[run.sourceCodeId])
  <2>1. run.planId \in plans /\ run.sourceCodeId \in sourceCodes
    BY <1>1 DEF SInv, IInv, RunInv
  <2>2. planUrl[run.planId] \in RequestUrl /\ sourceCodeUrl[run.sourceCodeId] \in RequestUrl
    BY <1>1, <2>1, UrlsAreUrls
    DEF SInv, PlanProofs!CallsInv, PlanProofs!CallsTypeOK,
        SourceCodeProofs!CallsInv, SourceCodeProofs!CallsTypeOK
  <2>3. isValidS3Url(planUrl[run.planId]) = "right"
    BY <1>1, <2>1, PlanChecksAgree
    DEF SInv, PlanProofs!CallsInv, PlanProofs!CallsTypeOK, PlanProofs!CallIsRight
  <2>4. isValidS3Url(sourceCodeUrl[run.sourceCodeId]) = "right"
    BY <1>1, <2>1, SourceCodeChecksAgree
    DEF SInv, SourceCodeProofs!CallsInv, SourceCodeProofs!CallsTypeOK,
        SourceCodeProofs!CallIsRight
  <2> QED
    BY <2>2, <2>3, <2>4, RightIsFetchable
<1>2. SInv => RunsReferToFetchableUrls
  BY <1>1 DEF RunsReferToFetchableUrls
<1> QED
  BY <1>2, ServiceInvariance, PTL

\* The rows, the calls and the answers of the three controllers are of their
\* types, whatever fails (app.module.ts 7-12).
THEOREM ServiceTypeCorrect == ServiceSpec => []ServiceTypeOK
<1>1. SInv => ServiceTypeOK
  BY PlanAssumption, SourceCodeAssumption,
     PlanProofs!CallsInvIsEnough, SourceCodeProofs!CallsInvIsEnough
  DEF SInv, IInv, ServiceTypeOK,
      PlanRefs!CallsTypeOK, PlanProofs!CallsTypeOK,
      SourceCodeRefs!CallsTypeOK, SourceCodeProofs!CallsTypeOK
<1> QED
  BY <1>1, ServiceInvariance, PTL

-----------------------------------------------------------------------------
\* A call reaches the database only with two identifiers, so that a missing
\* reference is one that some call could have stored.
IdsAreValid ==
  \A c \in Call :
    pc[c] = "persist" =>
      body[c].plan_id \in PlanId /\ body[c].source_code_id \in SourceCodeId

LEMMA IdsStayValid == TypeOK /\ IdsAreValid /\ [Next]_vars => IdsAreValid'
<1> SUFFICES ASSUME TypeOK, IdsAreValid, [Next]_vars, NEW c \in Call, pc'[c] = "persist"
             PROVE  /\ body'[c].plan_id \in PlanId
                    /\ body'[c].source_code_id \in SourceCodeId
  BY DEF IdsAreValid
<1>1. body' = body
  BY DEF Next, CreatePlanRef, CreateSourceCodeRef, Handle, Validate, Persist, PersistRun,
         RejectRun, LoseDatabase, Publish, PublishAcknowledged, PublishUnacknowledged,
         PublishLost, PublishRefused, Crash, vars
<1>2. CASE pc[c] = "persist"
  BY <1>1, <1>2 DEF IdsAreValid
<1>3. CASE pc[c] # "persist"
  <2>1. PICK d \in Call : Handle(d)
    BY <1>3 DEF Next, CreatePlanRef, CreateSourceCodeRef, Crash, resetCalls, TypeOK, vars
  <2>2. Validate(d) /\ d = c
    BY <1>3, <2>1
    DEF Handle, Validate, Persist, PersistRun, RejectRun, LoseDatabase, Publish,
        PublishAcknowledged, PublishUnacknowledged, PublishLost, PublishRefused,
        afterFailedAttempt, proceed, respond, TypeOK
  <2>3. globalValidationPipe(body[c]) = {}
    BY <2>2 DEF Validate, respond, TypeOK
  <2> QED
    BY <1>1, <2>3, BodyType DEF globalValidationPipe
<1> QED
  BY <1>2, <1>3

LEMMA ServiceIdsInvariance == ServiceSpec => []IdsAreValid
<1>1. Init => IdsAreValid
  BY DEF Init, IdsAreValid
<1>2. SInv => TypeOK
  BY DEF SInv, IInv
<1> QED
  BY <1>1, <1>2, IdsStayValid, ServiceInitInv, ServiceNextInv, ServiceInvariance, PTL
  DEF ServiceSpec

\* The name of the constraint tells which reference is missing.
LEMMA ConstraintsAreNamed ==
  /\ handleCreateRunError(mapToLeft(PRISMA_PLAN_FK_VIOLATION_FIELD_NAME_VALUE))
       = "PLAN_NOT_FOUND"
  /\ handleCreateRunError(mapToLeft(PRISMA_SOURCE_CODE_FK_VIOLATION_FIELD_NAME_VALUE))
       = "SOURCE_CODE_NOT_FOUND"
<1>1. mapToLeft(PRISMA_PLAN_FK_VIOLATION_FIELD_NAME_VALUE) = "plan_not_found"
  BY DEF mapToLeft, PRISMA_PLAN_FK_VIOLATION_FIELD_NAME_VALUE,
         PRISMA_SOURCE_CODE_FK_VIOLATION_FIELD_NAME_VALUE
<1>2. mapToLeft(PRISMA_SOURCE_CODE_FK_VIOLATION_FIELD_NAME_VALUE) = "source_code_not_found"
  BY DEF mapToLeft, PRISMA_PLAN_FK_VIOLATION_FIELD_NAME_VALUE,
         PRISMA_SOURCE_CODE_FK_VIOLATION_FIELD_NAME_VALUE
<1>3. /\ handleCreateRunError("plan_not_found") = "PLAN_NOT_FOUND"
      /\ handleCreateRunError("source_code_not_found") = "SOURCE_CODE_NOT_FOUND"
  BY DEF handleCreateRunError
<1> QED
  BY <1>1, <1>2, <1>3

\* What the database reports missing is missing.
LEMMA RejectionsAreTrue ==
  ASSUME SInv, NEW c \in Call, Handle(c)
  PROVE  /\ answer'[c] # answer[c] /\ answer'[c] = "PLAN_NOT_FOUND" =>
              pc[c] = "persist" /\ body[c].plan_id \notin plans
         /\ answer'[c] # answer[c] /\ answer'[c] = "SOURCE_CODE_NOT_FOUND" =>
              pc[c] = "persist" /\ body[c].source_code_id \notin sourceCodes
<1>1. answer \in [Call -> {"none", "VALIDATION_ERROR", "SOURCE_CODE_NOT_FOUND",
                           "PLAN_NOT_FOUND", "UNKNOWN_RUN_STATE",
                           "INTERNAL_SERVER_ERROR", "CREATED", "CONNECTION_RESET"}]
  BY DEF SInv, IInv, TypeOK
<1>2. CASE RejectRun(c)
  <2>1. PICK constraint \in violatedConstraints(c) :
          answer'[c] = handleCreateRunError(mapToLeft(constraint))
    BY <1>1, <1>2 DEF RejectRun, respond
  <2>2. /\ pc[c] = "persist"
        /\ \/ /\ body[c].plan_id \notin plans
              /\ constraint = PRISMA_PLAN_FK_VIOLATION_FIELD_NAME_VALUE
           \/ /\ body[c].source_code_id \notin sourceCodes
              /\ constraint = PRISMA_SOURCE_CODE_FK_VIOLATION_FIELD_NAME_VALUE
    BY <1>2
    DEF RejectRun, violatedConstraints, PRISMA_PLAN_FK_VIOLATION_FIELD_NAME_VALUE,
        PRISMA_SOURCE_CODE_FK_VIOLATION_FIELD_NAME_VALUE
  <2> QED
    BY <2>1, <2>2, ConstraintsAreNamed
<1>3. CASE ~ RejectRun(c)
  <2>1. answer' = answer \/ \E response \in {"VALIDATION_ERROR", "UNKNOWN_RUN_STATE",
                                             "INTERNAL_SERVER_ERROR", "CREATED"} :
          answer' = [answer EXCEPT ![c] = response]
    BY <1>3
    DEF Handle, Validate, Persist, PersistRun, LoseDatabase, Publish,
        PublishAcknowledged, PublishUnacknowledged, PublishLost, PublishRefused,
        afterFailedAttempt, proceed, respond, handleCreateRunError
  <2> QED
    BY <1>1, <2>1
<1> QED
  BY <1>2, <1>3

\* Only a call of POST /runs changes the answer of one, or the crash, which
\* finds nothing missing.
LEMMA AnswersOfOthers ==
  ASSUME SInv, [ServiceNext]_serviceVars, NEW c \in Call, answer'[c] # answer[c]
  PROVE  Handle(c) \/ answer'[c] = "CONNECTION_RESET"
<1>1. CASE crashAndRestart
  BY <1>1 DEF crashAndRestart, resetCalls
<1>2. ASSUME NEW d \in Call, createRun(d) PROVE Handle(c)
  <2>1. d = c \/ answer'[c] = answer[c]
    BY <1>2
    DEF createRun, Handle, Validate, Persist, PersistRun, RejectRun, LoseDatabase, Publish,
        PublishAcknowledged, PublishUnacknowledged, PublishLost, PublishRefused,
        afterFailedAttempt, proceed, respond, SInv, IInv, TypeOK
  <2> QED
    BY <1>2, <2>1 DEF createRun
<1>3. ASSUME NEW plan \in PlanId, createPlanRef(plan) PROVE FALSE
  BY <1>3 DEF createPlanRef, runCalls
<1>4. ASSUME NEW sourceCode \in SourceCodeId, createSourceCodeRef(sourceCode) PROVE FALSE
  BY <1>4 DEF createSourceCodeRef, runCalls
<1> QED
  BY <1>1, <1>2, <1>3, <1>4 DEF ServiceNext, serviceVars, vars

\* A reference whose caller was told that it exists is in the table.
LEMMA Acknowledged ==
  ASSUME SInv
  PROVE  /\ \A plan \in PlanId : planAnswer[plan] = "CREATED" => plan \in plans
         /\ \A sourceCode \in SourceCodeId :
              sourceCodeAnswer[sourceCode] = "CREATED" => sourceCode \in sourceCodes
BY DEF SInv, PlanProofs!CallsInv, PlanProofs!CallIsRight,
       SourceCodeProofs!CallsInv, SourceCodeProofs!CallIsRight

\* However the calls of the three controllers overlap, fail and crash, a caller
\* that was told a reference exists is not contradicted: no call of POST /runs
\* reports it missing, then or later (plan.service.ts 26-34, run.repository.ts
\* 53-79).
THEOREM AcknowledgedReferencesAreAlwaysFound ==
  ServiceSpec => AcknowledgedReferencesAreFound
<1> DEFINE Found(c) ==
      answer'[c] # answer[c] =>
        /\ answer'[c] = "PLAN_NOT_FOUND" => planAnswer[body[c].plan_id] # "CREATED"
        /\ answer'[c] = "SOURCE_CODE_NOT_FOUND" =>
             sourceCodeAnswer[body[c].source_code_id] # "CREATED"
<1>1. SInv /\ IdsAreValid /\ [ServiceNext]_serviceVars =>
        [\A c \in Call :
           answer'[c] # answer[c] =>
             /\ answer'[c] = "PLAN_NOT_FOUND" => planAnswer[body[c].plan_id] # "CREATED"
             /\ answer'[c] = "SOURCE_CODE_NOT_FOUND" =>
                  sourceCodeAnswer[body[c].source_code_id] # "CREATED"]_serviceVars
  <2> SUFFICES ASSUME SInv, IdsAreValid, [ServiceNext]_serviceVars, NEW c \in Call
               PROVE  Found(c)
    OBVIOUS
  <2> QED
    BY RejectionsAreTrue, AnswersOfOthers, Acknowledged DEF IdsAreValid
<1> QED
  BY <1>1, ServiceInvariance, ServiceIdsInvariance, PTL
  DEF ServiceSpec, AcknowledgedReferencesAreFound
=============================================================================
