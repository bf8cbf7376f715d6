-------------------------------- MODULE Service --------------------------------
(***************************************************************************)
(* The whole service (service/main/src): one process with the controllers  *)
(* of plan references, source code references and runs over one database.  *)
(* A plan or a source code exists as soon as the call that stores it has   *)
(* committed its row, answered or not; all the calls die with the process. *)
(***************************************************************************)
EXTENDS RunService, S3Urls

CONSTANTS
  PlanUrls,         \* the urls in the bodies of POST /plan-refs
  SourceCodeUrls    \* the urls in the bodies of POST /source-code-refs

ASSUME UrlsAreUrls == PlanUrls \cup SourceCodeUrls \subseteq RequestUrl

VARIABLES
  planUrl, planPc, planAnswer,                     \* calls of POST /plan-refs
  sourceCodeUrl, sourceCodePc, sourceCodeAnswer    \* calls of POST /source-code-refs

\* A call that stores a reference is known by the identifier it generates.
PlanRefs == INSTANCE ReferenceCalls
  WITH Call <- PlanId, Bodies <- PlanUrls, rows <- plans,
       body <- planUrl, pc <- planPc, answer <- planAnswer

SourceCodeRefs == INSTANCE ReferenceCalls
  WITH Call <- SourceCodeId, Bodies <- SourceCodeUrls, rows <- sourceCodes,
       body <- sourceCodeUrl, pc <- sourceCodePc, answer <- sourceCodeAnswer

planCalls == <<planUrl, planPc, planAnswer>>
sourceCodeCalls == <<sourceCodeUrl, sourceCodePc, sourceCodeAnswer>>
runCalls == <<body, pc, attempts, answer>>
serviceVars == <<vars, planCalls, sourceCodeCalls>>

ServiceInit == Init /\ PlanRefs!CallsInit /\ SourceCodeRefs!CallsInit

createPlanRef(plan) ==
  /\ PlanRefs!Handle(plan)
  /\ UNCHANGED <<sourceCodes, runs, topic, runCalls, sourceCodeCalls>>

createSourceCodeRef(sourceCode) ==
  /\ SourceCodeRefs!Handle(sourceCode)
  /\ UNCHANGED <<plans, runs, topic, runCalls, planCalls>>

createRun(c) == Handle(c) /\ UNCHANGED <<planCalls, sourceCodeCalls>>

\* Mutant: the calls of POST /runs are begun again after the restart.
crashAndBeginAgain ==
  /\ PlanRefs!inFlight \cup SourceCodeRefs!inFlight \cup inFlight # {}
  /\ pc' = [c \in Call |-> IF c \in inFlight THEN "idle" ELSE pc[c]]
  /\ PlanRefs!resetCalls /\ SourceCodeRefs!resetCalls
  /\ UNCHANGED <<tables, topic, body, attempts, answer, planUrl, sourceCodeUrl>>

\* The process of the three controllers dies.
crashAndRestart ==
  /\ PlanRefs!inFlight \cup SourceCodeRefs!inFlight \cup inFlight # {}
  /\ PlanRefs!resetCalls /\ SourceCodeRefs!resetCalls /\ resetCalls
  /\ UNCHANGED <<tables, topic, body, attempts, planUrl, sourceCodeUrl>>

ServiceNext ==
  \/ \E plan \in PlanId : createPlanRef(plan)
  \/ \E sourceCode \in SourceCodeId : createSourceCodeRef(sourceCode)
  \/ \E c \in Call : createRun(c)
  \/ crashAndRestart

ServiceSpec == ServiceInit /\ [][ServiceNext]_serviceVars

\* As in RunService, every promise of a call settles.
FairServiceSpec ==
  /\ ServiceSpec
  /\ \A plan \in PlanId : WF_serviceVars(createPlanRef(plan))
  /\ \A sourceCode \in SourceCodeId : WF_serviceVars(createSourceCodeRef(sourceCode))
  /\ \A c \in Call : WF_serviceVars(createRun(c))

-----------------------------------------------------------------------------
ServiceTypeOK ==
  TypeOK /\ PlanRefs!CallsTypeOK /\ SourceCodeRefs!CallsTypeOK

\* A run leads to two addresses that can be fetched and given to others: none
\* names another protocol or gives credentials away, whichever calls failed or
\* crashed in between (s3-urls.ts 5-17, run.repository.ts 60-79).
isFetchable(url) ==
  /\ url \in Url
  /\ url.protocol \in {"http:", "https:"} /\ ~ url.username /\ ~ url.password

RunsReferToFetchableUrls ==
  \A run \in runs :
    isFetchable(planUrl[run.planId]) /\ isFetchable(sourceCodeUrl[run.sourceCodeId])

\* 201 of a reference means it is stored, 400 that it is not; in between the
\* caller does not know (plan.controller.ts 26-36, source-code.controller.ts
\* 26-38).
ReferenceAnswersAreTrue ==
  PlanRefs!CallsAnswersAreTrue /\ SourceCodeRefs!CallsAnswersAreTrue

\* A caller that was told a reference exists is never told by another call
\* that it does not, however the calls overlap and even when the run's other
\* reference is the one that is missing (plan.service.ts 26-34,
\* run.repository.ts 53-79).
AcknowledgedReferencesAreFound ==
  [][\A c \in Call :
       answer'[c] # answer[c] =>
         /\ answer'[c] = "PLAN_NOT_FOUND" => planAnswer[body[c].plan_id] # "CREATED"
         /\ answer'[c] = "SOURCE_CODE_NOT_FOUND" =>
              sourceCodeAnswer[body[c].source_code_id] # "CREATED"]_serviceVars

\* Seen from POST /runs, the other two controllers only make rows appear, and
\* a crash of the process is a crash of its calls (app.module.ts 7-12).
ImplementsRunService == Spec

\* Every call that was accepted is answered or reset (plan.service.ts 26-34,
\* source-code.service.ts 27-36, run.service.ts 46-56).
ReferenceCallsAreAnswered ==
  /\ \A plan \in PlanId : planPc[plan] = "persist" ~> planAnswer[plan] # "none"
  /\ \A s \in SourceCodeId : sourceCodePc[s] = "persist" ~> sourceCodeAnswer[s] # "none"
=============================================================================
