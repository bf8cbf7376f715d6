------------------------------ MODULE RunService ------------------------------
(***************************************************************************)
(* The service's POST /runs (service/main/src/controller/run.controller.ts *)
(* and service/libs): a call is validated, stores a run that refers to a   *)
(* plan and a source code, publishes an event about it and is answered.    *)
(* The database and Kafka answer late, twice or not at all, and the        *)
(* process may crash between any two steps. Rows of plans and source codes *)
(* appear at any time; Service says how.                                   *)
(***************************************************************************)
EXTENDS RunStatusChanged, Sequences, Naturals, FiniteSets

CONSTANTS
  Call,         \* calls of POST /runs; randomUUID names the run of a call
  PlanId,       \* identifiers of plans
  SourceCodeId, \* identifiers of source codes
  NotUuid,      \* a string that is no UUID
  Bodies        \* the bodies a call may have

ASSUME BodiesAreBodies ==
  Bodies \subseteq [plan_id: PlanId \cup {NotUuid},
                    source_code_id: SourceCodeId \cup {NotUuid}]
ASSUME NotUuidIsNoId == NotUuid \notin PlanId \cup SourceCodeId

VARIABLES
  plans,         \* the rows of the table plans
  sourceCodes,   \* the rows of the table source_code
  runs,          \* the rows of the table runs
  body,          \* the body of every call
  pc,            \* the progress of every call
  attempts,      \* how often a call has tried to publish its event
  answer         \* the answer of every call

tables == <<plans, sourceCodes, runs>>
vars == <<tables, topic, body, pc, attempts, answer>>

RunState == {"pending_validation", "pending_approval", "approved", "rejected"}

Run == [id: Call, planId: PlanId, sourceCodeId: SourceCodeId, state: RunState]

Init ==
  /\ plans = {}
  /\ sourceCodes = {}
  /\ runs = {}
  /\ topic = <<>>
  /\ body \in [Call -> Bodies]
  /\ pc = [c \in Call |-> "idle"]
  /\ attempts = [c \in Call |-> 0]
  /\ answer = [c \in Call |-> "none"]

proceed(c, next) == pc' = [pc EXCEPT ![c] = next] /\ UNCHANGED answer

respond(c, response) ==
  /\ pc' = [pc EXCEPT ![c] = "answered"]
  /\ answer' = [answer EXCEPT ![c] = response]

-----------------------------------------------------------------------------
\* What a call sees of POST /plan-refs and POST /source-code-refs.
CreatePlanRef(plan) ==
  /\ plan \notin plans
  /\ plans' = plans \cup {plan}
  /\ UNCHANGED <<sourceCodes, runs, topic, body, pc, attempts, answer>>

CreateSourceCodeRef(sourceCode) ==
  /\ sourceCode \notin sourceCodes
  /\ sourceCodes' = sourceCodes \cup {sourceCode}
  /\ UNCHANGED <<plans, runs, topic, body, pc, attempts, answer>>

\* One error for each @IsUUID field that holds something else.
globalValidationPipe(requestBody) ==
  {field \in DOMAIN requestBody : requestBody[field] = NotUuid}

Validate(c) ==
  /\ pc[c] = "idle"
  /\ IF globalValidationPipe(body[c]) # {}
       THEN respond(c, "VALIDATION_ERROR")
       ELSE proceed(c, "persist")
  /\ UNCHANGED <<tables, topic, body, attempts>>

-----------------------------------------------------------------------------
(***************************************************************************)
(* RunDbRepository.createRun. When both references are missing, the        *)
(* database reports either of them; mapToLeft tells them apart by the name *)
(* of the constraint and throws any other error again. The row that was    *)
(* written is read back as a run, whose state has to be one of RunState.   *)
(***************************************************************************)
runOf(c) ==
  [id |-> c, planId |-> body[c].plan_id, sourceCodeId |-> body[c].source_code_id,
   state |-> "pending_validation"]

violatedConstraints(c) ==
  (IF body[c].plan_id \in plans THEN {} ELSE {"fk_runs_plans_id (index)"})
  \cup (IF body[c].source_code_id \in sourceCodes
          THEN {} ELSE {"fk_runs_source_code_id (index)"})

PRISMA_SOURCE_CODE_FK_VIOLATION_FIELD_NAME_VALUE == "fk_runs_source_code_id (index)"
PRISMA_PLAN_FK_VIOLATION_FIELD_NAME_VALUE == "fk_runs_plans_id (index)"

\* Mutant: a violation of any foreign key is taken for the first.
mapAnyToLeft(constraint) == "source_code_not_found"

mapToLeft(constraint) ==
  CASE constraint = PRISMA_SOURCE_CODE_FK_VIOLATION_FIELD_NAME_VALUE ->
         "source_code_not_found"
    [] constraint = PRISMA_PLAN_FK_VIOLATION_FIELD_NAME_VALUE ->
         "plan_not_found"
    [] OTHER -> "throws"

mapState(rawState) == IF rawState \in RunState THEN rawState ELSE "unknown_run_state"

\* What is thrown is left to the framework.
handleCreateRunError(error) ==
  CASE error = "plan_not_found"        -> "PLAN_NOT_FOUND"
    [] error = "source_code_not_found" -> "SOURCE_CODE_NOT_FOUND"
    [] error = "unknown_run_state"     -> "UNKNOWN_RUN_STATE"
    [] OTHER                           -> "INTERNAL_SERVER_ERROR"

PersistRun(c) ==
  /\ pc[c] = "persist"
  /\ violatedConstraints(c) = {}
  /\ runs' = runs \cup {runOf(c)}
  /\ IF mapState(runOf(c).state) = "unknown_run_state"
       THEN respond(c, handleCreateRunError("unknown_run_state"))
       ELSE proceed(c, "publish")
  /\ UNCHANGED <<plans, sourceCodes, topic, body, attempts>>

RejectRun(c) ==
  /\ pc[c] = "persist"
  /\ \E constraint \in violatedConstraints(c) :
       respond(c, handleCreateRunError(mapToLeft(constraint)))
  /\ UNCHANGED <<tables, topic, body, attempts>>

\* Mutant: the error of the database is swallowed and the event published.
IgnoreDatabase(c) ==
  /\ pc[c] = "persist"
  /\ \/ UNCHANGED runs
     \/ violatedConstraints(c) = {} /\ runs' = runs \cup {runOf(c)}
  /\ proceed(c, "publish")
  /\ UNCHANGED <<plans, sourceCodes, topic, body, attempts>>

\* The connection is lost before or after the row is committed.
LoseDatabase(c) ==
  /\ pc[c] = "persist"
  /\ \/ UNCHANGED runs
     \/ violatedConstraints(c) = {} /\ runs' = runs \cup {runOf(c)}
  /\ respond(c, "INTERNAL_SERVER_ERROR")
  /\ UNCHANGED <<plans, sourceCodes, topic, body, attempts>>

-----------------------------------------------------------------------------
(***************************************************************************)
(* KafkaPublisher.publish: kafkajs tries once and, with retries: 2, twice  *)
(* more. A broker may store the event without its acknowledgement reaching *)
(* the producer; the last failed attempt throws.                           *)
(***************************************************************************)
retries == 2

\* Mutant: one attempt too many.
afterFailedRetry(c) ==
  /\ attempts' = [attempts EXCEPT ![c] = @ + 1]
  /\ IF attempts[c] <= retries
       THEN UNCHANGED <<pc, answer>>
       ELSE respond(c, "INTERNAL_SERVER_ERROR")

\* Mutant: the last failure is thrown where nobody awaits it.
afterUnawaitedAttempt(c) ==
  /\ attempts' = [attempts EXCEPT ![c] = @ + 1]
  /\ IF attempts[c] < retries
       THEN UNCHANGED <<pc, answer>>
       ELSE proceed(c, "answered")

afterFailedAttempt(c) ==
  /\ attempts' = [attempts EXCEPT ![c] = @ + 1]
  /\ IF attempts[c] < retries
       THEN UNCHANGED <<pc, answer>>
       ELSE respond(c, "INTERNAL_SERVER_ERROR")

PublishAcknowledged(c) ==
  /\ pc[c] = "publish"
  /\ topic' = Append(topic, c)
  /\ attempts' = [attempts EXCEPT ![c] = @ + 1]
  /\ respond(c, "CREATED")
  /\ UNCHANGED <<tables, body>>

PublishUnacknowledged(c) ==
  /\ pc[c] = "publish"
  /\ topic' = Append(topic, c)
  /\ afterFailedAttempt(c)
  /\ UNCHANGED <<tables, body>>

PublishLost(c) ==
  /\ pc[c] = "publish"
  /\ afterFailedAttempt(c)
  /\ UNCHANGED <<tables, topic, body>>

\* Mutant: an error of the publisher is logged and forgotten.
PublishAnyway(c) ==
  /\ pc[c] = "publish"
  /\ respond(c, "CREATED")
  /\ UNCHANGED <<tables, topic, body, attempts>>

\* An error kafkajs does not retry.
PublishRefused(c) ==
  /\ pc[c] = "publish"
  /\ respond(c, "INTERNAL_SERVER_ERROR")
  /\ UNCHANGED <<tables, topic, body, attempts>>

\* The process dies with the calls it was working on and is started again.
inFlight == {c \in Call : pc[c] \in {"persist", "publish"}}

resetCalls ==
  /\ pc' = [c \in Call |-> IF c \in inFlight THEN "answered" ELSE pc[c]]
  /\ answer' = [c \in Call |-> IF c \in inFlight THEN "CONNECTION_RESET" ELSE answer[c]]

Crash ==
  /\ inFlight # {}
  /\ resetCalls
  /\ UNCHANGED <<tables, topic, body, attempts>>

-----------------------------------------------------------------------------
Persist(c) == PersistRun(c) \/ RejectRun(c) \/ LoseDatabase(c)

Publish(c) ==
  \/ PublishAcknowledged(c) \/ PublishUnacknowledged(c)
  \/ PublishLost(c) \/ PublishRefused(c)

Handle(c) == Validate(c) \/ Persist(c) \/ Publish(c)

Next ==
  \/ \E plan \in PlanId : CreatePlanRef(plan)
  \/ \E sourceCode \in SourceCodeId : CreateSourceCodeRef(sourceCode)
  \/ \E c \in Call : Handle(c)
  \/ Crash

Spec == Init /\ [][Next]_vars

\* Every promise of a call settles: the database client and kafkajs both have
\* time limits and a bounded number of attempts.
FairSpec == Spec /\ \A c \in Call : WF_vars(Handle(c))

-----------------------------------------------------------------------------
TypeOK ==
  /\ plans \subseteq PlanId
  /\ sourceCodes \subseteq SourceCodeId
  /\ runs \subseteq Run
  /\ topic \in Seq(Call)
  /\ body \in [Call -> Bodies]
  /\ pc \in [Call -> {"idle", "persist", "publish", "answered"}]
  /\ attempts \in [Call -> 0 .. retries + 1]
  /\ answer \in [Call -> {"none", "VALIDATION_ERROR", "SOURCE_CODE_NOT_FOUND",
                          "PLAN_NOT_FOUND", "UNKNOWN_RUN_STATE",
                          "INTERNAL_SERVER_ERROR", "CREATED", "CONNECTION_RESET"}]

events(c) == {i \in DOMAIN topic : topic[i] = c}

isBadRequest(c) ==
  answer[c] \in {"VALIDATION_ERROR", "SOURCE_CODE_NOT_FOUND", "PLAN_NOT_FOUND"}

\* An event is never ahead of its run: whoever reads the topic finds the run
\* and what it refers to, whatever failed or crashed since (run.service.ts
\* 41-53).
EventsFollowRuns ==
  \A i \in DOMAIN topic :
    \E run \in runs : /\ run.id = topic[i]
                      /\ run.planId \in plans
                      /\ run.sourceCodeId \in sourceCodes

\* 201 means stored and announced, 400 neither; only an error or a lost
\* connection leaves the caller in doubt (run.controller.ts 25-59,
\* run.repository.ts 62-83).
AnswersAreTrue ==
  \A c \in Call :
    /\ answer[c] = "CREATED" => runOf(c) \in runs /\ events(c) # {}
    /\ isBadRequest(c) => runOf(c) \notin runs /\ events(c) = {}

\* An event is stored once for every attempt of kafkajs at most, so that a
\* consumer sees a state of a run up to three times (kafka-publisher.ts 10-31).
EventsPerRunAreBounded ==
  \A c \in Call : Cardinality(events(c)) <= retries + 1

\* Every call that is accepted is answered or reset.
CallsAreAnswered == \A c \in Call : pc[c] = "persist" ~> answer[c] # "none"
=============================================================================
