---------------------------- MODULE RunServiceProofs ----------------------------
(***************************************************************************)
(* For any number of calls of POST /runs, whatever the database, Kafka and *)
(* the process do: events never precede their runs, answers say what is    *)
(* stored and published, and kafkajs bounds the events of a run.           *)
(***************************************************************************)
EXTENDS RunService, FiniteSetTheorems, TLAPS

\* A stored run is that of its call, and what it refers to exists.
RunInv ==
  \A run \in runs :
    run = runOf(run.id) /\ run.planId \in plans /\ run.sourceCodeId \in sourceCodes

\* An event is published by a call that has stored its run.
EventInv ==
  \A i \in DOMAIN topic :
    runOf(topic[i]) \in runs /\ pc[topic[i]] \in {"publish", "answered"}

\* How far a call is, and what it has done so far.
CallInv ==
  \A c \in Call :
    /\ pc[c] # "answered" => answer[c] = "none" /\ attempts[c] <= retries
    /\ pc[c] = "publish" => runOf(c) \in runs
    /\ Cardinality(events(c)) <= attempts[c]

IInv == TypeOK /\ RunInv /\ EventInv /\ CallInv /\ AnswersAreTrue

-----------------------------------------------------------------------------
LEMMA BodyType ==
  ASSUME TypeOK, NEW c \in Call
  PROVE  /\ body[c].plan_id \in PlanId \cup {NotUuid}
         /\ body[c].source_code_id \in SourceCodeId \cup {NotUuid}
         /\ DOMAIN body[c] = {"plan_id", "source_code_id"}
BY BodiesAreBodies DEF TypeOK

LEMMA RunOf ==
  ASSUME NEW c
  PROVE  /\ runOf(c).id = c /\ runOf(c).planId = body[c].plan_id
         /\ runOf(c).sourceCodeId = body[c].source_code_id
         /\ runOf(c).state = "pending_validation"
BY DEF runOf

LEMMA FiniteEvents ==
  ASSUME TypeOK, NEW c \in Call
  PROVE  IsFiniteSet(events(c)) /\ events(c) \subseteq 1 .. Len(topic)
<1>1. Len(topic) \in Nat /\ DOMAIN topic = 1 .. Len(topic)
  BY DEF TypeOK
<1>2. events(c) \subseteq 1 .. Len(topic)
  BY <1>1 DEF events
<1>3. IsFiniteSet(1 .. Len(topic))
  BY <1>1, FS_Interval
<1> QED
  BY <1>2, <1>3, FS_Subset

\* An event more is an event more of its run.
LEMMA OneEventMore ==
  ASSUME TypeOK, NEW c \in Call, topic' = Append(topic, c), NEW d \in Call
  PROVE  /\ events(d)' = IF d = c THEN events(d) \cup {Len(topic) + 1} ELSE events(d)
         /\ Cardinality(events(d)') =
              IF d = c THEN Cardinality(events(d)) + 1 ELSE Cardinality(events(d))
<1>1. /\ topic \in Seq(Call) /\ Len(topic) \in Nat
      /\ DOMAIN topic = 1 .. Len(topic) /\ DOMAIN topic' = 1 .. (Len(topic) + 1)
      /\ \A i \in DOMAIN topic : topic'[i] = topic[i]
      /\ topic'[Len(topic) + 1] = c
  BY DEF TypeOK
<1>2. events(d)' = IF d = c THEN events(d) \cup {Len(topic) + 1} ELSE events(d)
  BY <1>1 DEF events
<1>3. IsFiniteSet(events(d)) /\ Len(topic) + 1 \notin events(d)
  BY <1>1, FiniteEvents DEF events
<1>4. Cardinality(events(d) \cup {Len(topic) + 1}) = Cardinality(events(d)) + 1
  BY <1>3, FS_AddElement
<1> QED
  BY <1>2, <1>4

LEMMA SameEvents ==
  ASSUME topic' = topic, NEW c
  PROVE  events(c)' = events(c)
BY DEF events

\* What is answered to a violated foreign key.
LEMMA Rejections ==
  ASSUME NEW c, NEW constraint \in violatedConstraints(c)
  PROVE  handleCreateRunError(mapToLeft(constraint)) \in
           {"PLAN_NOT_FOUND", "SOURCE_CODE_NOT_FOUND"}
BY DEF violatedConstraints, mapToLeft, handleCreateRunError,
       PRISMA_SOURCE_CODE_FK_VIOLATION_FIELD_NAME_VALUE,
       PRISMA_PLAN_FK_VIOLATION_FIELD_NAME_VALUE

\* The database accepts a run exactly if what it refers to exists.
LEMMA Accepted ==
  ASSUME NEW c
  PROVE  violatedConstraints(c) = {}
           <=> body[c].plan_id \in plans /\ body[c].source_code_id \in sourceCodes
BY DEF violatedConstraints

LEMMA InitInv == Init => IInv
<1> SUFFICES ASSUME Init PROVE IInv
  OBVIOUS
<1>1. TypeOK
  BY DEF Init, TypeOK, retries
<1>2. \A c \in Call : events(c) = {}
  BY DEF Init, events
<1>3. \A c \in Call : Cardinality(events(c)) = 0
  BY <1>2, FS_EmptySet
<1> QED
  BY <1>1, <1>2, <1>3
  DEF Init, IInv, RunInv, EventInv, CallInv, AnswersAreTrue, isBadRequest, retries

-----------------------------------------------------------------------------
\* Rows are only added, and a run only after what it refers to.
LEMMA KeepsRunInv ==
  ASSUME RunInv, UNCHANGED body, plans \subseteq plans', sourceCodes \subseteq sourceCodes',
         \/ UNCHANGED runs
         \/ \E c \in Call : violatedConstraints(c) = {} /\ runs' = runs \cup {runOf(c)}
  PROVE  RunInv'
<1>1. \A c : runOf(c)' = runOf(c)
  BY DEF runOf
<1>2. CASE UNCHANGED runs
  BY <1>1, <1>2 DEF RunInv
<1>3. ASSUME NEW c \in Call, violatedConstraints(c) = {}, runs' = runs \cup {runOf(c)}
      PROVE  RunInv'
  BY <1>1, <1>3, Accepted, RunOf DEF RunInv
<1> QED
  BY <1>2, <1>3

\* A call that has published never goes back.
LEMMA KeepsEventInv ==
  ASSUME EventInv, UNCHANGED <<body, topic>>, runs \subseteq runs',
         TypeOK,
         \A d \in Call : pc[d] \in {"publish", "answered"} => pc'[d] \in {"publish", "answered"}
  PROVE  EventInv'
<1>1. \A c : runOf(c)' = runOf(c)
  BY DEF runOf
<1>2. \A i \in DOMAIN topic : topic[i] \in Call
  BY DEF TypeOK
<1> QED
  BY <1>1, <1>2 DEF EventInv

\* Rows of references appear.
LEMMA ReferencesKeepInv ==
  ASSUME IInv, plans' \subseteq PlanId, sourceCodes' \subseteq SourceCodeId,
         plans \subseteq plans', sourceCodes \subseteq sourceCodes',
         UNCHANGED <<runs, topic, body, pc, attempts, answer>>
  PROVE  IInv'
<1>1. TypeOK'
  BY DEF IInv, TypeOK
<1>2. RunInv' /\ EventInv'
  BY KeepsRunInv, KeepsEventInv DEF IInv
<1>3. \A c : runOf(c)' = runOf(c) /\ events(c)' = events(c)
  BY DEF runOf, events
<1>4. CallInv' /\ AnswersAreTrue'
  BY <1>3 DEF IInv, CallInv, AnswersAreTrue, isBadRequest
<1> QED
  BY <1>1, <1>2, <1>4 DEF IInv

\* The rest of the invariant is about calls. A step of a call leaves the other
\* calls, their runs and their events alone.
OthersStay(c) ==
  \A d \in Call \ {c} :
    /\ pc'[d] = pc[d] /\ answer'[d] = answer[d] /\ attempts'[d] = attempts[d]
    /\ runOf(d) \in runs' <=> runOf(d) \in runs
    /\ events(d)' = events(d)

\* The part of CallInv and AnswersAreTrue that is about one call.
CallIsRight(c) ==
  /\ pc[c] # "answered" => answer[c] = "none" /\ attempts[c] <= retries
  /\ pc[c] = "publish" => runOf(c) \in runs
  /\ Cardinality(events(c)) <= attempts[c]
  /\ answer[c] = "CREATED" => runOf(c) \in runs /\ events(c) # {}
  /\ isBadRequest(c) => runOf(c) \notin runs /\ events(c) = {}

LEMMA CallsAreRight == CallInv /\ AnswersAreTrue <=> \A c \in Call : CallIsRight(c)
BY DEF CallInv, AnswersAreTrue, CallIsRight

LEMMA StepOfOneCall ==
  ASSUME CallInv, AnswersAreTrue, NEW c \in Call, UNCHANGED body,
         OthersStay(c), CallIsRight(c)'
  PROVE  CallInv' /\ AnswersAreTrue'
<1>1. ASSUME NEW d \in Call, d # c
      PROVE  CallIsRight(d)'
  <2>1. CallIsRight(d)
    BY CallsAreRight
  <2>2. runOf(d)' = runOf(d)
    BY DEF runOf
  <2>3. /\ pc'[d] = pc[d] /\ answer'[d] = answer[d] /\ attempts'[d] = attempts[d]
        /\ runOf(d) \in runs' <=> runOf(d) \in runs
        /\ events(d)' = events(d)
    BY <1>1 DEF OthersStay
  <2> QED
    BY <2>1, <2>2, <2>3 DEF CallIsRight, isBadRequest
<1>2. \A d \in Call : CallIsRight(d)'
  BY <1>1
<1> QED
  BY <1>2 DEF CallIsRight, CallInv, AnswersAreTrue, isBadRequest

\* A step that stores and publishes nothing.
LEMMA QuietStep ==
  ASSUME IInv, NEW c \in Call, UNCHANGED <<tables, topic, body>>, TypeOK',
         \A d \in Call \ {c} : pc'[d] = pc[d] /\ answer'[d] = answer[d] /\ attempts'[d] = attempts[d],
         attempts'[c] >= attempts[c],
         pc[c] = "publish" => pc'[c] \in {"publish", "answered"},
         pc[c] = "answered" => pc'[c] = "answered",
         pc'[c] # "answered" => answer'[c] = "none" /\ attempts'[c] <= retries,
         pc'[c] = "publish" => runOf(c) \in runs,
         answer'[c] # "CREATED",
         answer'[c] \in {"VALIDATION_ERROR", "SOURCE_CODE_NOT_FOUND", "PLAN_NOT_FOUND"} =>
           runOf(c) \notin runs /\ events(c) = {}
  PROVE  IInv'
<1>1. \A d : runOf(d)' = runOf(d) /\ events(d)' = events(d)
  BY DEF runOf, events
<1>2. RunInv' /\ EventInv'
  BY KeepsRunInv, KeepsEventInv DEF IInv, tables
<1>3. OthersStay(c)
  BY <1>1 DEF OthersStay, tables
<1>4. Cardinality(events(c)) <= attempts'[c]
  <2>1. Cardinality(events(c)) \in Nat
    BY FiniteEvents, FS_CardinalityType DEF IInv
  <2>2. attempts[c] \in Nat /\ attempts'[c] \in Nat
    BY DEF IInv, TypeOK, retries
  <2> QED
    BY <2>1, <2>2 DEF IInv, CallInv
<1>5. CallIsRight(c)'
  BY <1>1, <1>4 DEF CallIsRight, isBadRequest, tables
<1>6. CallInv' /\ AnswersAreTrue'
  BY <1>3, <1>5, StepOfOneCall DEF IInv
<1> QED
  BY <1>2, <1>6 DEF IInv

\* A call that was not stored has no events.
LEMMA NotStored ==
  ASSUME IInv, NEW c \in Call, runOf(c) \notin runs
  PROVE  events(c) = {}
BY DEF IInv, EventInv, events

LEMMA ValidateInv == ASSUME IInv, NEW c \in Call, Validate(c) PROVE IInv'
<1>1. TypeOK'
  BY DEF IInv, Validate, TypeOK, tables, proceed, respond
<1>2. ASSUME globalValidationPipe(body[c]) # {}
      PROVE  runOf(c) \notin runs /\ events(c) = {}
  <2>1. NotUuid \in {body[c].plan_id, body[c].source_code_id}
    BY <1>2, BodyType DEF IInv, globalValidationPipe
  <2>2. runOf(c) \notin runs
    BY <2>1, RunOf, NotUuidIsNoId DEF IInv, TypeOK, Run
  <2> QED
    BY <2>2, NotStored
<1>3. \A d \in Call \ {c} :
        pc'[d] = pc[d] /\ answer'[d] = answer[d] /\ attempts'[d] = attempts[d]
  BY DEF IInv, TypeOK, Validate, proceed, respond
<1>4. /\ pc[c] = "idle" /\ attempts'[c] = attempts[c]
      /\ attempts[c] <= retries /\ attempts[c] \in Nat /\ answer[c] = "none"
  BY DEF IInv, TypeOK, CallInv, Validate, retries
<1>5. CASE globalValidationPipe(body[c]) # {}
  <2>1. pc'[c] = "answered" /\ answer'[c] = "VALIDATION_ERROR"
    BY <1>5 DEF IInv, TypeOK, Validate, respond
  <2> QED
    BY <1>1, <1>2, <1>3, <1>4, <1>5, <2>1, QuietStep DEF Validate
<1>6. CASE globalValidationPipe(body[c]) = {}
  <2>1. pc'[c] = "persist" /\ answer'[c] = "none"
    BY <1>4, <1>6 DEF IInv, TypeOK, Validate, proceed
  <2> QED
    BY <1>1, <1>3, <1>4, <2>1, QuietStep DEF Validate
<1> QED
  BY <1>5, <1>6

LEMMA RejectRunInv == ASSUME IInv, NEW c \in Call, RejectRun(c) PROVE IInv'
<1> PICK constraint \in violatedConstraints(c) :
      respond(c, handleCreateRunError(mapToLeft(constraint)))
  BY DEF RejectRun
<1>1. handleCreateRunError(mapToLeft(constraint)) \in {"PLAN_NOT_FOUND", "SOURCE_CODE_NOT_FOUND"}
  BY Rejections
<1>2. TypeOK'
  BY <1>1 DEF IInv, RejectRun, TypeOK, tables, respond
<1>3. runOf(c) \notin runs
  BY Accepted, RunOf DEF IInv, RunInv
<1>4. \A d \in Call \ {c} :
        pc'[d] = pc[d] /\ answer'[d] = answer[d] /\ attempts'[d] = attempts[d]
  BY DEF IInv, TypeOK, RejectRun, respond
<1>5. /\ pc[c] = "persist" /\ pc'[c] = "answered" /\ attempts'[c] = attempts[c]
      /\ answer'[c] \in {"PLAN_NOT_FOUND", "SOURCE_CODE_NOT_FOUND"} /\ attempts[c] \in Nat
  BY <1>1 DEF IInv, TypeOK, RejectRun, respond, retries
<1> QED
  BY <1>2, <1>3, <1>4, <1>5, NotStored, QuietStep DEF RejectRun

\* A row is written; the call goes on or fails.
LEMMA StoringStep ==
  ASSUME IInv, NEW c \in Call, violatedConstraints(c) = {}, runs' = runs \cup {runOf(c)},
         UNCHANGED <<plans, sourceCodes, topic, body, attempts>>, TypeOK',
         \A d \in Call \ {c} : pc'[d] = pc[d] /\ answer'[d] = answer[d],
         pc[c] = "persist",
         \/ pc'[c] = "publish" /\ answer'[c] = "none"
         \/ pc'[c] = "answered" /\ answer'[c] = "INTERNAL_SERVER_ERROR"
  PROVE  IInv'
<1>1. \A d : runOf(d)' = runOf(d) /\ events(d)' = events(d)
  BY DEF runOf, events
<1>2. RunInv'
  BY KeepsRunInv DEF IInv
<1>3. EventInv'
  BY KeepsEventInv DEF IInv
<1>4. OthersStay(c)
  BY <1>1, RunOf DEF OthersStay
<1>5. CallIsRight(c)'
  BY <1>1 DEF IInv, CallInv, CallIsRight, isBadRequest
<1>6. CallInv' /\ AnswersAreTrue'
  BY <1>4, <1>5, StepOfOneCall DEF IInv
<1> QED
  BY <1>2, <1>3, <1>6 DEF IInv

\* A run that is accepted is a run.
LEMMA AcceptedType ==
  ASSUME TypeOK, NEW c \in Call, violatedConstraints(c) = {}
  PROVE  runOf(c) \in Run
BY Accepted DEF TypeOK, runOf, Run, RunState

LEMMA PersistRunInv == ASSUME IInv, NEW c \in Call, PersistRun(c) PROVE IInv'
<1>1. mapState(runOf(c).state) # "unknown_run_state"
  BY RunOf DEF mapState, RunState
<1>2. proceed(c, "publish")
  BY <1>1 DEF PersistRun
<1>3. TypeOK'
  BY <1>2, AcceptedType DEF IInv, PersistRun, TypeOK, proceed
<1>4. \A d \in Call \ {c} : pc'[d] = pc[d] /\ answer'[d] = answer[d]
  BY <1>2 DEF IInv, TypeOK, proceed
<1>5. pc[c] = "persist" /\ pc'[c] = "publish" /\ answer'[c] = "none"
  BY <1>2 DEF IInv, TypeOK, CallInv, PersistRun, proceed
<1> QED
  BY <1>3, <1>4, <1>5, StoringStep DEF PersistRun

LEMMA LoseDatabaseInv == ASSUME IInv, NEW c \in Call, LoseDatabase(c) PROVE IInv'
<1>1. TypeOK'
  BY AcceptedType DEF IInv, LoseDatabase, TypeOK, respond
<1>2. \A d \in Call \ {c} :
        pc'[d] = pc[d] /\ answer'[d] = answer[d] /\ attempts'[d] = attempts[d]
  BY DEF IInv, TypeOK, LoseDatabase, respond
<1>3. /\ pc[c] = "persist" /\ pc'[c] = "answered" /\ attempts'[c] = attempts[c]
      /\ answer'[c] = "INTERNAL_SERVER_ERROR" /\ attempts[c] \in Nat
  BY DEF IInv, TypeOK, LoseDatabase, respond, retries
<1>4. CASE UNCHANGED runs
  BY <1>1, <1>2, <1>3, <1>4, QuietStep DEF LoseDatabase, tables
<1>5. CASE violatedConstraints(c) = {} /\ runs' = runs \cup {runOf(c)}
  BY <1>1, <1>2, <1>3, <1>5, StoringStep DEF LoseDatabase
<1> QED
  BY <1>4, <1>5 DEF LoseDatabase

-----------------------------------------------------------------------------
\* What an attempt that fails leaves: another one is allowed, or the last one
\* has thrown.
LEMMA FailedAttempt ==
  ASSUME IInv, NEW c \in Call, pc[c] = "publish", afterFailedAttempt(c)
  PROVE  /\ \A d \in Call \ {c} :
              pc'[d] = pc[d] /\ answer'[d] = answer[d] /\ attempts'[d] = attempts[d]
         /\ attempts[c] \in Nat /\ attempts'[c] = attempts[c] + 1
         /\ \/ pc'[c] = "publish" /\ answer'[c] = "none" /\ attempts'[c] <= retries
            \/ pc'[c] = "answered" /\ answer'[c] = "INTERNAL_SERVER_ERROR"
<1>1. attempts[c] \in Nat /\ attempts[c] <= retries /\ answer[c] = "none"
  BY DEF IInv, TypeOK, CallInv, retries
<1> QED
  BY <1>1 DEF IInv, TypeOK, afterFailedAttempt, respond, retries

LEMMA FailedAttemptType ==
  ASSUME IInv, NEW c \in Call, pc[c] = "publish", afterFailedAttempt(c),
         UNCHANGED <<tables, body>>, topic' \in Seq(Call)
  PROVE  TypeOK'
<1>1. attempts[c] \in 0 .. retries
  BY DEF IInv, TypeOK, CallInv, retries
<1>2. attempts' \in [Call -> 0 .. retries + 1]
  BY <1>1 DEF IInv, TypeOK, afterFailedAttempt, retries
<1>3. /\ pc' \in [Call -> {"idle", "persist", "publish", "answered"}]
      /\ answer' = answer \/ answer' = [answer EXCEPT ![c] = "INTERNAL_SERVER_ERROR"]
  BY DEF IInv, TypeOK, afterFailedAttempt, respond
<1> QED
  BY <1>2, <1>3 DEF IInv, TypeOK, tables

\* An event is appended; the call goes on, is answered or fails.
LEMMA PublishingStep ==
  ASSUME IInv, NEW c \in Call, UNCHANGED <<tables, body>>, topic' = Append(topic, c), TypeOK',
         \A d \in Call \ {c} : pc'[d] = pc[d] /\ answer'[d] = answer[d] /\ attempts'[d] = attempts[d],
         pc[c] = "publish", attempts'[c] = attempts[c] + 1,
         \/ pc'[c] = "publish" /\ answer'[c] = "none" /\ attempts'[c] <= retries
         \/ pc'[c] = "answered" /\ answer'[c] \in {"CREATED", "INTERNAL_SERVER_ERROR"}
  PROVE  IInv'
<1>1. \A d : runOf(d)' = runOf(d)
  BY DEF runOf
<1>2. runOf(c) \in runs
  BY DEF IInv, CallInv
<1>3. RunInv'
  BY KeepsRunInv DEF IInv, tables
<1>4. EventInv'
  <2>1. /\ DOMAIN topic' = DOMAIN topic \cup {Len(topic) + 1}
        /\ \A i \in DOMAIN topic : topic'[i] = topic[i] /\ topic[i] \in Call
        /\ topic'[Len(topic) + 1] = c
    BY DEF IInv, TypeOK
  <2> QED
    BY <1>1, <1>2, <2>1 DEF IInv, EventInv, tables
<1>5. OthersStay(c)
  BY OneEventMore DEF IInv, OthersStay, runOf, tables
<1>6. CallIsRight(c)'
  <2>1. /\ events(c)' = events(c) \cup {Len(topic) + 1}
        /\ Cardinality(events(c)') = Cardinality(events(c)) + 1
    BY OneEventMore DEF IInv
  <2>2. Cardinality(events(c)) \in Nat /\ attempts[c] \in Nat
    BY FiniteEvents, FS_CardinalityType DEF IInv, TypeOK, retries
  <2>3. Cardinality(events(c)') <= attempts'[c]
    BY <2>1, <2>2 DEF IInv, CallInv
  <2> QED
    BY <1>1, <1>2, <2>1, <2>3 DEF CallIsRight, isBadRequest, tables
<1>7. CallInv' /\ AnswersAreTrue'
  BY <1>5, <1>6, StepOfOneCall DEF IInv
<1> QED
  BY <1>3, <1>4, <1>7 DEF IInv

LEMMA PublishInv == ASSUME IInv, NEW c \in Call, Publish(c) PROVE IInv'
<1>1. CASE PublishAcknowledged(c)
  <2>1. attempts[c] \in Nat /\ attempts[c] <= retries
    BY <1>1 DEF IInv, TypeOK, CallInv, PublishAcknowledged, retries
  <2>2. TypeOK'
    BY <1>1, <2>1 DEF IInv, TypeOK, PublishAcknowledged, respond, tables, retries
  <2>3. /\ \A d \in Call \ {c} :
             pc'[d] = pc[d] /\ answer'[d] = answer[d] /\ attempts'[d] = attempts[d]
        /\ attempts'[c] = attempts[c] + 1 /\ pc'[c] = "answered" /\ answer'[c] = "CREATED"
    BY <1>1 DEF IInv, TypeOK, PublishAcknowledged, respond
  <2> QED
    BY <1>1, <2>2, <2>3, PublishingStep DEF PublishAcknowledged
<1>2. CASE PublishUnacknowledged(c)
  <2>1. /\ pc[c] = "publish" /\ afterFailedAttempt(c)
        /\ UNCHANGED <<tables, body>> /\ topic' = Append(topic, c)
    BY <1>2 DEF PublishUnacknowledged
  <2>2. topic' \in Seq(Call)
    BY <2>1 DEF IInv, TypeOK
  <2>3. TypeOK'
    BY <2>1, <2>2, FailedAttemptType
  <2> QED
    BY <2>1, <2>3, FailedAttempt, PublishingStep
<1>3. CASE PublishLost(c)
  <2>1. /\ pc[c] = "publish" /\ afterFailedAttempt(c)
        /\ UNCHANGED <<tables, topic, body>>
    BY <1>3 DEF PublishLost
  <2>2. topic' \in Seq(Call)
    BY <2>1 DEF IInv, TypeOK
  <2>3. TypeOK'
    BY <2>1, <2>2, FailedAttemptType
  <2>4. runOf(c) \in runs
    BY <2>1 DEF IInv, CallInv
  <2> QED
    BY <2>1, <2>3, <2>4, FailedAttempt, QuietStep
<1>4. CASE PublishRefused(c)
  <2>1. TypeOK'
    BY <1>4 DEF IInv, TypeOK, PublishRefused, respond, tables
  <2>2. /\ \A d \in Call \ {c} :
             pc'[d] = pc[d] /\ answer'[d] = answer[d] /\ attempts'[d] = attempts[d]
        /\ attempts'[c] = attempts[c] /\ attempts[c] \in Nat
        /\ pc'[c] = "answered" /\ answer'[c] = "INTERNAL_SERVER_ERROR"
    BY <1>4 DEF IInv, TypeOK, PublishRefused, respond, retries
  <2> QED
    BY <1>4, <2>1, <2>2, QuietStep DEF PublishRefused
<1> QED
  BY <1>1, <1>2, <1>3, <1>4 DEF Publish

\* The calls a crash resets have no answer yet and get one that promises
\* nothing.
LEMMA CrashInv == ASSUME IInv, Crash PROVE IInv'
<1>1. /\ UNCHANGED <<tables, topic, body, attempts>>
      /\ \A c \in Call : IF c \in inFlight
           THEN pc'[c] = "answered" /\ answer'[c] = "CONNECTION_RESET"
           ELSE pc'[c] = pc[c] /\ answer'[c] = answer[c]
  BY DEF Crash, resetCalls
<1>2. TypeOK'
  BY DEF IInv, TypeOK, Crash, resetCalls, tables
<1>3. \A d : runOf(d)' = runOf(d) /\ events(d)' = events(d)
  BY <1>1 DEF runOf, events
<1>4. RunInv'
  BY <1>1, KeepsRunInv DEF IInv, tables
<1>5. EventInv'
  BY <1>1, KeepsEventInv DEF IInv, tables
<1>6. ASSUME NEW c \in Call
      PROVE  CallIsRight(c)'
  <2>1. CallIsRight(c)
    BY CallsAreRight DEF IInv
  <2> QED
    BY <1>1, <1>3, <2>1 DEF CallIsRight, isBadRequest, tables
<1>7. CallInv' /\ AnswersAreTrue'
  BY <1>6 DEF CallIsRight, CallInv, AnswersAreTrue, isBadRequest
<1> QED
  BY <1>2, <1>4, <1>5, <1>7 DEF IInv

LEMMA NextInv == IInv /\ [Next]_vars => IInv'
<1> SUFFICES ASSUME IInv, [Next]_vars PROVE IInv'
  OBVIOUS
<1>1. ASSUME NEW plan \in PlanId, CreatePlanRef(plan) PROVE IInv'
  BY <1>1, ReferencesKeepInv DEF CreatePlanRef, IInv, TypeOK
<1>2. ASSUME NEW sourceCode \in SourceCodeId, CreateSourceCodeRef(sourceCode) PROVE IInv'
  BY <1>2, ReferencesKeepInv DEF CreateSourceCodeRef, IInv, TypeOK
<1>3. ASSUME NEW c \in Call, Handle(c) PROVE IInv'
  BY <1>3, ValidateInv, PersistRunInv, RejectRunInv, LoseDatabaseInv, PublishInv
  DEF Handle, Persist
<1>4. CASE Crash
  BY <1>4, CrashInv
<1>5. CASE UNCHANGED vars
  BY <1>5, ReferencesKeepInv DEF vars, tables, IInv, TypeOK
<1> QED
  BY <1>1, <1>2, <1>3, <1>4, <1>5 DEF Next

-----------------------------------------------------------------------------
LEMMA Invariance == Spec => []IInv
BY InitInv, NextInv, PTL DEF Spec

\* The state of the tables, the topic and the calls is of its types; no call
\* tries a fourth time to publish (kafka-publisher.ts 10-31).
THEOREM TypeCorrect == Spec => []TypeOK
<1>1. IInv => TypeOK
  BY DEF IInv
<1> QED
  BY <1>1, Invariance, PTL

\* However many calls overlap, fail and crash, an event in the topic is about
\* a run that is stored with all it refers to (run.service.ts 41-53).
THEOREM EventsAlwaysFollowRuns == Spec => []EventsFollowRuns
<1>1. IInv => EventsFollowRuns
  BY RunOf DEF IInv, TypeOK, RunInv, EventInv, EventsFollowRuns
<1> QED
  BY <1>1, Invariance, PTL

\* 201 is a run stored and announced, 400 one that is neither
\* (run.controller.ts 25-59, run.repository.ts 62-83).
THEOREM AnswersAreAlwaysTrue == Spec => []AnswersAreTrue
<1>1. IInv => AnswersAreTrue
  BY DEF IInv
<1> QED
  BY <1>1, Invariance, PTL

\* A consumer sees the state of a run three times at most
\* (kafka-publisher.ts 10-31).
THEOREM EventsAreBounded == Spec => []EventsPerRunAreBounded
<1>1. ASSUME IInv, NEW c \in Call
      PROVE  Cardinality(events(c)) <= retries + 1
  <2>1. Cardinality(events(c)) \in Nat
    BY <1>1, FiniteEvents, FS_CardinalityType DEF IInv
  <2> QED
    BY <1>1, <2>1 DEF IInv, CallInv, TypeOK, retries
<1>2. IInv => EventsPerRunAreBounded
  BY <1>1 DEF EventsPerRunAreBounded
<1> QED
  BY <1>2, Invariance, PTL
=============================================================================
