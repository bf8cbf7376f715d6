---------------------------- MODULE ReferenceCalls ----------------------------
(***************************************************************************)
(* One of the two controllers that store references: POST /plan-refs       *)
(* (plan.controller.ts, plan.service.ts, plan.repository.ts), of which     *)
(* POST /source-code-refs is a copy for another table. A call checks the   *)
(* URL of its body, inserts a row with a new identifier and answers with   *)
(* that identifier in the header Location.                                 *)
(***************************************************************************)
EXTENDS S3Urls

CONSTANTS
  Call,     \* calls of the controller; randomUUID names the row of a call
  Bodies    \* the urls their bodies may have

VARIABLES
  rows,     \* the rows of the table, by their identifier
  body,     \* the url in the body of every call
  pc,       \* the progress of every call
  answer    \* the answer of every call

callVars == <<body, pc, answer>>

CallsInit ==
  /\ body \in [Call -> Bodies]
  /\ pc = [c \in Call |-> "idle"]
  /\ answer = [c \in Call |-> "none"]

proceed(c, next) == pc' = [pc EXCEPT ![c] = next] /\ UNCHANGED answer

respond(c, response) ==
  /\ pc' = [pc EXCEPT ![c] = "answered"]
  /\ answer' = [answer EXCEPT ![c] = response]

\* The left values of the service are upper-cased into 400s; what throws is
\* left to the framework.
generateErrorResponse(errorCode) ==
  CASE errorCode = "credentials_detected" -> "CREDENTIALS_DETECTED"
    [] errorCode = "invalid_protocol"     -> "INVALID_PROTOCOL"
    [] OTHER                              -> "INTERNAL_SERVER_ERROR"

\* validateRequest: nothing is awaited before it.
ValidateRequest(c) ==
  /\ pc[c] = "idle"
  /\ IF isValidS3Url(body[c]) = "right"
       THEN proceed(c, "persist")
       ELSE respond(c, generateErrorResponse(isValidS3Url(body[c])))
  /\ UNCHANGED <<rows, body>>

\* Mutant: the insertion is not awaited before the answer.
PersistLater(c) ==
  /\ pc[c] = "persist"
  /\ \/ rows' = rows \cup {c} /\ UNCHANGED pc
     \/ UNCHANGED rows /\ pc' = [pc EXCEPT ![c] = "respond"]
  /\ UNCHANGED <<body, answer>>

Persist(c) ==
  /\ pc[c] = "persist"
  /\ rows' = rows \cup {c}
  /\ proceed(c, "respond")
  /\ UNCHANGED body

\* The connection is lost before or after the row is committed.
LoseDatabase(c) ==
  /\ pc[c] = "persist"
  /\ rows' \in {rows, rows \cup {c}}
  /\ respond(c, "INTERNAL_SERVER_ERROR")
  /\ UNCHANGED body

\* Mutant: @Res without passthrough, so that the framework sends nothing.
RespondByHand(c) ==
  /\ pc[c] = "respond"
  /\ proceed(c, "answered")
  /\ UNCHANGED <<rows, body>>

Respond(c) ==
  /\ pc[c] = "respond"
  /\ respond(c, "CREATED")
  /\ UNCHANGED <<rows, body>>

Handle(c) == ValidateRequest(c) \/ Persist(c) \/ LoseDatabase(c) \/ Respond(c)

\* The process dies with the calls it was working on.
inFlight == {c \in Call : pc[c] \in {"persist", "respond"}}

resetCalls ==
  /\ pc' = [c \in Call |-> IF c \in inFlight THEN "answered" ELSE pc[c]]
  /\ answer' = [c \in Call |-> IF c \in inFlight THEN "CONNECTION_RESET" ELSE answer[c]]

-----------------------------------------------------------------------------
CallsTypeOK ==
  /\ rows \subseteq Call
  /\ body \in [Call -> Bodies]
  /\ pc \in [Call -> {"idle", "persist", "respond", "answered"}]
  /\ answer \in [Call -> {"none", "CREDENTIALS_DETECTED", "INVALID_PROTOCOL",
                          "INTERNAL_SERVER_ERROR", "CREATED", "CONNECTION_RESET"}]

\* 201 is an identifier that is stored, 400 leaves nothing behind; after an
\* error or a lost connection the row may be there or not.
CallsAnswersAreTrue ==
  \A c \in Call :
    /\ answer[c] = "CREATED" => c \in rows
    /\ answer[c] \in {"CREDENTIALS_DETECTED", "INVALID_PROTOCOL"} => c \notin rows
=============================================================================
