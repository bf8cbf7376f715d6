-------------------------- MODULE ReferenceCallsProofs --------------------------
(***************************************************************************)
(* The steps of a controller that stores references: what each of them     *)
(* keeps true of its calls and its table. ServiceProofs uses the lemmas    *)
(* for plans and for source codes.                                         *)
(***************************************************************************)
EXTENDS ReferenceCalls, TLAPS

\* How far a call is, and what it has stored.
CallIsRight(c) ==
  /\ pc[c] \in {"idle", "persist"} => c \notin rows /\ answer[c] = "none"
  /\ pc[c] = "respond" => c \in rows /\ answer[c] = "none"
  /\ pc[c] = "persist" \/ c \in rows => isValidS3Url(body[c]) = "right"
  /\ answer[c] = "CREATED" => c \in rows
  /\ answer[c] \in {"CREDENTIALS_DETECTED", "INVALID_PROTOCOL"} => c \notin rows

CallsInv == CallsTypeOK /\ \A c \in Call : CallIsRight(c)

LEMMA CallsInitInv == ASSUME CallsInit, rows = {} PROVE CallsInv
BY DEF CallsInit, CallsInv, CallsTypeOK, CallIsRight

LEMMA ErrorResponses ==
  ASSUME NEW error
  PROVE  generateErrorResponse(error) \in
           {"CREDENTIALS_DETECTED", "INVALID_PROTOCOL", "INTERNAL_SERVER_ERROR"}
BY DEF generateErrorResponse

LEMMA HandleInv == ASSUME CallsInv, NEW c \in Call, Handle(c) PROVE CallsInv'
<1>1. ASSUME NEW d \in Call, d # c,
             pc'[d] = pc[d], answer'[d] = answer[d], d \in rows' <=> d \in rows,
             UNCHANGED body
      PROVE  CallIsRight(d)'
  BY <1>1 DEF CallsInv, CallIsRight
<1>2. CASE ValidateRequest(c)
  <2>1. CallsTypeOK'
    BY <1>2, ErrorResponses DEF CallsInv, CallsTypeOK, ValidateRequest, proceed, respond
  <2>2. CallIsRight(c)'
    BY <1>2, ErrorResponses
    DEF CallsInv, CallsTypeOK, CallIsRight, ValidateRequest, proceed, respond
  <2>3. ASSUME NEW d \in Call, d # c PROVE CallIsRight(d)'
    BY <1>1, <1>2, <2>3 DEF CallsInv, CallsTypeOK, ValidateRequest, proceed, respond
  <2> QED
    BY <2>1, <2>2, <2>3 DEF CallsInv
<1>3. CASE Persist(c)
  <2>1. CallsTypeOK'
    BY <1>3 DEF CallsInv, CallsTypeOK, Persist, proceed
  <2>2. CallIsRight(c)'
    BY <1>3 DEF CallsInv, CallsTypeOK, CallIsRight, Persist, proceed
  <2>3. ASSUME NEW d \in Call, d # c PROVE CallIsRight(d)'
    BY <1>1, <1>3, <2>3 DEF CallsInv, CallsTypeOK, Persist, proceed
  <2> QED
    BY <2>1, <2>2, <2>3 DEF CallsInv
<1>4. CASE LoseDatabase(c)
  <2>1. CallsTypeOK'
    BY <1>4 DEF CallsInv, CallsTypeOK, LoseDatabase, respond
  <2>2. CallIsRight(c)'
    BY <1>4 DEF CallsInv, CallsTypeOK, CallIsRight, LoseDatabase, respond
  <2>3. ASSUME NEW d \in Call, d # c PROVE CallIsRight(d)'
    BY <1>1, <1>4, <2>3 DEF CallsInv, CallsTypeOK, LoseDatabase, respond
  <2> QED
    BY <2>1, <2>2, <2>3 DEF CallsInv
<1>5. CASE Respond(c)
  <2>1. CallsTypeOK'
    BY <1>5 DEF CallsInv, CallsTypeOK, Respond, respond
  <2>2. CallIsRight(c)'
    BY <1>5 DEF CallsInv, CallsTypeOK, CallIsRight, Respond, respond
  <2>3. ASSUME NEW d \in Call, d # c PROVE CallIsRight(d)'
    BY <1>1, <1>5, <2>3 DEF CallsInv, CallsTypeOK, Respond, respond
  <2> QED
    BY <2>1, <2>2, <2>3 DEF CallsInv
<1> QED
  BY <1>2, <1>3, <1>4, <1>5 DEF Handle

\* A crash leaves the table alone and answers with nothing that is promised.
LEMMA ResetInv == ASSUME CallsInv, resetCalls, UNCHANGED <<rows, body>> PROVE CallsInv'
<1>1. CallsTypeOK'
  BY DEF CallsInv, CallsTypeOK, resetCalls
<1>2. ASSUME NEW c \in Call PROVE CallIsRight(c)'
  BY DEF CallsInv, CallsTypeOK, CallIsRight, resetCalls, inFlight
<1> QED
  BY <1>1, <1>2 DEF CallsInv

LEMMA OthersKeepInv == ASSUME CallsInv, UNCHANGED <<rows, callVars>> PROVE CallsInv'
BY DEF CallsInv, CallsTypeOK, CallIsRight, callVars

\* A step of a call adds the row of this call to the table or none.
LEMMA HandleAddsRow ==
  ASSUME NEW c, Handle(c)
  PROVE  rows' = rows \/ rows' = rows \cup {c}
BY DEF Handle, ValidateRequest, Persist, LoseDatabase, Respond

LEMMA CallsInvIsEnough == CallsInv => CallsTypeOK /\ CallsAnswersAreTrue
BY DEF CallsInv, CallIsRight, CallsAnswersAreTrue
=============================================================================
