------------------------------- MODULE RunEvents -------------------------------
(***************************************************************************)
(* From POST /runs to the notification of a run: RunService publishes into *)
(* the topic EventToHttpConverter reads. They share nothing else, and each *)
(* fails and starts again without the other.                               *)
(***************************************************************************)
EXTENDS RunService, EventToHttpConverter

eventVars == <<vars, converterVars>>

EventsInit == Init /\ ConverterInit

\* MaxRecords bounds the topic.
serviceStep == Next /\ Len(topic') <= MaxRecords /\ UNCHANGED converterVars

converterStep == ConverterNext /\ UNCHANGED vars

EventsNext == serviceStep \/ converterStep

EventsSpec == EventsInit /\ [][EventsNext]_eventVars

\* The converter reads on when it can, and the timer of a request that goes on
\* waiting fires. Nobody has to call the service, start the job, receive or
\* answer.
FairEventsSpec ==
  /\ EventsSpec
  /\ WF_eventVars(asyncInvoke /\ UNCHANGED vars)
  /\ \A i \in Offset : WF_eventVars(Timeout(i) /\ UNCHANGED vars)

-----------------------------------------------------------------------------
EventsTypeOK == TypeOK /\ ConverterTypeOK /\ Len(topic) <= MaxRecords

storedRuns == {run.id : run \in runs}

announcements == [c \in Call |-> Cardinality(events(c))]

\* Each time a record of a run has reached the receiver.
deliveries(c) == UNION {{i} \X (1 .. received[i]) : i \in events(c)}

notifications == [c \in Call |-> Cardinality(deliveries(c))]

\* The promise of both together: no notification is about a run that is not
\* stored, and none is made more often than the run was announced, although
\* requests outlive the job that sent them (run.service.ts 46-54,
\* EventToHttpConverter.java 44-59, AsyncHttpClient.java 32-59).
Notifications == INSTANCE RunNotifications
  WITH RunId <- Call,
       MaxAnnouncements <- retries + 1,
       stored <- storedRuns,
       announced <- announcements,
       notified <- notifications

ImplementsNotifications == Notifications!Spec

\* A record the job has passed by, because it was down when the record came,
\* is never sent, and one that was sent is never sent again: whoever waits for
\* a notification cannot tell a run that is late from one that is forgotten
\* (EventToHttpConverter.java 47 and 53).
PassedRecordsAreNotSent ==
  [][\A i \in DOMAIN topic :
       i < offset => i < offset' /\ (i \in underWay' => i \in underWay)]_eventVars

isSent(i) == i \in underWay \/ received[i] > 0

\* A job that is not stopped sends every record it has not passed by, even if
\* requests are lost and as many wait as may: those that wait are answered or
\* end the job (EventToHttpConverter.java 54, AsyncHttpClient.java 44-58).
RecordsAreSentOrTheJobFails ==
  \A i \in Offset :
    (job = "running" /\ offset <= i /\ i <= Len(topic)) ~> (isSent(i) \/ job = "down")
=============================================================================
