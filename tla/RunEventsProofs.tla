----------------------------- MODULE RunEventsProofs -----------------------------
(***************************************************************************)
(* The converter against the topic: for any number of calls, records and   *)
(* starts of the job, it never waits for more requests than it may and     *)
(* never sends a record it has passed by; and both together only make      *)
(* the notifications RunNotifications allows.                              *)
(***************************************************************************)
EXTENDS RunEvents, RunServiceProofs

EInv == IInv /\ ConverterTypeOK /\ Len(topic) <= MaxRecords

LEMMA TopicType ==
  ASSUME TypeOK
  PROVE  Len(topic) \in Nat /\ DOMAIN topic = 1 .. Len(topic)
BY DEF TypeOK

\* What waits is a finite set of records.
LEMMA WaitingType ==
  ASSUME ConverterTypeOK, NEW S \in SUBSET waiting
  PROVE  /\ IsFiniteSet(S) /\ Cardinality(S) \in Nat
         /\ Cardinality(S) <= Cardinality(waiting)
<1>1. IsFiniteSet(Offset)
  BY FS_Interval, BoundsAreNat DEF Offset
<1>2. IsFiniteSet(waiting)
  BY <1>1, FS_Subset DEF ConverterTypeOK
<1> QED
  BY <1>2, FS_Subset, FS_CardinalityType

LEMMA EventsInitInv == EventsInit => EInv
<1> SUFFICES ASSUME EventsInit PROVE EInv
  OBVIOUS
<1>1. Cardinality(waiting) = 0
  BY FS_EmptySet DEF EventsInit, ConverterInit
<1>2. ConverterTypeOK
  BY <1>1, BoundsAreNat, CapacityIsPositive
  DEF EventsInit, ConverterInit, ConverterTypeOK, Offset
<1>3. Len(topic) <= MaxRecords
  BY BoundsAreNat DEF EventsInit, Init
<1> QED
  BY <1>2, <1>3, InitInv DEF EventsInit, EInv

LEMMA SentType == ASSUME EInv, asyncInvoke PROVE ConverterTypeOK'
<1>1. offset \in Offset /\ offset + 1 \in 1 .. MaxRecords + 1
  BY TopicType, BoundsAreNat
  DEF EInv, IInv, ConverterTypeOK, asyncInvoke, Offset
<1>2. IsFiniteSet(waiting) /\ Cardinality(waiting) \in Nat
  BY WaitingType DEF EInv
<1>3. Cardinality(waiting \cup {offset}) <= Cardinality(waiting) + 1
  BY <1>2, FS_AddElement
<1>4. Cardinality(waiting \cup {offset}) \in Nat
  BY <1>2, FS_AddElement
<1>5. Cardinality(waiting)' <= Capacity
  BY <1>2, <1>3, <1>4, CapacityIsPositive DEF asyncInvoke
<1> QED
  BY <1>1, <1>5 DEF EInv, ConverterTypeOK, asyncInvoke

LEMMA ConverterStep == ASSUME EInv, ConverterNext PROVE ConverterTypeOK'
<1>1. CASE StartJob
  <2>1. Len(topic) + 1 \in 1 .. MaxRecords + 1 /\ starts + 1 \in 0 .. MaxStarts
    BY <1>1, TopicType, BoundsAreNat DEF EInv, IInv, ConverterTypeOK, StartJob
  <2> QED
    BY <1>1, <2>1 DEF EInv, ConverterTypeOK, StartJob, httpVars
<1>2. ASSUME failJob PROVE ConverterTypeOK'
  <2>1. Cardinality(waiting)' = 0
    BY <1>2, FS_EmptySet DEF failJob
  <2> QED
    BY <1>2, <2>1, CapacityIsPositive DEF EInv, ConverterTypeOK, failJob, httpVars
<1>3. ASSUME NEW i \in Offset, Receive(i) PROVE ConverterTypeOK'
  BY <1>3 DEF EInv, ConverterTypeOK, Receive, jobVars
<1>4. ASSUME NEW i \in Offset, Complete(i) PROVE ConverterTypeOK'
  <2>1. waiting' \in SUBSET waiting
    BY <1>4 DEF Complete
  <2>2. /\ Cardinality(waiting') \in Nat /\ Cardinality(waiting) \in Nat
        /\ Cardinality(waiting') <= Cardinality(waiting)
    BY <2>1, WaitingType DEF EInv
  <2>3. Cardinality(waiting') <= Capacity
    BY <2>2, CapacityIsPositive DEF EInv, ConverterTypeOK
  <2> QED
    BY <1>4, <2>3 DEF EInv, ConverterTypeOK, Complete, httpVars
<1> QED
  BY <1>1, <1>2, <1>3, <1>4, SentType DEF ConverterNext, Timeout, CrashJob

LEMMA EventsNextInv == EInv /\ [EventsNext]_eventVars => EInv'
<1> SUFFICES ASSUME EInv, [EventsNext]_eventVars PROVE EInv'
  OBVIOUS
<1>1. CASE serviceStep
  <2>1. ConverterTypeOK'
    BY <1>1 DEF EInv, ConverterTypeOK, serviceStep, converterVars, jobVars, httpVars
  <2> QED
    BY <1>1, <2>1, NextInv DEF EInv, serviceStep
<1>2. CASE converterStep
  <2>1. IInv'
    BY <1>2, NextInv DEF EInv, converterStep
  <2> QED
    BY <1>2, <2>1, ConverterStep DEF EInv, converterStep, vars
<1>3. CASE UNCHANGED eventVars
  <2>1. IInv'
    BY <1>3, NextInv DEF EInv, eventVars
  <2> QED
    BY <1>3, <2>1
    DEF EInv, ConverterTypeOK, eventVars, vars, converterVars, jobVars, httpVars
<1> QED
  BY <1>1, <1>2, <1>3 DEF EventsNext

LEMMA EventsInvariance == EventsSpec => []EInv
BY EventsInitInv, EventsNextInv, PTL DEF EventsSpec

-----------------------------------------------------------------------------
\* Types, and the bounds of the code among them: the requests that wait never
\* exceed the capacity of unorderedWait (EventToHttpConverter.java 53-54).
THEOREM EventsTypeCorrect == EventsSpec => []EventsTypeOK
<1>1. EInv => EventsTypeOK
  BY DEF EInv, IInv, EventsTypeOK
<1> QED
  BY <1>1, EventsInvariance, PTL

\* What one step does to a record that was passed by: nothing.
LEMMA PassedRecordStays ==
  ASSUME EInv, [EventsNext]_eventVars, NEW i \in DOMAIN topic, i < offset
  PROVE  i < offset' /\ (i \in underWay' => i \in underWay)
<1>1. offset \in Nat /\ i \in Nat /\ Len(topic) \in Nat /\ i <= Len(topic)
  BY TopicType DEF EInv, IInv, ConverterTypeOK
<1>2. CASE serviceStep \/ UNCHANGED eventVars
  BY <1>2 DEF serviceStep, eventVars, converterVars, jobVars, httpVars
<1>3. CASE converterStep
  <2>1. CASE StartJob
    BY <1>1, <2>1 DEF StartJob, httpVars
  <2>2. CASE asyncInvoke
    BY <1>1, <2>2 DEF asyncInvoke
  <2>3. CASE failJob
    BY <2>3 DEF failJob, httpVars
  <2>4. ASSUME NEW j \in Offset, Receive(j) \/ Complete(j)
        PROVE  i < offset' /\ (i \in underWay' => i \in underWay)
    BY <2>4 DEF Receive, Complete, jobVars, httpVars
  <2> QED
    BY <1>3, <2>1, <2>2, <2>3, <2>4 DEF converterStep, ConverterNext, Timeout, CrashJob
<1> QED
  BY <1>2, <1>3 DEF EventsNext

\* However often the job fails and is started again, a record it has passed by
\* is not sent any more, nor is one that was sent (EventToHttpConverter.java
\* 47 and 53).
THEOREM PassedRecordsAreNeverSent == EventsSpec => PassedRecordsAreNotSent
<1>1. EInv /\ [EventsNext]_eventVars =>
        [\A i \in DOMAIN topic :
           i < offset => i < offset' /\ (i \in underWay' => i \in underWay)]_eventVars
  BY PassedRecordStays
<1> QED
  BY <1>1, EventsInvariance, PTL DEF EventsSpec, PassedRecordsAreNotSent

-----------------------------------------------------------------------------
(***************************************************************************)
(* The refinement of RunNotifications. A record that was sent is behind    *)
(* the offset of the job, which never goes back because it is never ahead  *)
(* of the topic's end; so a record is sent once, and received once at      *)
(* most.                                                                   *)
(***************************************************************************)
DeliveryInv ==
  /\ offset <= Len(topic) + 1
  /\ \A i \in Offset :
       /\ received[i] \in {0, 1}
       /\ i \in underWay => i < offset /\ received[i] = 0
       /\ received[i] = 1 => i < offset

NInv == EInv /\ DeliveryInv

notifiedEvents(c) == {i \in events(c) : received[i] = 1}

LEMMA NotificationsInitInv == EventsInit => NInv
<1> SUFFICES ASSUME EventsInit PROVE NInv
  OBVIOUS
<1>1. EInv
  BY EventsInitInv
<1>2. offset = 1 /\ topic = <<>> /\ underWay = {} /\ received = [i \in Offset |-> 0]
  BY DEF EventsInit, Init, ConverterInit
<1> QED
  BY <1>1, <1>2 DEF NInv, DeliveryInv

LEMMA DeliveriesKeepInv ==
  NInv /\ [EventsNext]_eventVars => NInv'
<1> SUFFICES ASSUME NInv, [EventsNext]_eventVars PROVE NInv'
  OBVIOUS
<1>1. EInv /\ EInv'
  BY EventsNextInv DEF NInv
<1>2. /\ offset \in Nat /\ offset \in 1 .. MaxRecords + 1
      /\ Len(topic) \in Nat /\ Len(topic') \in Nat /\ MaxRecords \in Nat
      /\ received \in [Offset -> Nat] /\ underWay \subseteq Offset
  BY <1>1, TopicType, BoundsAreNat DEF EInv, IInv, TypeOK, ConverterTypeOK
<1>3. CASE serviceStep
  <2>1. Len(topic) <= Len(topic')
    <3>1. topic' = topic \/ \E c \in Call : topic' = Append(topic, c)
      BY <1>3
      DEF serviceStep, Next, CreatePlanRef, CreateSourceCodeRef, Handle, Validate, Persist,
          PersistRun, RejectRun, LoseDatabase, Publish, PublishAcknowledged,
          PublishUnacknowledged, PublishLost, PublishRefused, Crash
    <3> QED
      BY <1>1, <1>2, <3>1 DEF EInv, IInv, TypeOK
  <2>2. UNCHANGED <<offset, underWay, received>>
    BY <1>3 DEF serviceStep, converterVars, jobVars, httpVars
  <2> QED
    BY <1>1, <1>2, <2>1, <2>2 DEF NInv, DeliveryInv
<1>4. CASE converterStep
  <2>1. topic' = topic
    BY <1>4 DEF converterStep, vars
  <2>2. CASE StartJob
    BY <1>1, <1>2, <2>1, <2>2 DEF NInv, DeliveryInv, StartJob, httpVars, Offset
  <2>3. CASE asyncInvoke
    BY <1>1, <1>2, <2>1, <2>3 DEF NInv, DeliveryInv, asyncInvoke, Offset
  <2>4. CASE failJob
    BY <1>1, <1>2, <2>1, <2>4 DEF NInv, DeliveryInv, failJob, httpVars
  <2>5. ASSUME NEW i \in Offset, Receive(i) PROVE NInv'
    BY <1>1, <1>2, <2>1, <2>5 DEF NInv, DeliveryInv, Receive, jobVars
  <2>6. ASSUME NEW i \in Offset, Complete(i) PROVE NInv'
    BY <1>1, <1>2, <2>1, <2>6 DEF NInv, DeliveryInv, Complete, httpVars
  <2> QED
    BY <1>4, <2>2, <2>3, <2>4, <2>5, <2>6
    DEF converterStep, ConverterNext, Timeout, CrashJob
<1>5. CASE UNCHANGED eventVars
  BY <1>1, <1>5 DEF NInv, DeliveryInv, eventVars, vars, converterVars, jobVars, httpVars
<1> QED
  BY <1>3, <1>4, <1>5 DEF EventsNext

LEMMA NotificationsInvariance == EventsSpec => []NInv
BY NotificationsInitInv, DeliveriesKeepInv, PTL DEF EventsSpec

\* A run is notified once for each of its records that was received.
NotifiedOnce ==
  \A c \in Call : notifications[c] = Cardinality(notifiedEvents(c))

LEMMA EventsAreOffsets ==
  ASSUME EInv, NEW c \in Call
  PROVE  /\ events(c) \subseteq Offset /\ IsFiniteSet(events(c))
         /\ IsFiniteSet(notifiedEvents(c))
<1>1. events(c) \subseteq 1 .. Len(topic) /\ IsFiniteSet(events(c))
  BY FiniteEvents DEF EInv, IInv
<1>2. Len(topic) \in Nat /\ Len(topic) <= MaxRecords /\ MaxRecords \in Nat
  BY TopicType, BoundsAreNat DEF EInv, IInv
<1>3. notifiedEvents(c) \subseteq events(c)
  BY DEF notifiedEvents
<1> QED
  BY <1>1, <1>2, <1>3, FS_Subset DEF Offset

LEMMA Notified == NInv => NotifiedOnce
<1> SUFFICES ASSUME NInv, NEW c \in Call
             PROVE  Cardinality(deliveries(c)) = Cardinality(notifiedEvents(c))
  BY DEF NotifiedOnce, notifications
<1>1. EInv /\ events(c) \subseteq Offset /\ IsFiniteSet(notifiedEvents(c))
  BY EventsAreOffsets DEF NInv
<1>2. deliveries(c) = notifiedEvents(c) \X {1}
  <2>1. ASSUME NEW i \in events(c)
        PROVE  {i} \X (1 .. received[i]) = IF received[i] = 1 THEN {i} \X {1} ELSE {}
    <3>1. received[i] \in {0, 1}
      BY <1>1 DEF NInv, DeliveryInv
    <3>2. 1 .. 0 = {} /\ 1 .. 1 = {1}
      OBVIOUS
    <3> QED
      BY <3>1, <3>2
  <2> QED
    BY <2>1 DEF deliveries, notifiedEvents
<1>3. Cardinality(notifiedEvents(c)) \in Nat
  BY <1>1, FS_CardinalityType
<1>4. IsFiniteSet({1}) /\ Cardinality({1}) = 1
  BY FS_Singleton
<1>5. Cardinality(notifiedEvents(c) \X {1}) = Cardinality(notifiedEvents(c)) * 1
  BY <1>1, <1>4, FS_Product
<1> QED
  BY <1>2, <1>3, <1>5

LEMMA NextNotified == NInv' => NotifiedOnce'
BY Notified, PTL

Visible == <<storedRuns, announcements, notifications>>

\* What the receiver sees changes only with the records it has received ...
LEMMA SameNotifications ==
  ASSUME NInv, NInv', \A c \in Call : notifiedEvents(c)' = notifiedEvents(c)
  PROVE  notifications' = notifications
<1>1. NotifiedOnce /\ NotifiedOnce'
  BY Notified, NextNotified
<1>2. \A c \in Call : notifications'[c] = notifications[c]
  BY <1>1 DEF NotifiedOnce
<1> QED
  BY <1>2 DEF notifications

\* ... the rows of the runs and the topic.
LEMMA Unseen ==
  ASSUME NInv, NInv', UNCHANGED <<topic, received>>
  PROVE  UNCHANGED <<announcements, notifications>>
<1>1. \A c \in Call : events(c)' = events(c) /\ notifiedEvents(c)' = notifiedEvents(c)
  BY DEF events, notifiedEvents
<1> QED
  BY <1>1, SameNotifications DEF announcements

LEMMA Silent ==
  ASSUME NInv, NInv', UNCHANGED <<runs, topic, received>>
  PROVE  UNCHANGED Visible
BY Unseen DEF storedRuns, Visible

\* A row is that of its run, so a new one is a run that was not stored before.
LEMMA StoreStep ==
  ASSUME NInv, NInv', NEW c \in Call, runs' = runs \cup {runOf(c)},
         UNCHANGED <<topic, received>>
  PROVE  Notifications!Store(c) \/ UNCHANGED Visible
<1>1. storedRuns' = storedRuns \cup {c}
  BY RunOf DEF storedRuns
<1>2. UNCHANGED <<announcements, notifications>>
  BY Unseen
<1> QED
  BY <1>1, <1>2 DEF Notifications!Store, Visible

\* kafkajs announces a stored run, and not more often than it may try.
LEMMA AnnounceStep ==
  ASSUME NInv, NInv', NEW c \in Call, pc[c] = "publish", attempts[c] <= retries,
         UNCHANGED <<runs, received>>, topic' = Append(topic, c)
  PROVE  Notifications!Announce(c)
<1>1. EInv /\ TypeOK /\ runOf(c) \in runs /\ Cardinality(events(c)) <= attempts[c]
  BY DEF NInv, EInv, IInv, CallInv
<1>2. c \in storedRuns
  BY <1>1, RunOf DEF storedRuns
<1>3. \A d \in Call :
        /\ events(d)' = IF d = c THEN events(d) \cup {Len(topic) + 1} ELSE events(d)
        /\ Cardinality(events(d)') =
             IF d = c THEN Cardinality(events(d)) + 1 ELSE Cardinality(events(d))
  BY <1>1, OneEventMore
<1>4. announcements[c] < retries + 1
  <2>1. Cardinality(events(c)) \in Nat /\ attempts[c] \in Nat
    BY <1>1, FiniteEvents, FS_CardinalityType DEF TypeOK, retries
  <2> QED
    BY <1>1, <2>1 DEF announcements, retries
<1>5. announcements' = [announcements EXCEPT ![c] = @ + 1]
  BY <1>3 DEF announcements
<1>6. notifications' = notifications
  <2>1. received[Len(topic) + 1] # 1
    <3>1. Len(topic) + 1 \in Offset /\ offset \in Nat /\ Len(topic) \in Nat
      BY <1>1, TopicType, BoundsAreNat
      DEF NInv, EInv, ConverterTypeOK, Offset, IInv, TypeOK
    <3> QED
      BY <3>1 DEF NInv, DeliveryInv
  <2>2. \A d \in Call : notifiedEvents(d)' = notifiedEvents(d)
    BY <1>3, <2>1 DEF notifiedEvents
  <2> QED
    BY <2>2, SameNotifications
<1> QED
  BY <1>2, <1>4, <1>5, <1>6 DEF Notifications!Announce, storedRuns

LEMMA ServiceNotifies ==
  ASSUME NInv, NInv', serviceStep
  PROVE  [Notifications!Next]_Visible
<1>1. received' = received /\ Next
  BY DEF serviceStep, converterVars, httpVars
<1>2. ASSUME NEW c \in Call, runs' = runs \cup {runOf(c)}, topic' = topic
      PROVE  [Notifications!Next]_Visible
  BY <1>1, <1>2, StoreStep DEF Notifications!Next
<1>3. ASSUME NEW c \in Call, pc[c] = "publish", topic' = Append(topic, c), runs' = runs
      PROVE  [Notifications!Next]_Visible
  <2>1. attempts[c] <= retries
    BY <1>3 DEF NInv, EInv, IInv, CallInv
  <2> QED
    BY <1>1, <1>3, <2>1, AnnounceStep DEF Notifications!Next
<1>4. CASE UNCHANGED <<runs, topic>>
  BY <1>1, <1>4, Silent
<1>5. \/ UNCHANGED <<runs, topic>>
      \/ \E c \in Call : \/ runs' = runs \cup {runOf(c)} /\ topic' = topic
                        \/ /\ pc[c] = "publish" /\ topic' = Append(topic, c)
                           /\ runs' = runs
  BY <1>1
  DEF Next, CreatePlanRef, CreateSourceCodeRef, Handle, Validate, Persist, PersistRun,
      RejectRun, LoseDatabase, Publish, PublishAcknowledged, PublishUnacknowledged,
      PublishLost, PublishRefused, Crash, tables
<1> QED
  BY <1>2, <1>3, <1>4, <1>5

\* A request is received once, for a record of a run that was announced more
\* often than it was notified.
LEMMA NotifyStep ==
  ASSUME NInv, NInv', NEW i \in Offset, Receive(i), UNCHANGED vars
  PROVE  Notifications!Notify(topic[i])
<1>1. /\ i \in underWay /\ received[i] = 0 /\ i <= Len(topic) /\ topic \in Seq(Call)
      /\ received \in [Offset -> Nat] /\ received' = [received EXCEPT ![i] = @ + 1]
  <2>1. offset \in Nat /\ Len(topic) \in Nat /\ i \in Nat
    BY TopicType DEF NInv, EInv, IInv, ConverterTypeOK, Offset
  <2> QED
    BY <2>1 DEF NInv, DeliveryInv, Receive, EInv, IInv, TypeOK, ConverterTypeOK
<1> DEFINE c == topic[i]
<1>2. c \in Call /\ i \in events(c) /\ i \notin notifiedEvents(c)
  BY <1>1 DEF events, notifiedEvents, Offset
<1>3. UNCHANGED <<storedRuns, announcements>> /\ \A d \in Call : events(d)' = events(d)
  BY DEF vars, tables, storedRuns, announcements, events
<1>4. \A d \in Call : events(d) \subseteq Offset
  BY EventsAreOffsets DEF NInv
<1>5. \A d \in Call :
        notifiedEvents(d)' = IF d = c THEN notifiedEvents(d) \cup {i} ELSE notifiedEvents(d)
  <2> TAKE d \in Call
  <2>1. CASE d = c
    BY <1>1, <1>2, <1>3, <1>4, <2>1 DEF notifiedEvents
  <2>2. CASE d # c
    <3>1. i \notin events(d)
      BY <2>2 DEF events
    <3> QED
      BY <1>1, <1>3, <1>4, <2>2, <3>1 DEF notifiedEvents
  <2> QED
    BY <2>1, <2>2
<1>6. /\ IsFiniteSet(events(c)) /\ IsFiniteSet(notifiedEvents(c))
      /\ notifiedEvents(c) \cup {i} \in SUBSET events(c)
  BY <1>2, EventsAreOffsets DEF NInv, notifiedEvents
<1>7. Cardinality(notifiedEvents(c) \cup {i}) = Cardinality(notifiedEvents(c)) + 1
  BY <1>2, <1>6, FS_AddElement
<1>8. Cardinality(notifiedEvents(c)) < Cardinality(events(c))
  <2>1. Cardinality(notifiedEvents(c) \cup {i}) <= Cardinality(events(c))
    BY <1>6, FS_Subset
  <2>2. Cardinality(notifiedEvents(c)) \in Nat /\ Cardinality(events(c)) \in Nat
    BY <1>6, FS_CardinalityType
  <2> QED
    BY <1>7, <2>1, <2>2
<1>9. NotifiedOnce /\ NotifiedOnce'
  BY Notified, NextNotified
<1>10. notifications[c] < announcements[c]
  BY <1>2, <1>8, <1>9 DEF NotifiedOnce, announcements
<1>11. notifications' = [notifications EXCEPT ![c] = @ + 1]
  <2>1. \A d \in Call :
          notifications'[d] = IF d = c THEN notifications[d] + 1 ELSE notifications[d]
    BY <1>5, <1>7, <1>9 DEF NotifiedOnce
  <2> HIDE DEF c
  <2> QED
    BY <2>1 DEF notifications
<1> QED
  BY <1>3, <1>10, <1>11 DEF Notifications!Notify

LEMMA ConverterNotifies ==
  ASSUME NInv, NInv', converterStep
  PROVE  [Notifications!Next]_Visible
<1>1. UNCHANGED vars /\ UNCHANGED <<runs, topic>>
  BY DEF converterStep, vars, tables
<1>2. ASSUME NEW i \in Offset, Receive(i)
      PROVE  [Notifications!Next]_Visible
  <2>1. topic[i] \in Call
    <3>1. i <= Len(topic) /\ i \in Nat /\ topic \in Seq(Call)
      <4>1. offset \in Nat /\ Len(topic) \in Nat /\ i \in Nat
        BY TopicType DEF NInv, EInv, IInv, ConverterTypeOK, Offset
      <4> QED
        BY <1>2, <4>1 DEF NInv, DeliveryInv, Receive, EInv, IInv, TypeOK
    <3> QED
      BY <3>1 DEF Offset
  <2> QED
    BY <1>1, <1>2, <2>1, NotifyStep DEF Notifications!Next
<1>3. CASE UNCHANGED received
  BY <1>1, <1>3, Silent
<1> QED
  BY <1>2, <1>3
  DEF converterStep, ConverterNext, StartJob, asyncInvoke, CrashJob, Complete, Timeout,
      failJob, httpVars

LEMMA EventsNotify ==
  NInv /\ NInv' /\ [EventsNext]_eventVars => [Notifications!Next]_Visible
<1>1. ASSUME NInv, NInv', UNCHANGED eventVars
      PROVE  UNCHANGED Visible
  BY <1>1, Silent DEF eventVars, vars, tables, converterVars, httpVars
<1> QED
  BY <1>1, ServiceNotifies, ConverterNotifies DEF EventsNext

LEMMA NotificationsInit == EventsInit => Notifications!Init
<1> SUFFICES ASSUME EventsInit PROVE Notifications!Init
  OBVIOUS
<1>1. storedRuns = {}
  BY DEF EventsInit, Init, storedRuns
<1>2. \A c \in Call : events(c) = {} /\ notifiedEvents(c) = {}
  BY DEF EventsInit, Init, events, notifiedEvents
<1>3. NotifiedOnce
  BY NotificationsInitInv, Notified
<1>4. /\ announcements = [c \in Call |-> 0]
      /\ notifications = [c \in Call |-> 0]
  <2>1. \A c \in Call : notifications[c] = 0
    BY <1>2, <1>3, FS_EmptySet DEF NotifiedOnce
  <2>2. \A c \in Call : Cardinality(events(c)) = 0
    BY <1>2, FS_EmptySet
  <2> QED
    BY <2>1, <2>2 DEF announcements, notifications
<1> QED
  BY <1>1, <1>4 DEF Notifications!Init

\* For any number of runs, records and starts of the job, whatever fails on
\* either side: a notification is about a run that is stored, and a run is
\* notified at most as often as it was announced, which is as often as kafkajs
\* may try (run.service.ts 46-54, kafka-publisher.ts 10-31,
\* EventToHttpConverter.java 44-59, AsyncHttpClient.java 32-59).
THEOREM NotificationsAreImplemented == EventsSpec => ImplementsNotifications
<1>1. EventsInit => Notifications!Init
  BY NotificationsInit
<1>2. NInv /\ NInv' /\ [EventsNext]_eventVars =>
        [Notifications!Next]_(<<storedRuns, announcements, notifications>>)
  BY EventsNotify DEF Visible
<1> QED
  BY <1>1, <1>2, NotificationsInvariance, PTL
  DEF EventsSpec, ImplementsNotifications, Notifications!Spec
=============================================================================
