------------------------- MODULE EventToHttpConverter -------------------------
(***************************************************************************)
(* The Flink job that turns the events of a topic into HTTP requests       *)
(* (service/dev-external-deps/apache-flink/app). It reads from the end the *)
(* topic has when the job starts, keeps at most Capacity requests waiting, *)
(* and repeats none. There are no checkpoints and hence no restarts by     *)
(* itself: a job that failed stays down until somebody starts it again. A  *)
(* request, once sent, reaches its receiver or not, whatever becomes of    *)
(* the job.                                                                *)
(***************************************************************************)
EXTENDS RunStatusChanged, Sequences, Naturals, FiniteSets

CONSTANTS
  Capacity,     \* how many requests may wait (100 in the code)
  MaxStarts,    \* how often the job is started
  MaxRecords    \* how many records the topic may get

ASSUME CapacityIsPositive == Capacity \in Nat \ {0}
ASSUME BoundsAreNat == MaxStarts \in Nat /\ MaxRecords \in Nat

VARIABLES
  job,        \* "down" or "running"
  starts,     \* how often the job was started
  offset,     \* the next record of the topic the job reads
  waiting,    \* the requests the job waits for, by their record
  underWay,   \* the requests that were sent and not received yet, or are lost
  received    \* how often each record has reached the receiver

jobVars == <<job, starts, offset, waiting>>
httpVars == <<underWay, received>>
converterVars == <<jobVars, httpVars>>

Offset == 1 .. MaxRecords

ConverterInit ==
  /\ job = "down"
  /\ starts = 0
  /\ offset = 1
  /\ waiting = {}
  /\ underWay = {}
  /\ received = [i \in Offset |-> 0]

\* Mutant: the job starts at the first record of the topic.
StartJobAtEarliest ==
  /\ job = "down" /\ starts < MaxStarts
  /\ job' = "running"
  /\ starts' = starts + 1
  /\ offset' = 1
  /\ UNCHANGED <<waiting, httpVars>>

\* main, with OffsetsInitializer.latest.
StartJob ==
  /\ job = "down" /\ starts < MaxStarts
  /\ job' = "running"
  /\ starts' = starts + 1
  /\ offset' = Len(topic) + 1
  /\ UNCHANGED <<waiting, httpVars>>

\* Mutant: a request may always be added to those that wait.
asyncInvokeUnbounded ==
  /\ job = "running"
  /\ offset <= Len(topic)
  /\ waiting' = waiting \cup {offset}
  /\ underWay' = underWay \cup {offset}
  /\ offset' = offset + 1
  /\ UNCHANGED <<job, starts, received>>

\* The stream waits while as many requests do as unorderedWait allows.
asyncInvoke ==
  /\ job = "running"
  /\ offset <= Len(topic)
  /\ Cardinality(waiting) < Capacity
  /\ waiting' = waiting \cup {offset}
  /\ underWay' = underWay \cup {offset}
  /\ offset' = offset + 1
  /\ UNCHANGED <<job, starts, received>>

\* The receiver handles a request, at any time after it was sent.
Receive(i) ==
  /\ i \in underWay
  /\ underWay' = underWay \ {i}
  /\ received' = [received EXCEPT ![i] = @ + 1]
  /\ UNCHANGED jobVars

\* A response with any status, or an exception, which becomes null: either
\* way the request stops waiting, and nobody looks at the result.
Complete(i) ==
  /\ i \in waiting
  /\ waiting' = waiting \ {i}
  /\ UNCHANGED <<job, starts, offset, httpVars>>

failJob ==
  /\ job' = "down"
  /\ waiting' = {}
  /\ UNCHANGED <<starts, offset, httpVars>>

\* Mutant: the job only stops looking at a request that is late.
keepWaiting(i) == i \in waiting /\ UNCHANGED converterVars

\* After a second the result is completed with an exception, which fails the
\* job and with it the other requests that wait.
Timeout(i) == i \in waiting /\ failJob

\* Whatever else ends the job.
CrashJob == job = "running" /\ failJob

ConverterNext ==
  \/ StartJob \/ asyncInvoke \/ CrashJob
  \/ \E i \in Offset : Receive(i) \/ Complete(i) \/ Timeout(i)

-----------------------------------------------------------------------------
ConverterTypeOK ==
  /\ job \in {"down", "running"}
  /\ starts \in 0 .. MaxStarts
  /\ offset \in 1 .. MaxRecords + 1
  /\ waiting \subseteq Offset /\ (job = "down" => waiting = {})
  /\ underWay \subseteq Offset
  /\ received \in [Offset -> Nat]
  /\ Cardinality(waiting) <= Capacity
=============================================================================
