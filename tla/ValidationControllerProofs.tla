---------------------- MODULE ValidationControllerProofs ----------------------
(***************************************************************************)
(* For any number of concurrent calls: what repeatable reads give the      *)
(* repository's count, and what the answers say about the stored items.    *)
(***************************************************************************)
EXTENDS ValidationControllerRepository, FiniteSetTheorems, TLAPS

\* A row is what its transaction wrote; that transaction has ended, had not
\* seen another item of the run, and its run exists.
ItemInv ==
  \A item \in items :
    /\ item = row(item.by)
    /\ pc[item.by] = "settled" /\ error[item.by] \in {"none", "connection_lost"}
    /\ item.runId \in runs
    /\ \A other \in snapshot[item.by].items : other.runId # item.runId

\* What a transaction sees has been committed, and stays.
SnapshotInv ==
  \A r \in Request :
    snapshot[r].items \subseteq items /\ snapshot[r].runs \subseteq runs
    /\ IsFiniteSet(snapshot[r].items)

UniqueInv == \A one, other \in items : one.id = other.id => one = other

\* A row not yet committed holds its key alone and refers to a run.
KeyInv ==
  \A r \in Request : pc[r] \in {"inserted", "counted"} =>
    /\ request[r].runId \in runs
    /\ \A item \in items : item.id # request[r].id
    /\ \A s \in Request : s # r => ~ holdsKeyOf(s, r)

\* What the count has established.
CountInv ==
  \A r \in Request :
    /\ pc[r] = "counted" =>
         \A item \in snapshot[r].items : item.runId # request[r].runId
    /\ error[r] = "duplicated" =>
         \E item \in snapshot[r].items : item.runId = request[r].runId /\ item.by # r

SettledInv ==
  \A r \in Request :
    /\ pc[r] # "settled" => error[r] = "none"
    /\ pc[r] = "settled" /\ error[r] = "none" => row(r) \in items

IInv ==
  /\ TypeOK /\ IsFiniteSet(items)
  /\ ItemInv /\ UniqueInv /\ SnapshotInv /\ KeyInv /\ CountInv /\ SettledInv

-----------------------------------------------------------------------------
LEMMA RequestType ==
  ASSUME TypeOK, NEW r \in Request
  PROVE  /\ request \in [Request -> [id: ItemId, runId: RunId]]
         /\ row(r) \in Item /\ row(r).by = r
         /\ row(r).id = request[r].id /\ row(r).runId = request[r].runId
BY CallsAreRequests DEF TypeOK, row, Item, DownloadState

\* A row is written in states that can be read back.
LEMMA OwnRowIsItem == ASSUME NEW r \in Request PROVE mapToDomain(row(r)) = "item"
BY DEF mapToDomain, row, DownloadState

\* The count is one exactly when the snapshot has no item of the run.
LEMMA CountMeans ==
  ASSUME IInv, NEW r \in Request
  PROVE  Cardinality(itemsCounted(r)) > 1
           <=> \E item \in snapshot[r].items :
                 item.runId = request[r].runId /\ item # row(r)
<1> DEFINE S == itemsCounted(r)
<1>1. row(r) \in S /\ row(r).runId = request[r].runId
  BY RequestType DEF IInv, itemsCounted
<1>2. IsFiniteSet(S)
  <2>1. IsFiniteSet(snapshot[r].items \cup {row(r)})
    BY FS_AddElement DEF IInv, SnapshotInv
  <2> QED
    BY <2>1, FS_Subset DEF itemsCounted
<1>3. ASSUME NEW item \in snapshot[r].items,
             item.runId = request[r].runId, item # row(r)
      PROVE  Cardinality(S) > 1
  <2>1. item \in S
    BY <1>3 DEF itemsCounted
  <2>2. IsFiniteSet(S \ {item}) /\ Cardinality(S \ {item}) = Cardinality(S) - 1
    BY <1>2, <2>1, FS_RemoveElement
  <2>3. row(r) \in S \ {item}
    BY <1>1, <1>3
  <2>4. Cardinality(S \ {item}) # 0
    BY <2>2, <2>3, FS_EmptySet
  <2>5. Cardinality(S) \in Nat /\ Cardinality(S \ {item}) \in Nat
    BY <1>2, <2>2, FS_CardinalityType
  <2> QED
    BY <2>2, <2>4, <2>5
<1>4. ASSUME Cardinality(S) > 1,
             ~ \E item \in snapshot[r].items :
                 item.runId = request[r].runId /\ item # row(r)
      PROVE  FALSE
  <2>1. S = {row(r)}
    BY <1>1, <1>4 DEF itemsCounted
  <2>2. Cardinality(S) = 1
    BY <2>1, FS_Singleton
  <2> QED
    BY <1>4, <2>2
<1> QED
  BY <1>3, <1>4

-----------------------------------------------------------------------------
LEMMA InitInv == Init => IInv
<1> SUFFICES ASSUME Init PROVE IInv
  OBVIOUS
<1>1. TypeOK
  BY DEF Init, TypeOK, Snapshot
<1>2. IsFiniteSet(items)
  BY FS_EmptySet DEF Init
<1>3. ItemInv /\ UniqueInv /\ SnapshotInv /\ KeyInv /\ CountInv /\ SettledInv
  BY FS_EmptySet DEF Init, ItemInv, UniqueInv, SnapshotInv, KeyInv, CountInv, SettledInv
<1> QED
  BY <1>1, <1>2, <1>3 DEF IInv

\* What a step of one call may do to its own progress.
LEMMA Settles ==
  ASSUME TypeOK, NEW r \in Request, NEW cause,
         \/ rollback(r, cause) \/ proceed(r, cause)
  PROVE  \A s \in Request \ {r} : pc'[s] = pc[s] /\ error'[s] = error[s]
BY DEF TypeOK, rollback, proceed

LEMMA CreateRunInv ==
  ASSUME IInv, NEW run \in RunId, CreateRun(run)
  PROVE  IInv'
BY DEF CreateRun, IInv, TypeOK, ItemInv, UniqueInv, SnapshotInv, KeyInv, CountInv,
       SettledInv, row, holdsKeyOf

LEMMA BeginInv ==
  ASSUME IInv, NEW r \in Request, Begin(r)
  PROVE  IInv'
<1> USE DEF IInv
<1>1. /\ pc[r] = "idle" /\ error[r] = "none"
      /\ request' = request /\ runs' = runs /\ items' = items /\ error' = error
      /\ pc' = [pc EXCEPT ![r] = "inserting"]
      /\ snapshot' = [snapshot EXCEPT ![r] = [runs |-> runs, items |-> items]]
  BY DEF Begin, proceed, SettledInv
<1>2. TypeOK'
  BY <1>1 DEF TypeOK, Snapshot
<1>3. ItemInv'
  <2>1. \A item \in items : item.by # r /\ item.by \in Request
    BY <1>1 DEF ItemInv, TypeOK, Item
  <2> QED
    BY <1>1, <2>1 DEF ItemInv, TypeOK, row
<1>8. UniqueInv'
  BY <1>1 DEF UniqueInv
<1>4. SnapshotInv'
  BY <1>1 DEF SnapshotInv, TypeOK
<1>5. KeyInv'
  BY <1>1 DEF KeyInv, TypeOK, holdsKeyOf
<1>6. CountInv'
  BY <1>1 DEF CountInv, TypeOK
<1>7. SettledInv'
  BY <1>1 DEF SettledInv, TypeOK, row
<1> QED
  BY <1>1, <1>2, <1>3, <1>4, <1>5, <1>6, <1>7, <1>8

LEMMA CreateInv ==
  ASSUME IInv, NEW r \in Request, Create(r)
  PROVE  IInv'
<1> USE DEF IInv
<1>1. /\ pc[r] = "inserting" /\ error[r] = "none"
      /\ request' = request /\ runs' = runs /\ items' = items
      /\ snapshot' = snapshot
  BY DEF Create, SettledInv
<1>2. CASE \E cause \in {"unique_violation", "foreign_key_violation"} :
             rollback(r, cause)
  BY <1>1, <1>2 DEF rollback, TypeOK, ItemInv, UniqueInv, SnapshotInv, KeyInv, CountInv,
                    SettledInv, row, holdsKeyOf
<1>3. CASE /\ proceed(r, "inserted")
           /\ request[r].runId \in snapshot[r].runs
           /\ \A item \in items : item.id # request[r].id
  <2>1. pc' = [pc EXCEPT ![r] = "inserted"] /\ error' = error
    BY <1>3 DEF proceed
  <2>2. \A s \in Request : ~ holdsKeyOf(s, r)
    BY DEF Create
  <2>3. KeyInv'
    BY <1>1, <1>3, <2>1, <2>2 DEF KeyInv, SnapshotInv, TypeOK, holdsKeyOf
  <2>4. TypeOK' /\ ItemInv' /\ UniqueInv' /\ SnapshotInv' /\ CountInv' /\ SettledInv'
    BY <1>1, <2>1 DEF TypeOK, ItemInv, UniqueInv, SnapshotInv, CountInv, SettledInv, row
  <2> QED
    BY <1>1, <2>3, <2>4
<1> QED
  BY <1>2, <1>3 DEF Create

LEMMA CountStepInv ==
  ASSUME IInv, NEW r \in Request, Count(r)
  PROVE  IInv'
<1> USE DEF IInv
<1>1. /\ pc[r] = "inserted" /\ error[r] = "none"
      /\ request' = request /\ runs' = runs /\ items' = items
      /\ snapshot' = snapshot
  BY DEF Count, SettledInv
<1>2. \A item \in snapshot[r].items : item.by # r /\ item # row(r)
  BY <1>1, RequestType DEF SnapshotInv, ItemInv
<1>3. CASE Cardinality(itemsCounted(r)) > 1
  <2>1. rollback(r, "duplicated")
    BY <1>3 DEF Count
  <2>2. \E item \in snapshot[r].items : item.runId = request[r].runId /\ item.by # r
    BY <1>2, <1>3, CountMeans
  <2>3. CountInv'
    BY <1>1, <2>1, <2>2 DEF rollback, CountInv, TypeOK
  <2>4. TypeOK' /\ ItemInv' /\ UniqueInv' /\ SnapshotInv' /\ KeyInv' /\ SettledInv'
    BY <1>1, <2>1 DEF rollback, TypeOK, ItemInv, UniqueInv, SnapshotInv, KeyInv, SettledInv,
                      row, holdsKeyOf
  <2> QED
    BY <1>1, <2>3, <2>4
<1>4. CASE ~ (Cardinality(itemsCounted(r)) > 1)
  <2>1. proceed(r, "counted")
    BY <1>4 DEF Count
  <2>2. \A item \in snapshot[r].items : item.runId # request[r].runId
    BY <1>2, <1>4, CountMeans
  <2>3. CountInv'
    BY <1>1, <2>1, <2>2 DEF proceed, CountInv, TypeOK
  <2>4. TypeOK' /\ ItemInv' /\ UniqueInv' /\ SnapshotInv' /\ KeyInv' /\ SettledInv'
    BY <1>1, <2>1 DEF proceed, TypeOK, ItemInv, UniqueInv, SnapshotInv, KeyInv, SettledInv,
                      row, holdsKeyOf
  <2> QED
    BY <1>1, <2>3, <2>4
<1> QED
  BY <1>3, <1>4

\* Both ways to commit store the row and settle the call.
LEMMA CommitInv ==
  ASSUME IInv, NEW r \in Request, Commit(r) \/ CommitUnconfirmed(r)
  PROVE  IInv'
<1> USE DEF IInv
<1>1. /\ pc[r] = "counted" /\ error[r] = "none"
      /\ request' = request /\ runs' = runs /\ snapshot' = snapshot
      /\ items' = items \cup {row(r)}
  BY DEF Commit, CommitUnconfirmed, SettledInv
<1>2. PICK cause \in {"none", "connection_lost"} :
        /\ pc' = [pc EXCEPT ![r] = "settled"]
        /\ error' = [error EXCEPT ![r] = cause]
  <2>1. CASE Commit(r)
    <3>1. error' = [error EXCEPT ![r] = "none"]
      BY <1>1, <2>1 DEF Commit, proceed, TypeOK
    <3> QED
      BY <2>1, <3>1 DEF Commit, proceed
  <2>2. CASE CommitUnconfirmed(r)
    BY <2>2 DEF CommitUnconfirmed, rollback
  <2> QED
    BY <2>1, <2>2
<1>3. row(r) \in Item /\ row(r).by = r /\ row(r).id = request[r].id
      /\ row(r).runId = request[r].runId
  BY RequestType
<1>4. TypeOK'
  BY <1>1, <1>2, <1>3 DEF TypeOK
<1>5. IsFiniteSet(items')
  BY <1>1, FS_AddElement
<1>6. ItemInv'
  <2> SUFFICES ASSUME NEW item \in items'
               PROVE  /\ item = row(item.by)'
                      /\ pc'[item.by] = "settled"
                      /\ error'[item.by] \in {"none", "connection_lost"}
                      /\ item.runId \in runs'
                      /\ \A other \in snapshot'[item.by].items :
                           other.runId # item.runId
    BY DEF ItemInv, row
  <2>1. CASE item \in items
    <3>1. item.by # r /\ item.by \in Request
      BY <1>1, <2>1 DEF ItemInv, TypeOK, Item
    <3> QED
      BY <1>1, <1>2, <2>1, <3>1 DEF ItemInv, TypeOK, row
  <2>2. CASE item = row(r)
    <3>1. item = row(item.by)'
      BY <1>1, <1>3, <2>2 DEF row
    <3> QED
      BY <1>1, <1>2, <1>3, <2>2, <3>1 DEF KeyInv, CountInv, TypeOK
  <2> QED
    BY <1>1, <2>1, <2>2
<1>11. UniqueInv'
  BY <1>1, <1>3 DEF UniqueInv, KeyInv
<1>7. SnapshotInv'
  BY <1>1 DEF SnapshotInv
<1>8. KeyInv'
  <2>1. ASSUME NEW s \in Request \ {r}, pc[s] \in {"inserted", "counted"}
        PROVE  row(r).id # request[s].id
    BY <1>1, <1>3, <2>1 DEF KeyInv, holdsKeyOf
  <2> QED
    BY <1>1, <1>2, <2>1 DEF KeyInv, holdsKeyOf, TypeOK
<1>9. CountInv'
  BY <1>1, <1>2 DEF CountInv, TypeOK
<1>10. SettledInv'
  BY <1>1, <1>2 DEF SettledInv, TypeOK, row
<1> QED
  BY <1>4, <1>5, <1>6, <1>7, <1>8, <1>9, <1>10, <1>11

LEMMA AbortInv ==
  ASSUME IInv, NEW r \in Request, Abort(r)
  PROVE  IInv'
<1> USE DEF IInv
<1>1. /\ pc[r] # "settled"
      /\ pc' = [pc EXCEPT ![r] = "settled"]
      /\ error' = [error EXCEPT ![r] = "connection_lost"]
      /\ request' = request /\ runs' = runs /\ items' = items
      /\ snapshot' = snapshot
  BY DEF Abort, isOpen, rollback
<1> QED
  BY <1>1 DEF TypeOK, ItemInv, UniqueInv, SnapshotInv, KeyInv, CountInv, SettledInv, row,
              holdsKeyOf

LEMMA NextInv == IInv /\ [Next]_vars => IInv'
<1> SUFFICES ASSUME IInv, [Next]_vars
             PROVE  IInv'
  OBVIOUS
<1>1. ASSUME NEW run \in RunId, CreateRun(run) PROVE IInv'
  BY <1>1, CreateRunInv
<1>2. ASSUME NEW r \in Request, Proceed(r) \/ CommitUnconfirmed(r) \/ Abort(r)
      PROVE  IInv'
  BY <1>2, BeginInv, CreateInv, CountStepInv, CommitInv, AbortInv DEF Proceed
<1>3. CASE UNCHANGED vars
  BY <1>3 DEF vars, IInv, TypeOK, ItemInv, UniqueInv, SnapshotInv, KeyInv, CountInv,
              SettledInv, row, holdsKeyOf
<1> QED
  BY <1>1, <1>2, <1>3 DEF Next

LEMMA Invariance == Spec => []IInv
BY InitInv, NextInv, PTL DEF Spec

-----------------------------------------------------------------------------
\* The state of every call is of its type (lines 51-86).
THEOREM TypeCorrect == Spec => []TypeOK
<1>1. IInv => TypeOK
  BY DEF IInv
<1> QED
  BY <1>1, Invariance, PTL

\* However many calls overlap, a call that begins after an item of its run is
\* committed stores no other one (validation-controller.repository.ts 70-78).
THEOREM LateCallsAddNothing == Spec => []DuplicatesOnlyFromOverlaps
<1>1. IInv => DuplicatesOnlyFromOverlaps
  BY DEF IInv, ItemInv, DuplicatesOnlyFromOverlaps
<1> QED
  BY <1>1, Invariance, PTL

\* A call is rejected as a duplicate only if another one has stored its item
\* (lines 76-78).
THEOREM RejectionsHaveWinners == Spec => []RejectionHasWinner
<1>1. IInv => RejectionHasWinner
  BY OwnRowIsItem
  DEF IInv, CountInv, SnapshotInv, SettledInv, RejectionHasWinner, answer, mapToLeft
<1> QED
  BY <1>1, Invariance, PTL

\* Items returned are stored and left values leave nothing (lines 51-86).
THEOREM AnswersAreTrue == Spec => []AnswersTellWhatIsStored
<1>1. ASSUME IInv, NEW r \in Request
      PROVE  /\ answer(r) = "item" => row(r) \in items
             /\ answer(r) \notin {"item", "exception"} => row(r) \notin items
  <2>1. row(r) \in items => /\ pc[r] = "settled"
                            /\ error[r] \in {"none", "connection_lost"}
    BY <1>1, RequestType DEF IInv, ItemInv
  <2> QED
    BY <1>1, <2>1, OwnRowIsItem DEF IInv, SettledInv, answer, mapToLeft
<1>2. IInv => AnswersTellWhatIsStored
  BY <1>1 DEF AnswersTellWhatIsStored
<1> QED
  BY <1>2, Invariance, PTL

\* Keys stay unique and references valid (lines 60-70).
THEOREM ItemsStayConsistent == Spec => []ItemsAreConsistent
<1>1. IInv => ItemsAreConsistent
  BY DEF IInv, ItemInv, UniqueInv, ItemsAreConsistent
<1> QED
  BY <1>1, Invariance, PTL
=============================================================================
