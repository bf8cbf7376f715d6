-------------------- MODULE ValidationControllerRepository --------------------
(***************************************************************************)
(* ValidationControllerDbRepository (service/libs/external/src/db/         *)
(* validation-controller.repository.ts): concurrent requests to create the *)
(* item that controls the validation of a run. Each is a transaction that  *)
(* inserts the item, counts the items of the run and rolls back when there *)
(* is more than one.                                                       *)
(*                                                                         *)
(* The database is PostgreSQL with repeatable reads: a transaction reads   *)
(* the snapshot taken by its first statement and its own row. An insertion *)
(* waits for a concurrent one with the same primary key.                   *)
(***************************************************************************)
EXTENDS FiniteSets, Naturals

CONSTANTS
  Request,   \* calls of createValidationController
  ItemId,    \* primary keys of items
  RunId,     \* identifiers of runs
  Calls      \* the arguments the calls may have

ASSUME CallsAreRequests == Calls \subseteq [Request -> [id: ItemId, runId: RunId]]

VARIABLES
  request,    \* the arguments of every call: the id of the item and its runId
  runs,       \* the committed rows of the table runs
  items,      \* the committed rows of validation_controller; by is the
              \* transaction that wrote the row
  pc,         \* the progress of every call
  snapshot,   \* the committed rows a transaction sees
  error       \* why a transaction ended without a commit, else "none"

vars == <<request, runs, items, pc, snapshot, error>>

DownloadState == {"pending_download", "downloaded", "failed"}

Item == [id: ItemId, runId: RunId, by: Request,
         sourceCodeState: DownloadState, planState: DownloadState]
Snapshot == [runs: SUBSET RunId, items: SUBSET Item]

row(r) == [id |-> request[r].id, runId |-> request[r].runId, by |-> r,
           sourceCodeState |-> "pending_download", planState |-> "pending_download"]

Init ==
  /\ request \in Calls
  /\ runs = {}
  /\ items = {}
  /\ pc = [r \in Request |-> "idle"]
  /\ snapshot = [r \in Request |-> [runs |-> {}, items |-> {}]]
  /\ error = [r \in Request |-> "none"]

proceed(r, next) == pc' = [pc EXCEPT ![r] = next] /\ UNCHANGED error

\* Mutant: the error of the domain is kept in place of the database's.
rollbackWithLeft(r, cause) ==
  /\ pc' = [pc EXCEPT ![r] = "settled"]
  /\ error' = [error EXCEPT ![r] = IF cause = "duplicated"
                 THEN "validation_controller_already_exist_for_run" ELSE cause]

\* The transaction rolls back; its rows are never seen.
rollback(r, cause) ==
  /\ pc' = [pc EXCEPT ![r] = "settled"]
  /\ error' = [error EXCEPT ![r] = cause]

isOpen(r) == pc[r] \in {"inserting", "inserted", "counted"}

-----------------------------------------------------------------------------
\* RunService stores another run.
CreateRun(run) ==
  /\ run \notin runs
  /\ runs' = runs \cup {run}
  /\ UNCHANGED <<request, items, pc, snapshot, error>>

\* The transaction begins: its first statement fixes what it sees.
Begin(r) ==
  /\ pc[r] = "idle"
  /\ snapshot' = [snapshot EXCEPT ![r] = [runs |-> runs, items |-> items]]
  /\ proceed(r, "inserting")
  /\ UNCHANGED <<request, runs, items>>

\* A row that is written and not yet committed locks its primary key.
holdsKeyOf(s, r) ==
  pc[s] \in {"inserted", "counted"} /\ request[s].id = request[r].id

\* Mutant: the table has no foreign key to the runs.
CreateWithoutRun(r) ==
  /\ pc[r] = "inserting"
  /\ \A s \in Request : ~ holdsKeyOf(s, r)
  /\ IF \E item \in items : item.id = request[r].id
       THEN rollback(r, "unique_violation")
       ELSE proceed(r, "inserted")
  /\ UNCHANGED <<request, runs, items, snapshot>>

\* tx.validationController.create
Create(r) ==
  /\ pc[r] = "inserting"
  /\ \A s \in Request : ~ holdsKeyOf(s, r)
  /\ IF \E item \in items : item.id = request[r].id
       THEN rollback(r, "unique_violation")
       ELSE IF request[r].runId \notin snapshot[r].runs
         THEN rollback(r, "foreign_key_violation")
         ELSE proceed(r, "inserted")
  /\ UNCHANGED <<request, runs, items, snapshot>>

\* Mutant: the items are counted by their own id.
itemsCountedById(r) ==
  {item \in snapshot[r].items \cup {row(r)} : item.id = request[r].id}

itemsCounted(r) ==
  {item \in snapshot[r].items \cup {row(r)} : item.runId = request[r].runId}

\* Mutant: the call's own item is taken for another one.
CountOwn(r) ==
  /\ pc[r] = "inserted"
  /\ IF Cardinality(itemsCounted(r)) > 0
       THEN rollback(r, "duplicated")
       ELSE proceed(r, "counted")
  /\ UNCHANGED <<request, runs, items, snapshot>>

\* Mutant: the left value is returned by the transaction, which commits.
CountAndCommit(r) ==
  /\ pc[r] = "inserted"
  /\ IF Cardinality(itemsCounted(r)) > 1
       THEN rollback(r, "duplicated") /\ items' = items \cup {row(r)}
       ELSE proceed(r, "counted") /\ UNCHANGED items
  /\ UNCHANGED <<request, runs, snapshot>>

\* Mutant: the left value makes the transaction start again.
CountAndRetry(r) ==
  /\ pc[r] = "inserted"
  /\ IF Cardinality(itemsCounted(r)) > 1
       THEN proceed(r, "idle")
       ELSE proceed(r, "counted")
  /\ UNCHANGED <<request, runs, items, snapshot>>

\* tx.validationController.count
Count(r) ==
  /\ pc[r] = "inserted"
  /\ IF Cardinality(itemsCounted(r)) > 1
       THEN rollback(r, "duplicated")
       ELSE proceed(r, "counted")
  /\ UNCHANGED <<request, runs, items, snapshot>>

Commit(r) ==
  /\ pc[r] = "counted"
  /\ items' = items \cup {row(r)}
  /\ proceed(r, "settled")
  /\ UNCHANGED <<request, runs, snapshot>>

\* The row is committed and the confirmation lost on its way.
CommitUnconfirmed(r) ==
  /\ pc[r] = "counted"
  /\ items' = items \cup {row(r)}
  /\ rollback(r, "connection_lost")
  /\ UNCHANGED <<request, runs, snapshot>>

\* The connection or the transaction's time is lost; nothing is committed.
Abort(r) ==
  /\ isOpen(r)
  /\ rollback(r, "connection_lost")
  /\ UNCHANGED <<request, runs, items, snapshot>>

Proceed(r) == Begin(r) \/ Create(r) \/ Count(r) \/ Commit(r)

Next ==
  \/ \E run \in RunId : CreateRun(run)
  \/ \E r \in Request : Proceed(r) \/ CommitUnconfirmed(r) \/ Abort(r)

Spec == Init /\ [][Next]_vars

\* The promise of a call goes on as long as the database answers; a waiting
\* insertion goes on once the other transaction has ended.
FairSpec == Spec /\ \A r \in Request : WF_vars(Proceed(r))

-----------------------------------------------------------------------------
(***************************************************************************)
(* What the caller gets: the item, the left value mapToLeft makes of an    *)
(* error, or the exception it throws again. The foreign key of the table   *)
(* is fk_validation_controller_runs_id; the name mapToLeft compares it     *)
(* with is another one.                                                    *)
(***************************************************************************)
violatedConstraint == "fk_validation_controller_runs_id (index)"
PRISMA_RUN_FK_VIOLATION_FIELD_NAME_VALUE ==
  "fk_validation_controller_run_id (index)"

mapToLeft(cause) ==
  IF cause = "duplicated"
    THEN "validation_controller_already_exist_for_run"
  ELSE IF /\ cause = "foreign_key_violation"
          /\ violatedConstraint = PRISMA_RUN_FK_VIOLATION_FIELD_NAME_VALUE
    THEN "run_not_found"
  ELSE "exception"

\* The row that was written is read back as an item.
mapToDomain(dbObject) ==
  CASE dbObject.sourceCodeState \notin DownloadState -> "unknown_source_code_state"
    [] dbObject.planState \notin DownloadState       -> "unknown_plan_state"
    [] OTHER                                         -> "item"

answer(r) ==
  IF pc[r] # "settled" THEN "pending"
  ELSE IF error[r] = "none" THEN mapToDomain(row(r))
  ELSE mapToLeft(error[r])

-----------------------------------------------------------------------------
TypeOK ==
  /\ request \in Calls
  /\ runs \subseteq RunId
  /\ items \subseteq Item
  /\ pc \in [Request -> {"idle", "inserting", "inserted", "counted", "settled"}]
  /\ snapshot \in [Request -> Snapshot]
  /\ error \in [Request -> {"none", "unique_violation", "foreign_key_violation",
                            "duplicated", "connection_lost"}]

\* Two items of one run come from calls that overlapped: a call that begins
\* after an item of its run is committed never adds another one (the count of
\* lines 70-78).
DuplicatesOnlyFromOverlaps ==
  \A one, other \in items :
    one # other /\ one.runId = other.runId => one \notin snapshot[other.by].items

\* A call rejected as a duplicate finds an item of its run that someone else
\* committed, and no two calls reject each other (lines 76-78).
RejectionHasWinner ==
  \A r \in Request :
    answer(r) = "validation_controller_already_exist_for_run" =>
      \E item \in items : item.runId = request[r].runId /\ item.by # r

\* A returned item is stored and a left value leaves nothing behind; only an
\* exception says neither (lines 51-86).
AnswersTellWhatIsStored ==
  \A r \in Request :
    /\ answer(r) = "item" => row(r) \in items
    /\ answer(r) \notin {"item", "exception"} => row(r) \notin items

\* Items refer to runs, and their keys are unique, whatever the order in which
\* the transactions commit (lines 60-70, the table's constraints).
ItemsAreConsistent ==
  /\ \A item \in items : item.runId \in runs
  /\ \A one, other \in items : one.id = other.id => one = other

\* Every call that begins is answered: calls that wait for one another's keys
\* do not wait forever (lines 51-86).
CallsAreAnswered ==
  \A r \in Request : pc[r] = "inserting" ~> answer(r) # "pending"

\* Lines 54-57 promise that "we don't create two validation controller items
\* for the same run". Two snapshots without each other's row both count one.
OneItemPerRun ==
  \A one, other \in items : one.runId = other.runId => one = other

\* Lines 153-156 take the name of the constraint for the value Prisma returns
\* when the run does not exist: such a call is answered run_not_found.
RunNotFoundIsReported ==
  \A r \in Request : error[r] = "foreign_key_violation" => answer(r) = "run_not_found"
=============================================================================
