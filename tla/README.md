# TerraApprove in TLA+

TLA+ models of TerraApprove, the TLC configurations that check them and the
TLAPS proofs about them. Paths are relative to the repository; `core` and
`service` are its two programs.

TerraApprove is a gate in a pipeline. `terraapprove <code base> <plan>` reads a
Terraform plan, the decorators in a code base and the rules of
`.terraapprove.yaml`, and answers with its exit code: 0 (the plan can be
applied), 1 (somebody has to approve it) or 2 (error). A container image wraps
it for GitHub Actions. `service` is the beginning of a server that stores plans,
source codes and runs, announces runs on Kafka, and will validate them; a Flink
job of its development environment turns the announcements into HTTP requests.

What can go wrong is of two kinds. The command line program is sequential, and
a wrong answer comes from a combination: a tag that decorates the wrong block, a
rule that a missing value silently switches off, a failure that is taken for a
verdict, a file replaced between two reads. The service is concurrent:
transactions that do not see each other, two systems written one after the
other, lost acknowledgements, crashes of the process and of the job that follows
its announcements.

## Inventory

| Component | State | Operations | Interaction | Hard part | Correct when |
|---|---|---|---|---|---|
| Entity and decorator search (`core/libs/domain/src/terraform/resource.ts`) | loop index, start of the search window, entities found | one iteration per line; backwards search in the window | called per file by the bootstrapping service | the window is carried from header to header; order of tags and brackets | a block has the tag above it, no tag is lost or used twice |
| Plan reader (`core/libs/external/src/file-plan-reader`) | none | readPlan | called once | the schema's verdict is dropped, so any document goes on | a plan is refused or its changes are exactly those kept |
| Configuration reader and service (`file-configuration-reader`, `configuration.service.ts`) | none | readConfiguration | called first | null against undefined, default when unreadable | rules in force are the ones written |
| Code base reader (`codebase-reader.service.ts`) | none | list, then read the files one at a time | file system | files vanish between listing and reading | all listed files are read, or the program fails |
| Bootstrapping service (`bootstrapping.service.ts`) | locations | bootstrap: configuration, plan, code base, merge | calls the readers | other processes write between two reads; conflicts of items and blocks | evidence is complete and free of conflicts |
| Approval service and modes (`core/libs/service/src/approval`) | none | pair diffs and entities, decide | called by the command | calls that throw, short circuits, deletions without counterpart | the verdict follows from the evidence |
| Approval command (`core/main/src/command`) | operation mode, exit code | options, run | nest-commander, process exit | one catch for everything; a check outside of it; help and usage errors, which end with 0 and 1 too | 0 and 1 of a proper call are verdicts, the rest is an error |
| Container image (`docker/validate-plan.sh`) | step output, exit code | check inputs, run, evaluate | runs the program | the exit code is the only channel; the inputs are passed as words that may be options; the output may not be writable | given locations, no error is reported as an answer; the exit code tells whether the program answered |
| Run creation (`run.controller.ts`, `run.service.ts`, `run.repository.ts`, `kafka`) | tables, topic, calls in flight | POST /runs | PostgreSQL, Kafka | two writes without a transaction, retries, crashes | no event without its run, answers are true |
| Plan and source code references (`plan.*`, `source-code.*`, `s3-urls.ts`, `s3.ts`) | tables, calls in flight | POST /plan-refs, POST /source-code-refs | PostgreSQL; same process and tables as POST /runs | a row is committed before its caller hears of it; checks that throw; crashes | 201 is a stored row, 400 none; a run leads to addresses that were checked |
| Validation controller repository (`validation-controller.repository.ts`) | table, open transactions | createValidationController | PostgreSQL, repeatable reads | insertion and count of overlapping transactions | at most one item per run |
| Kafka events to HTTP (`service/dev-external-deps/apache-flink`) | job, offset, requests that wait and requests under way | start, forward an event, complete, time out | Kafka, HTTP | latest offsets, time limit, no repetition, requests that outlive their job | notifications are about stored runs and no more than announced; a job that is not stopped sends what it has not passed by |
| Migrations and Prisma schema | — | keys and names of constraints | the repositories compare names | names kept in three places | names agree |

Not modelled: the OpenAPI description and the types generated from it, the
logger, the modules that wire dependencies, settings read at start, the examples,
the documentation and the end-to-end tests. They have no behaviour of their own,
or only one of input and output. See "Not modelled".

## Modules

| Module | What it is |
|---|---|
| `Terraform` | domain types, actions of a diff, predicates on decorators. A TypeScript expression that may throw has an outcome `"yes"`, `"no"` or `"throws"`, combined by `Or` and `And` as `\|\|` and `&&` are |
| `SourceFile` | a file as a sequence of classes of lines, one class for each way the three regular expressions see a line; the backwards search; what `findTerraformEntitiesInFile` returns, as a function |
| `EntityScan` | the loop of `findTerraformEntitiesInFile`, one action per branch of an iteration |
| `DecoratorAutomaton` | the abstract search: one pass, one pending decorator |
| `PlanReader` | `readPlan` and each of its errors |
| `Configuration` | `readConfiguration` and the entities of the items |
| `ApprovalModes` | pairing and both use cases |
| `CommandLine` | what commander makes of the words of a command line: operands, options, help, usage errors, the mode |
| `ApprovalCommand` | the program: one action per step between which other processes can act (parse, run, configuration, plan, list, one file, collect, decide) and `ChangeDisk` for those processes. `history` is what the disk has held, its last element the disk |
| `ApprovalGate` | the abstract program: gather evidence once, decide once, and only as the evidence justifies |
| `ValidatePlan` | the script, composed with `ApprovalCommand`: it gives the program its words, its step `RunCommand` is a step of the program |
| `DocumentedBehaviour` | statements of the documentation that the program does not keep |
| `ValidationControllerRepository` | concurrent transactions that insert and count |
| `RunStatusChanged` | the topic, the only state `RunService` and the Flink job share |
| `RunService` | POST /runs, PostgreSQL, Kafka and the process that may crash; rows of references appear at any time |
| `S3Urls` | the checks of an address |
| `ReferenceCalls` | one controller of references: check, insert, answer |
| `Service` | the whole process: `ReferenceCalls` twice (`PlanRefs`, `SourceCodeRefs`), `RunService`, one crash for all three. It implements `RunService` |
| `EventToHttpConverter` | the Flink job |
| `RunNotifications` | what the service and the job promise together |
| `RunEvents` | `RunService` and `EventToHttpConverter` over one topic. It implements `RunNotifications` |
| `DomainProofs` | lemmas about the operators that have no state, for `EntityScanProofs` and `ApprovalCommandProofs` |
| `EntityScanProofs`, `ApprovalCommandProofs` (program and script), `ValidationControllerProofs`, `RunServiceProofs`, `ReferenceCallsProofs`, `ServiceProofs`, `RunEventsProofs` | theorems |
| `MC*` | constants for TLC |

The operator names are those of the code. Operators that begin with a comment
`Mutant:` are not part of the models: each is a definition of the module with a
plausible mistake, listed in `PROJECT.json` with the property that finds it.

### How the program is abstracted

- A line is one of eight classes. `closing` is a bracket in the first column,
  which `/^[^#]+}.*$/` does not match; `nearTag` is anything that looks like a
  tag and is none. In a file with `\r\n` ends, `withCarriageReturn` gives each
  line the class it has with a `\r` at its end, as the expressions see it.
- Names, addresses and provider types are compared only; they are members of
  small sets. A dotted address is the sequence of its parts, because the code
  splits it and looks at the first two.
- Arrays the code only searches are sets; where the order matters (`some` with a
  predicate that throws, the order of the items, the actions of a change) they
  are sequences. Entities keep the place they come from, so that equal ones stay
  apart until `throwIfConflictIsDetected`.
- The plan document may lack its lists, hold actions the schema does not know
  (`forget`), or be no JSON. Nothing stops it but what the code checks.
- The configuration's schema is reduced to what later code can tell apart:
  empty lists, duplicates, null.
- What `bootstrap` returns is one variable, `bootstrapResult`, `Undefined` until
  then: a record of the diffs, the entities and the configuration, as in
  `BootstapResult` of `bootstrapping.service.ts`.
- Whatever throws inside the `try` of `run` leads to `exit(2)`. Of the flags, the
  last one that sets the mode wins (`lastMode`); those for debugging and timestamps
  are parsed and change nothing else.
- The command line is a sequence of words, each known by its class: a path, blanks,
  the name of a command, an option the program has, `--help`, an option it does not
  have, `--`. What becomes of them is commander's doing and hence external: options
  may stand anywhere before a `--`, the default command may be named, help ends the
  process with 0 and a usage error with 1. `--` and the quirk that a flag before
  `--help` hides it from a named command only are kept, for an input of the
  container can be any of these words.
- `ChangeDisk` writes another disk of `Disks` between the first reading and the end
  of the last one. What is written before is another initial disk, and what is
  written after is read by nobody. `history` keeps all that was there, so that a
  property can say of which moment a piece of evidence is. The properties that need
  no memory do not mention it.
- Of the script, a variable is unset or one word, `GITHUB_OUTPUT` can be written to
  or not. `ash`, the image's shell, ends with 2 at `${VAR?...}`; the script's own
  `exit 1` is for an invalid mode and for the errors of the program. A failing `echo`
  stops nothing, as there is no `set -e`.

### How the service is abstracted

- A transaction with repeatable reads has the snapshot of its first statement
  and its own row. Insertions that share a primary key wait for each other; the
  foreign key is checked in the snapshot. `by` in a row is a history variable,
  the transaction that wrote it.
- A lost connection is an abort, or a commit nobody hears of.
- kafkajs tries three times (`retries: 2`). Each attempt is acknowledged, stored
  without acknowledgement, or lost. `PublishRefused` is an error it does not
  retry. A crash resets all the calls in flight, of all three controllers.
- A URL is its protocol and whether it holds a user name and a password, which is
  all the checks look at. `NotAUrl` stands for what makes `new URL` or
  `request.s3.url` throw: no decorator of class-validator checks these bodies, so
  that the exception ends in an answer 500.
- A call is known by the identifier it generates (`randomUUID`): the row of a call
  of POST /plan-refs is the call. A run may name a plan whose row does not exist
  yet or never will.
- The Flink job starts at the end of the topic (`OffsetsInitializer.latest`), each
  time anew, because there are no checkpoints; without checkpoints Flink does not
  restart a job by itself, so that `StartJob` is somebody's decision. At most
  `Capacity` (100 in the code) requests wait. A response of any status and an
  exception both end the waiting; after 1000 ms the timeout fails the job. A
  request that was sent reaches its receiver at most once, at any time, also after
  the job has failed: `underWay` and `waiting` are separate.

## Runs

| Run | Question | States | Bounds |
|---|---|---|---|
| `entity_scan` | Does the scan with its window do what one pass with a pending decorator does, and what `findTerraformEntitiesInFile` says? | 116,033 | all files of up to 5 lines of 6 classes, and of up to 4 lines of all classes |
| `verdicts` | Is the answer in both modes the one the gate justifies, on a disk that nobody changes? | 246,664 | 1 or 2 changes, every action, of resources and of resources inside a module, one rule of each kind at a time, every tag |
| `validate_plan` | What do the script's output and exit code say of the program's answer, and what is the answer based on, also when the disk is faulty or changes meanwhile? | 1,582,056 | all environments with every class of word in both locations, one fault of the disk at a time (among them code bases of two files), one change of the disk |
| `validation_controller` | What does the count guarantee? | 55,372 | three calls, two runs, shared item ids |
| `service` | Do answers, rows and events tell the same story, whichever calls overlap or crash? | 48,353 | one plan, one source code, each with right and wrong addresses; two calls of POST /runs, three events each |
| `run_events` | What can a receiver of the notifications rely on? | 283,394 | two runs, four records, one request waiting at a time, two starts of the job |

Properties of the passing runs:

- `ImplementsAutomaton` (refinement): the position and the pending decorator of
  `DecoratorAutomaton` are the loop index and the search of the current window.
  `ComputesEntities` compares the result with the definition over whole files.
  `DecoratorsAreTheTagsAbove` says the same from the reader's side: the tag is
  the last one above the block with plain lines between.
- `ImplementsGate` (refinement): the evidence is `Undefined` until entities are
  collected, then the changes *of the plan*, the entities and the rules; the
  decision is the exit code. `ApprovalGate` states the rules on the plan's own
  actions, without diff types, pairs, outcomes or short circuits, so that the
  code's conversions are checked, not repeated. `Refuse` is always allowed: the
  gate never promises that an input is accepted. It does let a deletion without
  counterpart pass with 0, in both modes, since it is the gate of the code: that
  an unpaired deletion is applied without approval also under `--reverse`, where
  nothing has tagged it as safe, is a property of the program and not an accident
  of the model (see `unpaired_deletion` below). The gate takes whatever evidence
  was gathered; what evidence is when the disk changes is said by the next two.
- `CodeBaseIsReadWhole`: a result of `bootstrap` holds every block, with its tag,
  of every file that was listed at one moment, each file as it was then or later.
  A program that skips a file that has become unreadable violates it.
- `EvidenceIsInOrder`: a result of `bootstrap` is one configuration, then one plan
  that is not older, then blocks that are not older than the plan, each with the
  tag of its own file at one moment. It does not say that they are of *one* moment,
  which the code does not achieve: three readings of a disk that changes may be of
  three versions of it. What is excluded is rules of one configuration with items
  of another, and a plan that is judged by a code base already replaced.
- `ItemsConcernNoDeclaredEntity` (`verdicts`): an item of the configuration cannot
  take the place of a block's decorator.
- `OutputIsDecision`: where the inputs are locations (`areLocations`: no options, no
  names of commands, no `--`), the script's output is a verdict in the mode asked
  for. `ScriptImplementsGate` says under the same condition that the composition
  takes a step of the gate or none. Nothing in the script establishes the condition,
  and without it both fail: see "seen while modelling" below.
- `FailureIsReported`, for every environment: the script ends with 0 exactly when
  the program ended with 0 or 1, and it then lacks its output exactly when the
  output could not be written. A step that succeeds may thus have no output.
- `DuplicatesOnlyFromOverlaps`, `RejectionHasWinner`,
  `AnswersTellWhatIsStored`, `ItemsAreConsistent`: what remains true although two
  items of a run are possible.
- `EventsFollowRuns`, `AnswersAreTrue`, `EventsPerRunAreBounded`: an event never
  precedes its run, 201 and 400 mean what they say, and a state of a run is
  announced at most three times.
- `ReferenceAnswersAreTrue`, `AcknowledgedReferencesAreFound`: the same for the
  references, and no call of POST /runs denies a reference whose 201 was given
  before, not even when its other reference is the one that is missing.
  `RunsReferToFetchableUrls` relates a run to the bodies of two other calls: no
  stored run leads to an address with credentials or another protocol.
- `ImplementsRunService` (refinement): the other controllers are rows that appear,
  and a crash of the process is a crash of POST /runs or nothing to it.
- `ImplementsNotifications` (refinement): counted per run, notifications never
  exceed announcements, announcements never exceed three and never precede the
  run, across failures of the service, of the job and of single requests.
  `PassedRecordsAreNotSent`: no record is sent that the job has passed by, or
  twice. Together they say what the job is: at most once per record, and possibly
  never. `RecordsAreSentOrTheJobFails` is the liveness that remains: a full job
  goes on or goes down.
- `AlwaysExits`, `CallsAreAnswered`, `ReferenceCallsAreAnswered` (liveness).

Why the bounds are enough: the scan's decisions depend on the last bracket or tag
in a window, and five lines hold two headers with three lines in every order
around them; the proofs cover every length. A verdict is a disjunction over
changes, and each change is judged alone, so two changes show every combination
of judgements; a rule is used alone because the rules are joined by `or`. One
change of the disk separates each pair of readings, of the listing and of two files,
and lets the program meet a fault after a good reading; evidence of three moments
takes two changes, and the proofs cover any number. Three transactions
allow a winner, a loser and an overlap with both; the proofs cover any number.
One plan and one source code give every order of their rows and of two runs that
name them; the four addresses fail one check each, and one passes. A capacity of
one makes the full job a frequent state, the second start lets requests of a
failed job meet those of its successor, and four records are three of one run and
one of another. `MaxStarts` and `MaxRecords` are bounds of the model, not of the
code; the theorems hold for all of them.

Fairness: the program is sequential and synchronous (or a chain of promises that
nobody else resolves), hence weak fairness of its next step in `UndisturbedSpec`,
for `AlwaysExits`. The scan and the script have none: no liveness is claimed of
them. `ChangeDisk`, crashes and lost messages have no fairness. A call of the
service is weakly fair in its next step. For the publication this is kafkajs' time
limit, for the transaction of a validation item Prisma's time limit for interactive
transactions. For the single queries of POST /runs and of the references it is an
assumption on the database and its connection: Prisma gives a single query no time
limit by default, and a database that accepts a query and never answers leaves the
call without an answer. In `ValidationControllerRepository` fairness is per call and
excludes `Abort` and `CommitUnconfirmed`, so that a waiting insertion is answered
because the other transaction ends and not because it fails. In `FairEventsSpec`
only the job's own steps are fair: taking the next record when there is room, and
the timer of each request that waits. Nobody has to start the job, answer it or
call the service.

Deadlock is not checked: scan, program, script and calls end, and so does the last
job.

## Disagreements between the code and what is said of it

Six runs refute a statement of the repository.

| Run | Statement | What the code does |
|---|---|---|
| `bracket_in_first_column` | `resource.ts:121`: the search stops at a closing bracket | a bracket in the first column does not match `/^[^#]+}.*$/`; a tag above one block can decorate the next |
| `third_operand` | `jekyll/README.md:41`: the exit code tells whether the plan can be applied | with three operands `run` throws outside its `try` and the process ends with 0 |
| `unpaired_deletion` | `jekyll/README.md:139`: an action listed for all resources always asks for approval | a deletion without counterpart is dropped before the rules are looked at |
| `invalid_plan` | `plan-reader.ts:12`: a plan that breaks the schema is `invalid_resource` | the error is built and not returned (`file-plan-reader.ts:45`); a plan with the action `forget` is decided upon and the program ends with 0 |
| `two_items_of_a_run` | `validation-controller.repository.ts:54`: no two items for the same run | overlapping transactions with repeatable reads both count one |
| `unknown_run` | `validation-controller.repository.ts:152`: the constant is the constraint's name | the migration's name has another letter; the call ends in an exception |

Seen while modelling, and kept in the models without a run of their own: the script
passes its locations without `--` (`validate-plan.sh:21`), so that one that begins with
a dash is an option. An unknown option ends the program with 1 and becomes
`approval_required=true`, `--help` ends it with 0 and becomes `false`, and the script
succeeds, although line 35 wants an error of the program propagated; a location `--`
before the flag makes operands of what follows. A header
inside a block comment is an entity although `resource.ts:35` excludes what is
commented out; `jekyll/README.md:62` shows tags without the `@` the code wants; in
a file with `\r\n` ends no tag is found and nothing is reported; two protected
addresses inside one module are a duplicate (`bootstrapping.service.ts:118`), so
that a configuration with both is refused; an unreadable configuration file is
treated as an absent one (`shared/file.ts:14`); a body of POST /plan-refs or
POST /source-code-refs without a proper URL is answered with 500, where
`openapi/terraapprove.yaml` documents 400 only; the same file describes
`GET /runs/{run_id}`, `POST /runs/status-changed` and `POST /approvals`, which no
controller serves.

## Proofs

The theorems hold for every value of the constants that the named assumptions
allow. TLC evaluates these assumptions in the runs. The theorems about the program
and the services are about their specifications without fairness (`Spec`,
`ServiceSpec`, `EventsSpec`), of which the specifications of the runs are special
cases; those about the script are about `ScriptSpec` itself. Every inductive
invariant was checked with TLC on the instance of its run before it was proved.

What is assumed of the constants: `Undefined`, `Null` and `InvalidDefinition` are
none of the values they are compared with (`AbsentValues`, `InvalidIsNoDecorator`,
`UndefinedIsNoExitCode`, `UndefinedIsNoResult`), as `undefined` and `null` are none
in TypeScript; no provider calls a resource type `module`; `.terraapprove.yaml` is
not the name of a `.tf` file; disks, arguments (sequences of words of any class),
inputs (any word, or unset), bodies and addresses are of their types; a string that is no UUID is no identifier; the bounds are numbers.

### The program

`DomainProofs` states what the operators without state return.

- Two lemmas take the place of induction over data: a set of indices that is not
  empty has a least element (`LeastElement`), and one that is bounded has a greatest
  (`GreatestBelow`), from `WFMin` of the library. With them the backwards search ends
  at the last bracket or tag (`SearchFromLastLine`), every header has the window that
  starts after the header before it (`EveryWindowStarts`), and `||` over a list of
  matchers, some of which throw, says yes only when one of them does, and no only when
  all of them do (`SomeOutcome`).
- The outcomes of both use cases are related to plain predicates
  (`RequireOutcome`, `SafeOutcome`): `"yes"` implies that a rule demands it, `"no"`
  that none does, and what throws is neither. The conversion of the actions of a
  change to a diff type and back loses nothing (`MappedActions`, `ReadChange`) for
  the changes that are not refused.

`EntityScanProofs`: `TypeCorrect` and `Implements` rest on two lemmas on the search:
appending a line that ends it gives that line's decorator, appending any other line
changes nothing. Each branch of an iteration then is the automaton's action for that
class of line. `ScanComputesEntities` needs the invariant `ScanInv`: the entities
found so far are those of the headers behind the index, and the current window
starts after the last of them. `DecoratorsAreAlwaysTheTagsAbove` follows from it and
from the lemmas on the search, one direction each: a decorator is a tag with plain
lines below it (`FoundTagIsAbove`), and such a tag is found (`TagAboveIsFound`).

`ApprovalCommandProofs` has one invariant of the program, `ProgramInv`, kept by each
action in a lemma of its own:

- the types, and that the process has an exit code exactly when it has ended;
- `HasRead`: from the step after a reading on, what was read made nothing throw. It
  gives the types of the diffs and the configuration, for only a document that was
  accepted has them;
- `Collected`: a result of `bootstrap` is that of the present readings, which hold no
  invalid tag or address and no two equal entities.

A second invariant, `ReadInOrder`, is about `history`: there are moments, one not
before the other, at which the configuration and the plan were read, and one at which
the code base was listed; each file read so far has the lines of a moment after it, and
each listed file is read or still unread. Each reading adds the present moment, and a
change of the disk adds a later one, so what was read keeps its moment. At the step that
collects the entities nothing is unread, and `CodeBaseIsAlwaysReadWhole` and
`EvidenceIsAlwaysInOrder` follow. Neither property is inductive: before the result
exists they say nothing of the readings.

`TypeCorrect` and `ItemsAreApart` follow. `GateIsImplemented` is the refinement: the
step that collects the entities is `Gather`, the last step is `Apply`, `Approve` or
`Refuse`, other steps stutter or refuse. Equal entities are excluded by `Collected`,
so that a change has one counterpart at most (`OneCounterpart`) and the code's `find`
is no choice; `GateUnknown` and `GateVerdict` then translate the code's tests into
the gate's, rule by rule (`GateDemand`). The theorem has the hypothesis `isProperCall`,
two operands and known flags, on the initial state: a call with a third operand ends
with 0 and without a verdict, as the run `third_operand` shows, and so do `--help`
and, with 1, a usage error.

The script discharges that hypothesis where its inputs are locations
(`LocationsAreOperands`: two words that are no options, no commands and no `--`, and
the flag of the mode, are two operands and a known flag). `ScriptInv` adds to
`ProgramInv` that the program has not begun before the script has validated its inputs
and is then called with the words of the inputs (`CallsProgram`), that an exit code 0
or 1 of a proper call is the verdict (`HasDecided`), and that the script's own result
is the one of its exit code (`HasReported`). `OutputIsDecision` is not inductive
without the first two: it speaks of the inputs and of the verdict, and the exit code
stands between them. From `ScriptInv`: `ScriptTypeCorrect`, `FailuresAreReported` and,
with `ReadInOrder`, `ScriptReadsInOrder` in every environment, `OutputsAreDecisions` and `ScriptGateIsImplemented` in those
with locations. The condition is part of the two properties, and no assumption on
the constants narrows the inputs.

### The service

- `ValidationControllerProofs`: the five safety properties of the run, for any
  number of calls. `IInv` relates open transactions, snapshots and rows: a
  committed row belongs to a settled call (`ItemInv`), keys are unique and a key
  that is being written is not committed (`UniqueInv`, `KeyInv`), snapshots are
  subsets of what is committed (`SnapshotInv`), and a call that counted one item
  had no item of its run in its snapshot (`CountInv`, `SettledInv`). None of the
  properties is inductive without them.
- `RunServiceProofs`: `EventsFollowRuns`, `AnswersAreTrue` and
  `EventsPerRunAreBounded` for any number of calls and bodies. `IInv` adds to the
  types that a stored run is the one its call asked for and that what it refers to
  exists (`RunInv`), that an event belongs to a call that has stored its run and
  never goes back (`EventInv`), and that a call has no more events than attempts,
  and no answer before it is answered (`CallInv`). `AnswersAreTrue` alone is not
  inductive: that a 400 stays true needs `EventInv`, that a 201 is true needs
  `CallInv`. A step of one call leaves the parts of the others alone (`OthersStay`),
  so each action is judged for its own call.
- `ReferenceCallsProofs` proves what each step of a controller of references keeps
  (`CallsInv`), and `ServiceProofs` instantiates it for both. `SInv` joins it with
  `IInv`. From it: the types of the whole service; the service implements `RunService`
  (`ServiceImplementsRunService`), hence events follow runs and answers are true in
  the whole service; the answers of references are true; and
  `RunsAlwaysReferToFetchableUrls`, because `CallsInv` keeps of every row that its
  call has passed the check. `SInv` is needed for the refinement itself: a crash with
  no call of POST /runs in flight must leave the variables of `RunService` as they
  are, which holds for functions on `Call`.
- `AcknowledgedReferencesAreAlwaysFound` is about steps. It needs one more invariant,
  `IdsAreValid`: a call that reaches the database has two identifiers. Without it the
  missing plan could be the string that is no UUID, of which no call of POST
  /plan-refs says anything.
- `RunEventsProofs`: the types of the composition, with the bound on waiting
  requests, and `PassedRecordsAreNotSent`, for every capacity, number of records and
  number of starts, from the invariant of `RunService` with the converter's types.
  `NotificationsAreImplemented` is the refinement of `RunNotifications`. It needs
  `DeliveryInv`: the offset is at most one past the topic's end, a record that was
  sent is behind the offset, and one that is under way was not received. So a job
  that starts never goes back, a record is received once at most, and the
  notifications of a run are as many as its received records, a subset of its events
  that lacks the one being received.

Only model-checked: the liveness properties (`AlwaysExits`, `CallsAreAnswered`,
`ReferenceCallsAreAnswered`, `RecordsAreSentOrTheJobFails`), for liveness under fairness is out of the prover's reach. Every invariant, action
property and refinement of the passing runs is a theorem. What a verdict is on a
given plan is nowhere computed by the proofs: the theorems relate the program to the
gate, and the runs show that verdicts of each kind occur.

## Not modelled

- The OpenAPI description, the types generated from it, and the modules that wire
  dependencies: no behaviour. The logger: output only; the flags that reach it are
  parsed in `ApprovalCommand`.
- The settings read at start, the connection of the producer at start and stop, and
  the parameters of the Flink job (`EventToHttpConverter.java:19-38`): a process
  that misses one does not come up, and afterwards they do not change.
- `KafkaDeserializer` and `KafkaEvent` copy fields; the body of an event is known by
  its run, as nothing but its revision and state are in it and both are constant.
- `isRunApproved` and `isRunInProgress` (`domain/src/run.ts`) have no caller.
- The package managers checked in under `.yarn`, examples, documentation and
  end-to-end tests.

## Plan

Done, in this order: entity scan and automaton; readers, modes, command and gate;
script; validation controller; run service; references and the whole service; the
Flink job and its composition with the service; the theorems on the services; those
on the search, the program and the script; the notifications.

Next:

1. `RunNotifications` for the whole process: `RunEvents` composes the job with
   `RunService`, which `Service` implements; what is missing is a composition of the
   job with `Service` itself.
2. The converse of the gate for valid inputs: which plans the program never refuses.
3. A second step in the life of a run, when the code has one.
