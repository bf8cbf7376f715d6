---------------------------- MODULE ApprovalCommand ----------------------------
(***************************************************************************)
(* The command line program (core/main/src/command/approval and core/libs/ *)
(* service/src): it parses its arguments, reads the configuration, the     *)
(* plan and the code base, one file at a time, and exits with 0 (no        *)
(* approval required), 1 (approval required) or 2 (error). Other processes *)
(* may write to the disk between two of its reads.                         *)
(***************************************************************************)
EXTENDS ApprovalModes, PlanReader, SourceFile, CommandLine

CONSTANTS
  TerraformFile,   \* names of files that end in .tf
  OtherFile,       \* names of files that do not
  Arguments,       \* the command lines of a run
  Disks,           \* the contents the disk may have
  MaxChanges       \* how often other processes write to the disk

\* A file that cannot be read (a directory, no permission) is Undefined.
isCodeBase(codeBase) ==
  /\ codeBase.kind \in {"missing", "not_a_directory", "directory"}
  /\ DOMAIN codeBase.files \subseteq TerraformFile \cup OtherFile
  /\ \A file \in DOMAIN codeBase.files :
       codeBase.files[file] \in File \cup {Undefined}

isDisk(d) ==
  /\ d.configuration \in ConfigurationFile
  /\ d.plan \in PlanFile
  /\ isCodeBase(d.codeBase)

ASSUME ArgumentsAreWords == Arguments \subseteq Seq(Word)
ASSUME DisksAreDisk == \A d \in Disks : isDisk(d)
ASSUME MaxChangesIsNat == MaxChanges \in Nat
ASSUME ConfigurationIsNoCode == ".terraapprove.yaml" \notin TerraformFile
ASSUME UndefinedIsNoExitCode == Undefined \notin 0 .. 2

-----------------------------------------------------------------------------
\* An entity of the code base or of the configuration, and where it comes
\* from: a line of a file or an item.
CollectedEntity ==
  [entityInfo: ItemEntityInfo, decorator: DecoratorType,
   at: (TerraformFile \cup {".terraapprove.yaml"}) \X Nat]

BootstrapResult ==
  [terraformDiffMap: SUBSET TerraformDiff,
   terraformEntities: SUBSET CollectedEntity,
   configuration: Configurations]

\* What a decision is based on: the changes that no-op and read leave, as the
\* plan lists them, and the entities and rules that were read.
Evidence ==
  [mode: {"require_approval", "safe_to_apply"}, changes: SUBSET ResourceChange,
   entities: SUBSET CollectedEntity, rules: GlobalConfiguration]

ASSUME UndefinedIsNoResult ==
  Undefined \notin BootstrapResult /\ Undefined \notin Evidence

VARIABLES
  argv,                \* the arguments of the process
  history,             \* what the disk has held so far, and now (the last)
  pc,                  \* the next step of the process
  operationMode,       \* "standard" or "reverse"
  configurationFile,   \* what was read of .terraapprove.yaml
  planFile,            \* what was read of the plan
  unread,              \* listed .tf files still to be read
  sources,             \* the lines of the .tf files read
  bootstrapResult,     \* the result of bootstrap, Undefined until it returns
  exitCode             \* the exit code of the process, Undefined while it runs

\* The files the arguments lead to. What they held before is known to nobody.
disk == history[Len(history)]

readings == <<configurationFile, planFile, unread, sources>>
vars == <<argv, history, pc, operationMode, readings, bootstrapResult, exitCode>>

Init ==
  /\ argv \in Arguments
  /\ history \in {<<d>> : d \in Disks}
  /\ pc = "parse"
  /\ operationMode = "standard"
  /\ configurationFile = Undefined
  /\ planFile = Undefined
  /\ unread = {}
  /\ sources = << >>
  /\ bootstrapResult = Undefined
  /\ exitCode = Undefined

exit(code) == pc' = "exited" /\ exitCode' = code

\* Steps that end the process when `failed` holds and continue otherwise.
continueUnless(failed, next) ==
  IF failed THEN exit(2) ELSE pc' = next /\ UNCHANGED exitCode

-----------------------------------------------------------------------------
(***************************************************************************)
(* The framework shows the help, refuses the words or calls the option     *)
(* handlers, in the order of the flags, and then run.                      *)
(***************************************************************************)
ParseArguments ==
  /\ pc = "parse"
  /\ IF showsHelp(argv) \/ isUsageError(argv)
       THEN /\ exit(IF showsHelp(argv) THEN 0 ELSE 1)
            /\ UNCHANGED operationMode
       ELSE /\ pc' = "run"
            /\ operationMode' = lastMode(argv)
            /\ UNCHANGED exitCode
  /\ UNCHANGED <<argv, history, readings, bootstrapResult>>

\* The setters of the locations of the code base and of the plan. That of the
\* configuration appends a name to the former and never throws.
setLocationsThrow == \E i \in passedAt(argv) : argv[i] = "blank"

(***************************************************************************)
(* ApprovalCommand.run. The check of the number of operands stands before  *)
(* the try: the framework writes the error to stderr and the process ends  *)
(* with 0. A blank location throws inside the try.                         *)
(***************************************************************************)
Run ==
  /\ pc = "run"
  /\ IF Cardinality(passedAt(argv)) # 2
       THEN exit(0)
       ELSE continueUnless(setLocationsThrow, "configuration")
  /\ UNCHANGED <<argv, history, operationMode, readings, bootstrapResult>>

ReadConfiguration ==
  /\ pc = "configuration"
  /\ configurationFile' = disk.configuration
  /\ continueUnless(readConfigurationThrows(disk.configuration), "plan")
  /\ UNCHANGED <<argv, history, operationMode, planFile, unread, sources,
                 bootstrapResult>>

ReadPlan ==
  /\ pc = "plan"
  /\ planFile' = disk.plan
  /\ continueUnless(readPlanError(disk.plan) # "none", "list")
  /\ UNCHANGED <<argv, history, operationMode, configurationFile, unread,
                 sources, bootstrapResult>>

terraformFilesIn(codeBase) ==
  IF codeBase.kind = "directory"
    THEN DOMAIN codeBase.files \cap TerraformFile
    ELSE {}

isReadable(codeBase, file) ==
  /\ codeBase.kind = "directory"
  /\ file \in DOMAIN codeBase.files
  /\ codeBase.files[file] # Undefined

linesOf(codeBase, file) == readFileAndSplitLines(codeBase.files[file])

\* Mutant: the filter on the extension is dropped.
ListEveryFile ==
  /\ pc = "list"
  /\ unread' = IF disk.codeBase.kind = "directory"
                 THEN DOMAIN disk.codeBase.files
                 ELSE {}
  /\ continueUnless(disk.codeBase.kind # "directory", "read")
  /\ UNCHANGED <<argv, history, operationMode, configurationFile, planFile,
                 sources, bootstrapResult>>

\* listTerraformFilesInFolder
ListCodeBase ==
  /\ pc = "list"
  /\ unread' = terraformFilesIn(disk.codeBase)
  /\ continueUnless(disk.codeBase.kind # "directory", "read")
  /\ UNCHANGED <<argv, history, operationMode, configurationFile, planFile,
                 sources, bootstrapResult>>

withLinesOf(file) ==
  [f \in DOMAIN sources \cup {file} |->
     IF f = file THEN linesOf(disk.codeBase, file) ELSE sources[f]]

\* Mutant: the loop over the files does not advance.
ReadSameFile ==
  /\ pc = "read"
  /\ \E file \in unread :
       IF isReadable(disk.codeBase, file)
         THEN sources' = withLinesOf(file) /\ UNCHANGED <<pc, exitCode>>
         ELSE exit(2) /\ UNCHANGED sources
  /\ UNCHANGED <<argv, history, operationMode, configurationFile, planFile,
                 unread, bootstrapResult>>

\* Mutant: a file that cannot be read is left out.
SkipUnreadableFile ==
  /\ pc = "read"
  /\ \E file \in unread :
       /\ unread' = unread \ {file}
       /\ sources' = IF isReadable(disk.codeBase, file) THEN withLinesOf(file) ELSE sources
  /\ UNCHANGED <<argv, history, pc, operationMode, configurationFile, planFile,
                 bootstrapResult, exitCode>>

\* The listed files are read one after the other, in the order of readdir.
ReadTerraformFile ==
  /\ pc = "read"
  /\ \E file \in unread :
       /\ unread' = unread \ {file}
       /\ IF isReadable(disk.codeBase, file)
            THEN sources' = withLinesOf(file) /\ UNCHANGED <<pc, exitCode>>
            ELSE exit(2) /\ UNCHANGED sources
  /\ UNCHANGED <<argv, history, operationMode, configurationFile, planFile,
                 bootstrapResult>>

-----------------------------------------------------------------------------
configuration == readConfiguration(configurationFile)

hasInvalidDefinition ==
  \E file \in DOMAIN sources :
    findTerraformEntitiesInFile(sources[file]) = InvalidDefinition

\* The arrays of entities are sets of their elements, each with the place it
\* comes from.
blockEntity(file, entity) ==
  [entityInfo |-> entity.entityInfo, decorator |-> entity.decorator,
   at |-> <<file, entity.at>>]

entitiesFromCodebase ==
  UNION {{blockEntity(file, entity) :
            entity \in findTerraformEntitiesInFile(sources[file])} :
           file \in DOMAIN sources}

itemEntity(item, i) ==
  LET entity == requireApprovalItemToTerraformEntity(item)
  IN  [entityInfo |-> entity.entityInfo, decorator |-> entity.decorator,
       at |-> <<".terraapprove.yaml", i>>]

entitiesFromConfiguration ==
  {itemEntity(configuration.requireApprovalItems[i], i) :
     i \in DOMAIN configuration.requireApprovalItems}

\* Mutant: only entities with the same decorator are in conflict.
throwIfSameDecorator(entities) ==
  \E one, other \in entities :
    /\ one.at # other.at /\ one.entityInfo = other.entityInfo
    /\ one.decorator = other.decorator

throwIfConflictIsDetected(entities) ==
  \E one, other \in entities :
    one.at # other.at /\ one.entityInfo = other.entityInfo

bootstrap ==
  [terraformDiffMap  |-> readPlan(planFile),
   terraformEntities |-> entitiesFromCodebase \cup entitiesFromConfiguration,
   configuration     |-> configuration]

\* Mutant: bootstrap reads the configuration once more when it returns.
CollectWithNewConfiguration ==
  /\ pc = "read"
  /\ unread = {}
  /\ LET failed ==
           \/ hasInvalidDefinition
           \/ hasInvalidAddress(configuration.requireApprovalItems)
           \/ throwIfConflictIsDetected(
                entitiesFromCodebase \cup entitiesFromConfiguration)
     IN  /\ continueUnless(failed, "decide")
         /\ bootstrapResult' =
              IF failed THEN Undefined
              ELSE [bootstrap EXCEPT !.configuration = readConfiguration(disk.configuration)]
  /\ UNCHANGED <<argv, history, operationMode, readings>>

\* collectTerraformEntities, once every file is read, and the end of bootstrap.
CollectEntities ==
  /\ pc = "read"
  /\ unread = {}
  /\ LET failed ==
           \/ hasInvalidDefinition
           \/ hasInvalidAddress(configuration.requireApprovalItems)
           \/ throwIfConflictIsDetected(
                entitiesFromCodebase \cup entitiesFromConfiguration)
     IN  /\ continueUnless(failed, "decide")
         /\ bootstrapResult' = IF failed THEN Undefined ELSE bootstrap
  /\ UNCHANGED <<argv, history, operationMode, readings>>

-----------------------------------------------------------------------------
terraformDiffMap == bootstrapResult.terraformDiffMap
terraformEntities == bootstrapResult.terraformEntities

mode == IF operationMode = "standard" THEN "require_approval" ELSE "safe_to_apply"

approvalNeeded ==
  isApprovalRequired(mode, bootstrapResult.configuration,
    generateDiffEntityPairs(terraformDiffMap, terraformEntities))

exitCodeOf(outcome) ==
  CASE outcome = "yes" -> 1 [] outcome = "no" -> 0 [] OTHER -> 2

\* ApprovalService.isApprovalRequired after bootstrap, and the end of run.
Decide ==
  /\ pc = "decide"
  /\ IF hasUnknownDiff(terraformDiffMap, terraformEntities)
       THEN exit(2)
       ELSE exit(exitCodeOf(approvalNeeded))
  /\ UNCHANGED <<argv, history, operationMode, readings, bootstrapResult>>

\* Another process writes the configuration, the plan or the code base. What
\* is written before the first reading makes another initial disk, and what is
\* written after the last one is read by nobody.
ChangeDisk ==
  /\ pc \in {"plan", "list", "read"}
  /\ Len(history) <= MaxChanges
  /\ \E d \in Disks \ {disk} : history' = Append(history, d)
  /\ UNCHANGED <<argv, pc, operationMode, readings, bootstrapResult, exitCode>>

Step ==
  \/ ParseArguments \/ Run
  \/ ReadConfiguration \/ ReadPlan \/ ListCodeBase \/ ReadTerraformFile
  \/ CollectEntities \/ Decide

Next == Step \/ ChangeDisk

Spec == Init /\ [][Next]_vars

\* The process is one chain of synchronous calls and resolved promises and
\* waits for nobody. Here nobody writes to the disk meanwhile; with the
\* script around it, others do (ValidatePlan).
UndisturbedSpec == Init /\ [][Step]_vars /\ WF_vars(Step)

-----------------------------------------------------------------------------
\* The types of everything but the arguments, which the script passes.
ProgramTypeOK ==
  /\ history \in Seq(Disks) /\ Len(history) \in 1 .. MaxChanges + 1
  /\ pc \in {"parse", "run", "configuration", "plan", "list", "read", "decide",
             "exited"}
  /\ operationMode \in {"standard", "reverse"}
  /\ configurationFile \in ConfigurationFile \cup {Undefined}
  /\ planFile \in PlanFile \cup {Undefined}
  /\ unread \subseteq TerraformFile
  /\ DOMAIN sources \subseteq TerraformFile
  /\ \A file \in DOMAIN sources : sources[file] \in Seq(Line)
  /\ bootstrapResult \in BootstrapResult \cup {Undefined}
  /\ exitCode \in 0 .. 2 \cup {Undefined}

TypeOK == argv \in Arguments /\ ProgramTypeOK

evidence ==
  IF bootstrapResult = Undefined THEN Undefined
  ELSE [mode     |-> mode,
        changes  |-> {planFile.resource_changes[i] :
                        i \in keptChanges(planFile.resource_changes)},
        entities |-> terraformEntities,
        rules    |-> bootstrapResult.configuration.global]

decision ==
  CASE exitCode = Undefined -> "pending"
    [] exitCode = 0 -> "apply"
    [] exitCode = 1 -> "approve"
    [] OTHER -> "refuse"

isProperCall ==
  /\ ~ showsHelp(argv) /\ ~ isUsageError(argv)
  /\ Cardinality(passedAt(argv)) = 2

\* Called with two operands and known flags, the program is the gate its
\* documentation describes: 0 and 1 are decisions on evidence that was read
\* and that justifies them, everything else is 2 (approval.command.ts 31-72,
\* approval.service.ts 16-92, both use cases), whatever happens to the disk.
Gate == INSTANCE ApprovalGate

ImplementsGate == Gate!Spec

\* The program always ends with an exit code, whichever reader or conversion
\* fails on the way (approval.command.ts 31-72).
AlwaysExits == <>(pc = "exited")

\* An item of the configuration never shares its entity with a block of the
\* code base or with another item of a plan that gets a verdict: a deleted
\* resource can be protected, a declared one is protected by its decorator
\* only (bootstrapping.service.ts 91-124).
ItemsConcernNoDeclaredEntity ==
  bootstrapResult # Undefined =>
    \A i \in DOMAIN configuration.requireApprovalItems :
      LET item == requireApprovalItemToTerraformEntity(
                    configuration.requireApprovalItems[i])
      IN  /\ \A file \in DOMAIN sources : \A k \in headersOf(sources[file]) :
                 sources[file][k].entityInfo # item.entityInfo
          /\ \A j \in DOMAIN configuration.requireApprovalItems \ {i} :
               requireApprovalItemToTerraformEntity(
                 configuration.requireApprovalItems[j]).entityInfo # item.entityInfo
\* The block whose header is line k, with the tag and the place it has.
declaredAt(file, lines, k) ==
  [entityInfo |-> lines[k].entityInfo, decorator |-> decoratorAt(lines, k),
   at |-> <<file, k>>]

\* Evidence holds every block of the code base, though the files are listed
\* and read at different times: there was a moment at which the code base was
\* listed, and each of its files was read after it, with every block and its
\* tag. A file that vanishes or cannot be read, or a writer that replaces
\* files meanwhile, ends the program or is read, and is never left out
\* (codebase-reader.service.ts 13-69, bootstrapping.service.ts 65-89).
CodeBaseIsReadWhole ==
  bootstrapResult # Undefined =>
    \E l \in DOMAIN history :
      /\ history[l].codeBase.kind = "directory"
      /\ \A file \in terraformFilesIn(history[l].codeBase) :
           \E r \in l .. Len(history) :
             /\ isReadable(history[r].codeBase, file)
             /\ LET lines == linesOf(history[r].codeBase, file)
                IN  \A k \in headersOf(lines) :
                      declaredAt(file, lines, k) \in terraformEntities

\* Evidence mixes what the disk held at different moments only in the order of
\* the readings: one configuration, then one plan, then blocks that are not
\* older than the plan, each with the tag of its own file at that moment. A
\* plan is never judged by a code base that was replaced before it was read,
\* nor by the rules of one configuration and the items of another
\* (bootstrapping.service.ts 65-89).
EvidenceIsInOrder ==
  bootstrapResult # Undefined =>
    \E c \in DOMAIN history : \E p \in c .. Len(history) :
      LET rules == readConfiguration(history[c].configuration)
      IN  /\ ~ readConfigurationThrows(history[c].configuration)
          /\ bootstrapResult.configuration = rules
          /\ readPlanError(history[p].plan) = "none"
          /\ terraformDiffMap = readPlan(history[p].plan)
          /\ \A entity \in terraformEntities :
               \/ \E i \in DOMAIN rules.requireApprovalItems :
                    entity = itemEntity(rules.requireApprovalItems[i], i)
               \/ \E r \in p .. Len(history) :
                    \E file \in terraformFilesIn(history[r].codeBase) :
                      LET lines == linesOf(history[r].codeBase, file)
                      IN  /\ isReadable(history[r].codeBase, file)
                          /\ \E k \in headersOf(lines) : entity = declaredAt(file, lines, k)
=============================================================================
