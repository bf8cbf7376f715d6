------------------------- MODULE ApprovalCommandProofs -------------------------
(***************************************************************************)
(* For every disk, every plan, every configuration and every environment   *)
(* of the script: the types of the program's state, what it has read when  *)
(* it decides, that it is the gate of ApprovalGate, and what the script    *)
(* around it reports.                                                      *)
(***************************************************************************)
EXTENDS ValidatePlan, DomainProofs, FiniteSetTheorems

items == configuration.requireApprovalItems
entities == entitiesFromCodebase \cup entitiesFromConfiguration

\* What was read did not make the program fail.
HasRead ==
  /\ pc \in {"plan", "list", "read", "decide"} \/ bootstrapResult # Undefined =>
       /\ configurationFile \in ConfigurationFile
       /\ ~ readConfigurationThrows(configurationFile)
  /\ pc \in {"list", "read", "decide"} \/ bootstrapResult # Undefined =>
       planFile \in PlanFile /\ readPlanError(planFile) = "none"

\* bootstrap returns once, after the last reading, and only if no two entities
\* are the same. Nothing its result was made from changes after.
Collected ==
  /\ bootstrapResult # Undefined =>
       /\ pc \in {"decide", "exited"}
       /\ bootstrapResult = bootstrap
       /\ ~ hasInvalidDefinition /\ ~ hasInvalidAddress(items)
       /\ ~ throwIfConflictIsDetected(entities)
  /\ pc = "decide" => bootstrapResult # Undefined

ProgramInv ==
  /\ ProgramTypeOK /\ HasRead /\ Collected
  /\ pc = "exited" <=> exitCode # Undefined

-----------------------------------------------------------------------------
\* A step either ends the process with an exit code or leaves it running.
LEMMA ExitType ==
  ASSUME ProgramInv, pc # "exited", NEW failed, NEW next, next # "exited",
         continueUnless(failed, next)
  PROVE  /\ failed => pc' = "exited" /\ exitCode' = 2
         /\ ~ failed => pc' = next /\ exitCode' = Undefined
         /\ pc' \in {"exited", next} /\ exitCode' \in 0 .. 2 \cup {Undefined}
         /\ pc' = "exited" <=> exitCode' # Undefined
BY UndefinedIsNoExitCode DEF continueUnless, exit, ProgramInv

LEMMA OutcomeCodes == \A outcome : exitCodeOf(outcome) \in 0 .. 2
BY DEF exitCodeOf

\* What the disk holds.
LEMMA DiskHolds ==
  ASSUME ProgramTypeOK
  PROVE  /\ disk.configuration \in ConfigurationFile
         /\ disk.plan \in PlanFile
         /\ \A file \in DOMAIN disk.codeBase.files :
              disk.codeBase.files[file] \in File \cup {Undefined}
<1>1. history \in Seq(Disks) /\ Len(history) \in 1 .. MaxChanges + 1
  BY DEF ProgramTypeOK
<1>2. disk \in Disks
  BY <1>1, MaxChangesIsNat DEF disk
<1>3. isDisk(disk)
  BY <1>2, DisksAreDisk
<1> QED
  BY <1>3 DEF isDisk, isCodeBase

\* The entities of the files and of the items, if all of them are valid.
LEMMA CodeBaseType ==
  ASSUME ProgramTypeOK, ~ hasInvalidDefinition
  PROVE  entitiesFromCodebase \subseteq CollectedEntity
<1> DEFINE found(file) ==
      {[entityInfo |-> entity.entityInfo, decorator |-> entity.decorator,
        at |-> <<file, entity.at>>] :
          entity \in findTerraformEntitiesInFile(sources[file])}
<1>1. ASSUME NEW file \in DOMAIN sources
      PROVE  found(file) \subseteq CollectedEntity
  <2> DEFINE lines == sources[file]
             entityOf(i) == [entityInfo |-> lines[i].entityInfo,
                             decorator |-> decoratorAt(lines, i), at |-> i]
  <2>1. lines \in Seq(Line) /\ file \in TerraformFile
    BY DEF ProgramTypeOK
  <2>2. /\ findTerraformEntitiesInFile(lines) = {entityOf(i) : i \in headersOf(lines)}
        /\ \A i \in headersOf(lines) : decoratorAt(lines, i) # InvalidDefinition
    BY DEF hasInvalidDefinition, findTerraformEntitiesInFile
  <2>3. ASSUME NEW i \in headersOf(lines)
        PROVE  [entityInfo |-> entityOf(i).entityInfo, decorator |-> entityOf(i).decorator,
                at |-> <<file, entityOf(i).at>>] \in CollectedEntity
    <3>1. lines[i] \in Line /\ detectsTerraformEntity(lines[i]) /\ i \in Nat
      BY <2>1 DEF headersOf
    <3>2. lines[i].entityInfo \in ItemEntityInfo
      BY <3>1, BlockEntityInfo DEF Line, detectsTerraformEntity
    <3>3. decoratorAt(lines, i) \in DecoratorType
      BY <2>1, <2>2, DecoratorOfHeader
    <3> HIDE DEF lines
    <3> QED
      BY <2>1, <3>1, <3>2, <3>3 DEF CollectedEntity
  <2> HIDE DEF lines, entityOf
  <2> QED
    BY <2>2, <2>3 DEF lines
<1>2. entitiesFromCodebase = UNION {found(file) : file \in DOMAIN sources}
  BY DEF entitiesFromCodebase, blockEntity
<1> HIDE DEF found
<1> QED
  BY <1>1, <1>2

LEMMA ItemsType ==
  ASSUME configurationFile \in ConfigurationFile,
         ~ readConfigurationThrows(configurationFile), ~ hasInvalidAddress(items)
  PROVE  entitiesFromConfiguration \subseteq CollectedEntity
<1> DEFINE entityOf(i) == requireApprovalItemToTerraformEntity(items[i])
<1>1. /\ items \in Seq(RequireApprovalItem)
      /\ \A i \in DOMAIN items : items[i].actions # {}
  BY ReadConfigurationType DEF items, configuration, Configurations
<1>2. ASSUME NEW i \in DOMAIN items
      PROVE  /\ entityOf(i).entityInfo \in ItemEntityInfo
             /\ entityOf(i).decorator \in DecoratorType /\ i \in Nat
  <2>1. items[i] \in RequireApprovalItem /\ i \in Nat
    BY <1>1
  <2>2. ~ (Len(items[i].fullyQualifiedAddress) < 2)
    BY DEF hasInvalidAddress
  <2> QED
    BY <1>1, <2>1, <2>2, ItemEntityType
<1>3. entitiesFromConfiguration =
        {[entityInfo |-> entityOf(i).entityInfo, decorator |-> entityOf(i).decorator,
          at |-> <<".terraapprove.yaml", i>>] : i \in DOMAIN items}
  BY DEF entitiesFromConfiguration, itemEntity, items
<1> HIDE DEF entityOf, items
<1> QED
  BY <1>2, <1>3 DEF CollectedEntity

LEMMA BootstrapType ==
  ASSUME ProgramTypeOK, HasRead, pc = "read",
         ~ hasInvalidDefinition, ~ hasInvalidAddress(items)
  PROVE  bootstrap \in BootstrapResult /\ bootstrap # Undefined
<1>1. readPlan(planFile) \in SUBSET TerraformDiff
  BY ReadDiffs DEF HasRead
<1>2. configuration \in Configurations
  BY ReadConfigurationType DEF HasRead, configuration
<1>3. entitiesFromCodebase \cup entitiesFromConfiguration \in SUBSET CollectedEntity
  BY CodeBaseType, ItemsType DEF HasRead
<1> QED
  BY <1>1, <1>2, <1>3, UndefinedIsNoResult DEF bootstrap, BootstrapResult

-----------------------------------------------------------------------------
LEMMA InitProgram == Init => ProgramInv
<1> SUFFICES ASSUME Init PROVE ProgramInv
  OBVIOUS
<1>1. history \in Seq(Disks) /\ Len(history) \in 1 .. MaxChanges + 1
  <2>1. PICK d \in Disks : history = <<d>>
    BY DEF Init
  <2> QED
    BY <2>1, MaxChangesIsNat
<1> QED
  BY <1>1 DEF Init, ProgramInv, ProgramTypeOK, HasRead, Collected

\* While bootstrap has not returned there is nothing to say of its result.
LEMMA NotCollected ==
  ASSUME bootstrapResult' = Undefined, pc' # "decide"
  PROVE  Collected'
BY DEF Collected

\* Every step of the process keeps the invariant ...
LEMMA ParseArgumentsProgram == ASSUME ProgramInv, ParseArguments PROVE ProgramInv'
<1>1. /\ pc = "parse" /\ bootstrapResult = Undefined
      /\ UNCHANGED <<argv, history, readings, bootstrapResult>>
      /\ operationMode' \in {"standard", "reverse"}
      /\ \/ pc' = "exited" /\ exitCode' \in {0, 1}
         \/ pc' = "run" /\ exitCode' = exitCode
  BY DEF ParseArguments, exit, lastMode, ProgramInv, ProgramTypeOK, Collected
<1>2. exitCode = Undefined
  BY <1>1 DEF ProgramInv
<1>3. ProgramTypeOK'
  BY <1>1 DEF ProgramInv, ProgramTypeOK, readings
<1>4. HasRead' /\ Collected'
  BY <1>1, NotCollected DEF HasRead
<1> QED
  BY <1>1, <1>2, <1>3, <1>4, UndefinedIsNoExitCode DEF ProgramInv

LEMMA RunProgram == ASSUME ProgramInv, Run PROVE ProgramInv'
<1>1. /\ pc = "run" /\ bootstrapResult = Undefined
      /\ UNCHANGED <<argv, history, operationMode, readings, bootstrapResult>>
  BY DEF Run, ProgramInv, Collected
<1>2. /\ pc' \in {"exited", "configuration"} /\ exitCode' \in 0 .. 2 \cup {Undefined}
      /\ pc' = "exited" <=> exitCode' # Undefined
  <2>1. CASE Cardinality(passedAt(argv)) # 2
    BY <2>1, UndefinedIsNoExitCode DEF Run, exit
  <2>2. CASE Cardinality(passedAt(argv)) = 2
    BY <1>1, <2>2, ExitType DEF Run
  <2> QED
    BY <2>1, <2>2
<1>3. ProgramTypeOK'
  BY <1>1, <1>2 DEF ProgramInv, ProgramTypeOK, readings
<1>4. HasRead' /\ Collected'
  BY <1>1, <1>2, NotCollected DEF HasRead
<1> QED
  BY <1>2, <1>3, <1>4 DEF ProgramInv

LEMMA ReadConfigurationProgram ==
  ASSUME ProgramInv, ReadConfiguration PROVE ProgramInv'
<1>1. /\ pc = "configuration" /\ bootstrapResult = Undefined
      /\ configurationFile' = disk.configuration
      /\ UNCHANGED <<argv, history, operationMode, planFile, unread, sources,
                     bootstrapResult>>
  BY DEF ReadConfiguration, ProgramInv, Collected
<1>2. /\ readConfigurationThrows(disk.configuration) => pc' = "exited"
      /\ pc' \in {"exited", "plan"} /\ exitCode' \in 0 .. 2 \cup {Undefined}
      /\ pc' = "exited" <=> exitCode' # Undefined
  BY <1>1, ExitType DEF ReadConfiguration
<1>3. ProgramTypeOK' /\ disk.configuration \in ConfigurationFile
  BY <1>1, <1>2, DiskHolds DEF ProgramInv, ProgramTypeOK
<1>4. HasRead'
  BY <1>1, <1>2, <1>3 DEF HasRead
<1> QED
  BY <1>1, <1>2, <1>3, <1>4, NotCollected DEF ProgramInv

LEMMA ReadPlanProgram == ASSUME ProgramInv, ReadPlan PROVE ProgramInv'
<1>1. /\ pc = "plan" /\ bootstrapResult = Undefined
      /\ planFile' = disk.plan
      /\ UNCHANGED <<argv, history, operationMode, configurationFile, unread,
                     sources, bootstrapResult>>
  BY DEF ReadPlan, ProgramInv, Collected
<1>2. /\ readPlanError(disk.plan) # "none" => pc' = "exited"
      /\ pc' \in {"exited", "list"} /\ exitCode' \in 0 .. 2 \cup {Undefined}
      /\ pc' = "exited" <=> exitCode' # Undefined
  BY <1>1, ExitType DEF ReadPlan
<1>3. ProgramTypeOK' /\ disk.plan \in PlanFile
  BY <1>1, <1>2, DiskHolds DEF ProgramInv, ProgramTypeOK
<1>4. HasRead'
  BY <1>1, <1>2, <1>3 DEF HasRead, ProgramInv
<1> QED
  BY <1>1, <1>2, <1>3, <1>4, NotCollected DEF ProgramInv

LEMMA ListCodeBaseProgram == ASSUME ProgramInv, ListCodeBase PROVE ProgramInv'
<1>1. /\ pc = "list" /\ bootstrapResult = Undefined
      /\ unread' \subseteq TerraformFile
      /\ UNCHANGED <<argv, history, operationMode, configurationFile, planFile,
                     sources, bootstrapResult>>
  BY DEF ListCodeBase, terraformFilesIn, ProgramInv, Collected
<1>2. /\ pc' \in {"exited", "read"} /\ exitCode' \in 0 .. 2 \cup {Undefined}
      /\ pc' = "exited" <=> exitCode' # Undefined
  BY <1>1, ExitType DEF ListCodeBase
<1>3. ProgramTypeOK'
  BY <1>1, <1>2 DEF ProgramInv, ProgramTypeOK
<1>4. HasRead'
  BY <1>1, <1>2 DEF HasRead, ProgramInv
<1> QED
  BY <1>1, <1>2, <1>3, <1>4, NotCollected DEF ProgramInv

LEMMA ReadTerraformFileProgram ==
  ASSUME ProgramInv, ReadTerraformFile PROVE ProgramInv'
<1> PICK file \in unread :
      /\ unread' = unread \ {file}
      /\ IF isReadable(disk.codeBase, file)
           THEN sources' = withLinesOf(file) /\ UNCHANGED <<pc, exitCode>>
           ELSE exit(2) /\ UNCHANGED sources
  BY DEF ReadTerraformFile
<1>1. /\ pc = "read" /\ bootstrapResult = Undefined
      /\ UNCHANGED <<argv, history, operationMode, configurationFile, planFile,
                     bootstrapResult>>
  BY DEF ReadTerraformFile, ProgramInv, Collected
<1>2. /\ pc' \in {"exited", "read"} /\ exitCode' \in 0 .. 2 \cup {Undefined}
      /\ pc' = "exited" <=> exitCode' # Undefined
  BY <1>1, UndefinedIsNoExitCode DEF exit, ProgramInv, ProgramTypeOK
<1>3. ProgramTypeOK /\ file \in TerraformFile
  BY DEF ProgramInv, ProgramTypeOK
<1>4. isReadable(disk.codeBase, file) => linesOf(disk.codeBase, file) \in Seq(Line)
  BY <1>3, DiskHolds, SplitLines DEF isReadable, linesOf
<1>5. /\ DOMAIN sources' \subseteq TerraformFile
      /\ \A f \in DOMAIN sources' : sources'[f] \in Seq(Line)
  BY <1>3, <1>4 DEF ProgramTypeOK, withLinesOf
<1>6. ProgramTypeOK'
  BY <1>1, <1>2, <1>3, <1>5 DEF ProgramTypeOK
<1>7. HasRead'
  BY <1>1, <1>2 DEF HasRead, ProgramInv
<1> QED
  BY <1>1, <1>2, <1>6, <1>7, NotCollected DEF ProgramInv

\* bootstrap returns the entities if nothing is wrong with any of them.
LEMMA CollectEntitiesProgram == ASSUME ProgramInv, CollectEntities PROVE ProgramInv'
<1> DEFINE failed == \/ hasInvalidDefinition \/ hasInvalidAddress(items)
                     \/ throwIfConflictIsDetected(entities)
<1>1. /\ pc = "read" /\ continueUnless(failed, "decide")
      /\ bootstrapResult' = IF failed THEN Undefined ELSE bootstrap
      /\ UNCHANGED <<argv, history, operationMode, readings>>
  BY DEF CollectEntities, items, entities
<1>2. /\ failed => pc' = "exited"
      /\ ~ failed => pc' = "decide"
      /\ pc' \in {"exited", "decide"} /\ exitCode' \in 0 .. 2 \cup {Undefined}
      /\ pc' = "exited" <=> exitCode' # Undefined
  <2> HIDE DEF failed
  <2> QED
    BY <1>1, ExitType
<1>3. ~ failed => bootstrap \in BootstrapResult /\ bootstrap # Undefined
  BY <1>1, BootstrapType DEF ProgramInv
<1>4. ProgramTypeOK'
  <2> HIDE DEF failed
  <2> QED
    BY <1>1, <1>2, <1>3 DEF ProgramInv, ProgramTypeOK, readings
<1>5. HasRead'
  BY <1>1, <1>2 DEF HasRead, ProgramInv, readings
<1>6. /\ bootstrap' = bootstrap /\ hasInvalidDefinition' = hasInvalidDefinition
      /\ items' = items /\ entities' = entities
  BY <1>1 DEF readings, bootstrap, hasInvalidDefinition, items, entities, configuration,
              entitiesFromCodebase, entitiesFromConfiguration
<1>7. Collected'
  <2>1. /\ hasInvalidAddress(items)' = hasInvalidAddress(items)
        /\ throwIfConflictIsDetected(entities)' = throwIfConflictIsDetected(entities)
    BY <1>6
  <2> QED
    BY <1>1, <1>2, <1>3, <1>6, <2>1 DEF Collected
<1> QED
  BY <1>2, <1>4, <1>5, <1>7 DEF ProgramInv

\* ... and a step that reads nothing and collects nothing leaves the readings
\* and the result of bootstrap alone.
LEMMA SameReadings ==
  ASSUME ProgramInv, UNCHANGED <<readings, bootstrapResult>>,
         pc' = pc \/ pc' = "exited"
  PROVE  HasRead' /\ Collected'
<1>1. /\ bootstrap' = bootstrap /\ hasInvalidDefinition' = hasInvalidDefinition
      /\ items' = items /\ entities' = entities
  BY DEF readings, bootstrap, hasInvalidDefinition, items, entities, configuration,
         entitiesFromCodebase, entitiesFromConfiguration
<1>2. /\ hasInvalidAddress(items)' = hasInvalidAddress(items)
      /\ throwIfConflictIsDetected(entities)' = throwIfConflictIsDetected(entities)
  BY <1>1
<1>3. HasRead'
  BY DEF HasRead, ProgramInv, readings
<1>4. Collected'
  BY <1>1, <1>2 DEF Collected, ProgramInv
<1> QED
  BY <1>3, <1>4

LEMMA DecideProgram == ASSUME ProgramInv, Decide PROVE ProgramInv'
<1>1. /\ pc = "decide" /\ pc' = "exited" /\ exitCode' \in 0 .. 2
      /\ UNCHANGED <<argv, history, operationMode, readings, bootstrapResult>>
  BY OutcomeCodes DEF Decide, exit
<1>2. ProgramTypeOK'
  BY <1>1 DEF ProgramInv, ProgramTypeOK, readings
<1> QED
  BY <1>1, <1>2, SameReadings, UndefinedIsNoExitCode DEF ProgramInv

LEMMA StepProgram == ASSUME ProgramInv, Step PROVE ProgramInv'
BY ParseArgumentsProgram, RunProgram, ReadConfigurationProgram, ReadPlanProgram,
   ListCodeBaseProgram, ReadTerraformFileProgram, CollectEntitiesProgram,
   DecideProgram DEF Step

\* Other processes only write to the disk.
LEMMA ChangeDiskProgram == ASSUME ProgramInv, ChangeDisk PROVE ProgramInv'
<1>1. /\ history' \in Seq(Disks) /\ Len(history') \in 1 .. MaxChanges + 1
      /\ UNCHANGED <<argv, pc, operationMode, readings, bootstrapResult, exitCode>>
  BY MaxChangesIsNat DEF ChangeDisk, ProgramInv, ProgramTypeOK
<1>2. ProgramTypeOK'
  BY <1>1 DEF ProgramInv, ProgramTypeOK, readings
<1> QED
  BY <1>1, <1>2, SameReadings DEF ProgramInv

LEMMA StutterProgram ==
  ASSUME ProgramInv, UNCHANGED <<history, pc, operationMode, readings,
                                 bootstrapResult, exitCode>>
  PROVE  ProgramInv'
<1>1. ProgramTypeOK'
  BY DEF ProgramInv, ProgramTypeOK, readings
<1> QED
  BY <1>1, SameReadings DEF ProgramInv

LEMMA NextProgram == ProgramInv /\ [Next]_vars => ProgramInv'
BY StepProgram, ChangeDiskProgram, StutterProgram DEF Next, vars

\* Nothing changes the arguments of the process.
LEMMA SameCall == [Next]_vars => argv' = argv
BY DEF Next, Step, ParseArguments, Run, ReadConfiguration, ReadPlan, ListCodeBase,
       ReadTerraformFile, CollectEntities, Decide, ChangeDisk, vars

\* On any disk, however often it changes, the state of the process is of its
\* types: what it reads are lines, what bootstrap returns are diffs, entities
\* and rules, and it ends with 0, 1 or 2 (approval.command.ts 31-72,
\* bootstrapping.service.ts 61-89).
THEOREM TypeCorrect == Spec => []TypeOK
<1> DEFINE Inv == ProgramInv /\ argv \in Arguments
<1>1. Init => Inv
  BY InitProgram DEF Init
<1>2. Inv /\ [Next]_vars => Inv'
  BY NextProgram, SameCall
<1>3. Inv => TypeOK
  BY DEF ProgramInv, TypeOK
<1> HIDE DEF Inv
<1> QED
  BY <1>1, <1>2, <1>3, PTL DEF Spec

-----------------------------------------------------------------------------
\* A block of a file that was read is one of the entities of the code base.
LEMMA BlockIsEntity ==
  ASSUME ~ hasInvalidDefinition,
         NEW file \in DOMAIN sources, NEW k \in headersOf(sources[file])
  PROVE  declaredAt(file, sources[file], k) \in entitiesFromCodebase
<1> DEFINE found == [entityInfo |-> sources[file][k].entityInfo,
                     decorator  |-> decoratorAt(sources[file], k), at |-> k]
<1>1. found \in findTerraformEntitiesInFile(sources[file])
  BY DEF hasInvalidDefinition, findTerraformEntitiesInFile
<1>2. [entityInfo |-> found.entityInfo, decorator |-> found.decorator,
       at |-> <<file, found.at>>] \in entitiesFromCodebase
  <2> DEFINE inFile(f) == {[entityInfo |-> entity.entityInfo,
                            decorator |-> entity.decorator, at |-> <<f, entity.at>>] :
                             entity \in findTerraformEntitiesInFile(sources[f])}
  <2>1. [entityInfo |-> found.entityInfo, decorator |-> found.decorator,
         at |-> <<file, found.at>>] \in inFile(file)
    BY <1>1
  <2>2. entitiesFromCodebase = UNION {inFile(f) : f \in DOMAIN sources}
    BY DEF entitiesFromCodebase, blockEntity
  <2> HIDE DEF inFile, found
  <2> QED
    BY <2>1, <2>2
<1> QED
  BY <1>2 DEF declaredAt

\* An item of the configuration is one of its entities.
LEMMA ItemIsEntity ==
  ASSUME NEW i \in DOMAIN configuration.requireApprovalItems
  PROVE  \E entity \in entitiesFromConfiguration :
           /\ entity.entityInfo = requireApprovalItemToTerraformEntity(
                                    configuration.requireApprovalItems[i]).entityInfo
           /\ entity.at = <<".terraapprove.yaml", i>>
<1> DEFINE entityOf(j) == requireApprovalItemToTerraformEntity(
                            configuration.requireApprovalItems[j])
           entity == [entityInfo |-> entityOf(i).entityInfo,
                      decorator |-> entityOf(i).decorator,
                      at |-> <<".terraapprove.yaml", i>>]
<1>1. entitiesFromConfiguration =
        {[entityInfo |-> entityOf(j).entityInfo, decorator |-> entityOf(j).decorator,
          at |-> <<".terraapprove.yaml", j>>] :
           j \in DOMAIN configuration.requireApprovalItems}
  BY DEF entitiesFromConfiguration, itemEntity
<1> HIDE DEF entityOf
<1>2. entity \in entitiesFromConfiguration
  BY <1>1
<1>3. entity.entityInfo = entityOf(i).entityInfo /\ entity.at = <<".terraapprove.yaml", i>>
  OBVIOUS
<1> QED
  BY <1>2, <1>3 DEF entityOf

LEMMA CollectedApart == ProgramTypeOK /\ Collected => ItemsConcernNoDeclaredEntity
<1> SUFFICES ASSUME ProgramTypeOK, Collected, bootstrapResult # Undefined,
                    NEW i \in DOMAIN configuration.requireApprovalItems
             PROVE  LET item == requireApprovalItemToTerraformEntity(
                                  configuration.requireApprovalItems[i])
                    IN  /\ \A file \in DOMAIN sources :
                             \A k \in headersOf(sources[file]) :
                               sources[file][k].entityInfo # item.entityInfo
                        /\ \A j \in DOMAIN configuration.requireApprovalItems \ {i} :
                             requireApprovalItemToTerraformEntity(
                               configuration.requireApprovalItems[j]).entityInfo
                                 # item.entityInfo
  BY DEF ItemsConcernNoDeclaredEntity
<1>1. ~ hasInvalidDefinition
  BY DEF Collected
<1>2. \A one, other \in entitiesFromCodebase \cup entitiesFromConfiguration :
        one.at # other.at => one.entityInfo # other.entityInfo
  BY DEF Collected, entities, throwIfConflictIsDetected
<1>3. ASSUME NEW file \in DOMAIN sources, NEW k \in headersOf(sources[file])
      PROVE  <<file, k>> # <<".terraapprove.yaml", i>>
  BY ConfigurationIsNoCode DEF ProgramTypeOK
<1>4. ASSUME NEW file \in DOMAIN sources, NEW k \in headersOf(sources[file])
      PROVE  sources[file][k].entityInfo
               # requireApprovalItemToTerraformEntity(
                   configuration.requireApprovalItems[i]).entityInfo
  <2> DEFINE block == declaredAt(file, sources[file], k)
  <2>1. block \in entitiesFromCodebase
    BY <1>1, BlockIsEntity
  <2>2. block.entityInfo = sources[file][k].entityInfo /\ block.at = <<file, k>>
    BY DEF declaredAt
  <2> QED
    BY <1>2, <1>3, <2>1, <2>2, ItemIsEntity
<1>5. ASSUME NEW j \in DOMAIN configuration.requireApprovalItems \ {i}
      PROVE  requireApprovalItemToTerraformEntity(
               configuration.requireApprovalItems[j]).entityInfo
                 # requireApprovalItemToTerraformEntity(
                     configuration.requireApprovalItems[i]).entityInfo
  <2>1. <<".terraapprove.yaml", j>> # <<".terraapprove.yaml", i>>
    OBVIOUS
  <2> QED
    BY <1>2, <2>1, ItemIsEntity
<1> QED
  BY <1>4, <1>5

\* Whatever the disk holds and however it changes, a plan gets a verdict only
\* if no item of the configuration names an entity the code base declares or
\* another item names (bootstrapping.service.ts 91-124).
THEOREM ItemsAreApart == Spec => []ItemsConcernNoDeclaredEntity
<1>1. ProgramInv => ItemsConcernNoDeclaredEntity
  BY CollectedApart DEF ProgramInv
<1> QED
  BY <1>1, InitProgram, NextProgram, PTL DEF Spec

-----------------------------------------------------------------------------
(***************************************************************************)
(* The evidence of a decision, seen from the gate: an entity is known by   *)
(* what it names, and concerns the changes whose diffs it is paired with.  *)
(***************************************************************************)
LEMMA EntityOfBlock ==
  ASSUME ~ hasInvalidDefinition, NEW entity \in entitiesFromCodebase
  PROVE  \E file \in DOMAIN sources : \E i \in headersOf(sources[file]) :
           entity = declaredAt(file, sources[file], i)
<1> DEFINE inFile(f) == {[entityInfo |-> found.entityInfo,
                          decorator |-> found.decorator, at |-> <<f, found.at>>] :
                           found \in findTerraformEntitiesInFile(sources[f])}
<1>1. PICK file \in DOMAIN sources : entity \in inFile(file)
  <2>1. entitiesFromCodebase = UNION {inFile(f) : f \in DOMAIN sources}
    BY DEF entitiesFromCodebase, blockEntity
  <2> HIDE DEF inFile
  <2> QED
    BY <2>1
<1>2. PICK found \in findTerraformEntitiesInFile(sources[file]) :
        entity = [entityInfo |-> found.entityInfo, decorator |-> found.decorator,
                  at |-> <<file, found.at>>]
  BY <1>1
<1>3. PICK i \in headersOf(sources[file]) :
        found = [entityInfo |-> sources[file][i].entityInfo,
                 decorator |-> decoratorAt(sources[file], i), at |-> i]
  <2>1. findTerraformEntitiesInFile(sources[file]) =
          {[entityInfo |-> sources[file][i].entityInfo,
            decorator |-> decoratorAt(sources[file], i), at |-> i] :
              i \in headersOf(sources[file])}
    BY DEF hasInvalidDefinition, findTerraformEntitiesInFile
  <2> QED
    BY <1>2, <2>1
<1>4. entity = declaredAt(file, sources[file], i)
  BY <1>2, <1>3 DEF declaredAt
<1> QED
  BY <1>4

LEMMA EntityOfItem ==
  ASSUME NEW entity \in entitiesFromConfiguration
  PROVE  \E i \in DOMAIN items : entity = itemEntity(items[i], i)
BY DEF entitiesFromConfiguration, items

LEMMA PlaceOfEntity ==
  ASSUME ProgramTypeOK, ~ hasInvalidDefinition,
         NEW one \in entities, NEW other \in entities, one.at = other.at
  PROVE  one = other
<1> DEFINE block(file, i) == declaredAt(file, sources[file], i)
           item(i) == itemEntity(items[i], i)
<1>1. \A entity \in entities :
        \/ \E file \in DOMAIN sources : \E i : entity = block(file, i)
        \/ \E i : entity = item(i)
  BY EntityOfBlock, EntityOfItem DEF entities
<1>2. \A file, i : block(file, i).at = <<file, i>>
  BY DEF declaredAt
<1>3. \A i : item(i).at = <<".terraapprove.yaml", i>>
  BY DEF itemEntity
<1>4. ".terraapprove.yaml" \notin DOMAIN sources
  BY ConfigurationIsNoCode DEF ProgramTypeOK
<1> HIDE DEF block, item
<1>5. CASE \E i : one = item(i)
  <2>1. PICK i : one = item(i)
    BY <1>5
  <2>2. CASE \E j : other = item(j)
    <3>1. PICK j : other = item(j)
      BY <2>2
    <3>2. i = j
      BY <1>3, <2>1, <3>1
    <3> QED
      BY <2>1, <3>1, <3>2
  <2>3. CASE \E file \in DOMAIN sources : \E j : other = block(file, j)
    <3> PICK file \in DOMAIN sources : \E j : other = block(file, j)
      BY <2>3
    <3>1. PICK j : other = block(file, j)
      OBVIOUS
    <3>2. file = ".terraapprove.yaml"
      BY <1>2, <1>3, <2>1, <3>1
    <3> QED
      BY <1>4, <3>2
  <2> QED
    BY <1>1, <2>2, <2>3
<1>6. CASE \E file \in DOMAIN sources : \E i : one = block(file, i)
  <2> PICK file \in DOMAIN sources : \E i : one = block(file, i)
    BY <1>6
  <2>1. PICK i : one = block(file, i)
    OBVIOUS
  <2>2. CASE \E j : other = item(j)
    <3>1. PICK j : other = item(j)
      BY <2>2
    <3>2. file = ".terraapprove.yaml"
      BY <1>2, <1>3, <2>1, <3>1
    <3> QED
      BY <1>4, <3>2
  <2>3. CASE \E f \in DOMAIN sources : \E j : other = block(f, j)
    <3> PICK f \in DOMAIN sources : \E j : other = block(f, j)
      BY <2>3
    <3>1. PICK j : other = block(f, j)
      OBVIOUS
    <3>2. f = file /\ j = i
      BY <1>2, <2>1, <3>1
    <3> QED
      BY <2>1, <3>1, <3>2
  <2> QED
    BY <1>1, <2>2, <2>3
<1> QED
  BY <1>1, <1>5, <1>6

LEMMA DistinctEntities ==
  ASSUME ProgramInv, bootstrapResult # Undefined
  PROVE  /\ terraformEntities \subseteq CollectedEntity
         /\ \A one, other \in terraformEntities :
              one.entityInfo = other.entityInfo => one = other
<1>1. terraformEntities = entities /\ ~ hasInvalidDefinition
      /\ ~ throwIfConflictIsDetected(entities)
  BY DEF ProgramInv, Collected, terraformEntities, bootstrap, entities
<1>2. terraformEntities \subseteq CollectedEntity
  BY DEF ProgramInv, ProgramTypeOK, BootstrapResult, terraformEntities
<1>3. ASSUME NEW one \in entities, NEW other \in entities,
             one.entityInfo = other.entityInfo
      PROVE  one = other
  <2>1. one.at = other.at
    BY <1>1, <1>3 DEF throwIfConflictIsDetected
  <2> QED
    BY <1>1, <2>1, PlaceOfEntity DEF ProgramInv
<1> QED
  BY <1>1, <1>2, <1>3

\* The changes the gate sees and what they are to it.
changesOfPlan == planFile.resource_changes

LEMMA GateEvidence ==
  ASSUME ProgramInv, bootstrapResult # Undefined
  PROVE  /\ evidence = [mode |-> mode,
                        changes |-> {changesOfPlan[i] : i \in keptChanges(changesOfPlan)},
                        entities |-> terraformEntities,
                        rules |-> bootstrapResult.configuration.global]
         /\ evidence \in Evidence /\ evidence # Undefined
         /\ bootstrapResult.configuration.global \in GlobalConfiguration
<1>1. evidence = [mode |-> mode,
                  changes |-> {changesOfPlan[i] : i \in keptChanges(changesOfPlan)},
                  entities |-> terraformEntities,
                  rules |-> bootstrapResult.configuration.global]
  BY DEF evidence, changesOfPlan
<1>2. {changesOfPlan[i] : i \in keptChanges(changesOfPlan)} \subseteq ResourceChange
  BY ReadChange DEF ProgramInv, HasRead, changesOfPlan
<1>3. bootstrapResult.configuration.global \in GlobalConfiguration
  BY DEF ProgramInv, ProgramTypeOK, BootstrapResult, Configurations
<1>4. mode \in {"require_approval", "safe_to_apply"}
  BY DEF mode
<1>5. evidence \in Evidence
  BY <1>1, <1>2, <1>3, <1>4, DistinctEntities DEF Evidence
<1> QED
  BY <1>1, <1>3, <1>5, UndefinedIsNoResult

LEMMA GateActions ==
  ASSUME NEW change
  PROVE  Gate!performedActions(change) = performedBy(change.actions)
BY DEF Gate!performedActions, Gate!nameInPlan, Gate!Action, Action, performedBy, nameOf

LEMMA GateConcerned ==
  ASSUME ProgramInv, bootstrapResult # Undefined,
         NEW i \in keptChanges(changesOfPlan)
  PROVE  Gate!concerned(changesOfPlan[i])
           = counterparts(toTerraformDiff(changesOfPlan[i]), terraformEntities)
<1> DEFINE change == changesOfPlan[i]
           diff == toTerraformDiff(change)
<1>1. /\ diff.providerType = change.type /\ diff.userProvidedName = change.name
      /\ IF change.module_address \in {Undefined, Null, <<>>}
           THEN diff.firstLevelModule = Undefined
           ELSE /\ diff.firstLevelModule = change.module_address[2]
                /\ diff.firstLevelModule # Undefined
  BY ReadChange DEF ProgramInv, HasRead, changesOfPlan
<1> HIDE DEF change, diff
<1>2. \A entity : Gate!concerns(entity, change)
                    <=> plainResourceMatch(diff, entity) \/ moduleEntityMatch(diff, entity)
  BY <1>1 DEF Gate!concerns, plainResourceMatch, moduleEntityMatch
<1>3. evidence.entities = terraformEntities
  BY GateEvidence
<1> QED
  BY <1>2, <1>3 DEF Gate!concerned, counterparts, change, diff

\* The outcome of a mode for the one entity a change concerns says whether the
\* gate's rules demand an approval, unless it throws.
LEMMA GateDemand ==
  ASSUME ProgramInv, bootstrapResult # Undefined,
         NEW i \in keptChanges(changesOfPlan), Gate!isKnown(changesOfPlan[i])
  PROVE  LET change == changesOfPlan[i]
             diff == toTerraformDiff(change)
             entity == findDiffCounterpartInEntities(diff, terraformEntities)
             rules == bootstrapResult.configuration
             outcome == IF mode = "require_approval"
                          THEN doesDiffRequireApproval(rules, diff, entity)
                          ELSE isNotSafeToApply(rules, diff, entity)
         IN  /\ outcome \in Outcome
             /\ outcome = "yes" => Gate!needsApproval(change)
             /\ outcome = "no" => ~ Gate!needsApproval(change)
<1> DEFINE change == changesOfPlan[i]
           diff == toTerraformDiff(change)
           entity == findDiffCounterpartInEntities(diff, terraformEntities)
           rules == bootstrapResult.configuration
           done == performedBy(change.actions)
<1>1. performs(diff, done) /\ diff.providerType = change.type
  BY ReadChange DEF ProgramInv, HasRead, changesOfPlan
<1>2. Gate!concerned(change) = {entity} /\ entity \in terraformEntities
  <2>1. /\ Gate!concerned(change) = counterparts(diff, terraformEntities)
        /\ counterparts(diff, terraformEntities) # {}
    BY GateConcerned DEF Gate!isKnown
  <2>2. /\ \A e \in terraformEntities : e.entityInfo \in ItemEntityInfo
        /\ \A one, other \in terraformEntities :
             one.entityInfo = other.entityInfo => one = other
    BY DistinctEntities DEF CollectedEntity
  <2>3. PICK e : e \in counterparts(diff, terraformEntities)
    BY <2>1
  <2> HIDE DEF diff, change
  <2>4. counterparts(diff, terraformEntities) = {e}
        /\ findDiffCounterpartInEntities(diff, terraformEntities) = e
    BY <2>2, <2>3, OneCounterpart
  <2>5. e \in terraformEntities
    BY <2>3 DEF counterparts
  <2> QED
    BY <2>1, <2>4, <2>5
<1>3. entity.decorator \in DecoratorType
  BY <1>2, DistinctEntities DEF CollectedEntity
<1>4. rules.global \in GlobalConfiguration /\ evidence.rules = rules.global
      /\ evidence.mode = mode
  BY GateEvidence
<1>5. Gate!performedActions(change) = done
  BY GateActions
<1> HIDE DEF change, diff, entity, rules, done
<1>6. CASE mode = "require_approval"
  <2>1. Gate!isProtected(change) <=>
          \/ /\ rules.global.requireApprovalItems # Undefined
             /\ \E j \in DOMAIN rules.global.requireApprovalItems :
                  /\ rules.global.requireApprovalItems[j].providerType = diff.providerType
                  /\ touches(rules.global.requireApprovalItems[j].actions, done)
          \/ /\ rules.global.requireApprovalActions # Undefined
             /\ touches(rules.global.requireApprovalActions, done)
          \/ /\ entity.decorator.type = "manual_approval"
             /\ touches(entity.decorator.matchActions, done)
    BY <1>1, <1>2, <1>4, <1>5 DEF Gate!isProtected, Gate!matches, Gate!protects, touches
  <2>2. Gate!needsApproval(change) <=> Gate!isProtected(change)
    BY <1>4, <1>6 DEF Gate!needsApproval
  <2>3. LET outcome == doesDiffRequireApproval(rules, diff, entity)
        IN  /\ outcome \in Outcome
            /\ outcome = "yes" => Gate!isProtected(change)
            /\ outcome = "no" => ~ Gate!isProtected(change)
    BY <1>1, <1>3, <1>4, <2>1, RequireOutcome
  <2> QED
    BY <1>6, <2>2, <2>3 DEF change, diff, entity, rules
<1>7. CASE mode # "require_approval"
  <2>1. safeActionsForResource(rules, entity) = Gate!exemptActions(change)
    BY <1>2, <1>3, <1>4, SafeActions DEF Gate!exemptActions, Gate!Action, Action
  <2>2. Gate!isExempt(change) <=>
          \/ /\ rules.global.safeToApplyItems # Undefined
             /\ \E j \in DOMAIN rules.global.safeToApplyItems :
                  /\ rules.global.safeToApplyItems[j].providerType = diff.providerType
                  /\ contains(rules.global.safeToApplyItems[j].actions, done)
          \/ done \subseteq safeActionsForResource(rules, entity)
    BY <1>1, <1>4, <1>5, <2>1 DEF Gate!isExempt, Gate!matches, Gate!covers, contains
  <2>3. Gate!needsApproval(change) <=> ~ Gate!isExempt(change)
    BY <1>4, <1>7 DEF Gate!needsApproval
  <2>4. LET outcome == isNotSafeToApply(rules, diff, entity)
        IN  /\ outcome \in Outcome
            /\ outcome = "yes" => ~ Gate!isExempt(change)
            /\ outcome = "no" => Gate!isExempt(change)
    BY <1>1, <1>3, <1>4, <2>2, SafeOutcome
  <2> QED
    BY <1>7, <2>3, <2>4 DEF change, diff, entity, rules
<1> QED
  BY <1>6, <1>7

\* A diff without counterpart that is no deletion is a change of another code
\* base.
LEMMA GateUnknown ==
  ASSUME ProgramInv, bootstrapResult # Undefined
  PROVE  ~ hasUnknownDiff(terraformDiffMap, terraformEntities) <=> Gate!isPlanOfCodeBase
<1>1. terraformDiffMap = {toTerraformDiff(changesOfPlan[i]) : i \in keptChanges(changesOfPlan)}
  BY DEF ProgramInv, Collected, bootstrap, terraformDiffMap, readPlan, changesOfPlan
<1>2. evidence.changes = {changesOfPlan[i] : i \in keptChanges(changesOfPlan)}
  BY GateEvidence
<1>3. ASSUME NEW i \in keptChanges(changesOfPlan)
      PROVE  /\ counterparts(toTerraformDiff(changesOfPlan[i]), terraformEntities) = {}
                  <=> ~ Gate!isKnown(changesOfPlan[i])
             /\ toTerraformDiff(changesOfPlan[i]).diffType = "delete"
                  <=> Gate!performedActions(changesOfPlan[i]) = {"DELETE"}
  <2>1. performs(toTerraformDiff(changesOfPlan[i]), performedBy(changesOfPlan[i].actions))
    BY ReadChange DEF ProgramInv, HasRead, changesOfPlan
  <2> QED
    BY <2>1, GateConcerned, GateActions, OnlyDeletionsDelete DEF Gate!isKnown
<1>4. hasUnknownDiff(terraformDiffMap, terraformEntities) <=>
        \E i \in keptChanges(changesOfPlan) :
          /\ counterparts(toTerraformDiff(changesOfPlan[i]), terraformEntities) = {}
          /\ toTerraformDiff(changesOfPlan[i]).diffType # "delete"
  BY <1>1 DEF hasUnknownDiff
<1>5. Gate!isPlanOfCodeBase <=>
        \A i \in keptChanges(changesOfPlan) :
          Gate!isKnown(changesOfPlan[i])
            \/ Gate!performedActions(changesOfPlan[i]) = {"DELETE"}
  BY <1>2 DEF Gate!isPlanOfCodeBase
<1> QED
  BY <1>3, <1>4, <1>5

\* The decision over all pairs is the gate's decision over all known changes.
LEMMA GateVerdict ==
  ASSUME ProgramInv, bootstrapResult # Undefined
  PROVE  /\ approvalNeeded \in Outcome
         /\ approvalNeeded = "yes" =>
              \E change \in evidence.changes :
                Gate!isKnown(change) /\ Gate!needsApproval(change)
         /\ approvalNeeded = "no" =>
              \A change \in evidence.changes :
                Gate!isKnown(change) => ~ Gate!needsApproval(change)
<1> DEFINE rules == bootstrapResult.configuration
           pairs == generateDiffEntityPairs(terraformDiffMap, terraformEntities)
           diffOf(i) == toTerraformDiff(changesOfPlan[i])
           entityOf(i) == findDiffCounterpartInEntities(diffOf(i), terraformEntities)
           outcomeOf(diff, entity) ==
             IF mode = "require_approval"
               THEN doesDiffRequireApproval(rules, diff, entity)
               ELSE isNotSafeToApply(rules, diff, entity)
           known == {i \in keptChanges(changesOfPlan) : Gate!isKnown(changesOfPlan[i])}
           outcomes == {outcomeOf(diffOf(i), entityOf(i)) : i \in known}
<1>1. approvalNeeded = someOf({outcomeOf(pair[1], pair[2]) : pair \in pairs})
  BY DEF approvalNeeded, isApprovalRequired, requireApprovalMode, safeToApplyMode
<1>2. pairs = {<<diffOf(i), entityOf(i)>> : i \in known}
  <2>1. terraformDiffMap = {diffOf(i) : i \in keptChanges(changesOfPlan)}
    BY DEF ProgramInv, Collected, bootstrap, terraformDiffMap, readPlan, changesOfPlan
  <2>2. \A i \in keptChanges(changesOfPlan) :
          Gate!isKnown(changesOfPlan[i]) <=> counterparts(diffOf(i), terraformEntities) # {}
    BY GateConcerned DEF Gate!isKnown
  <2> HIDE DEF diffOf
  <2> QED
    BY <2>1, <2>2 DEF generateDiffEntityPairs
<1>3. {outcomeOf(pair[1], pair[2]) : pair \in pairs} = outcomes
  <2> HIDE DEF outcomeOf, diffOf, entityOf, known, pairs
  <2>1. ASSUME NEW i \in known
        PROVE  \E pair \in pairs : pair[1] = diffOf(i) /\ pair[2] = entityOf(i)
    <3>1. <<diffOf(i), entityOf(i)>> \in pairs
      BY <1>2
    <3> QED
      BY <3>1
  <2>2. ASSUME NEW pair \in pairs
        PROVE  \E i \in known : pair[1] = diffOf(i) /\ pair[2] = entityOf(i)
    BY <1>2
  <2> QED
    BY <2>1, <2>2
<1>4. \A i \in known :
        /\ outcomeOf(diffOf(i), entityOf(i)) \in Outcome
        /\ outcomeOf(diffOf(i), entityOf(i)) = "yes" => Gate!needsApproval(changesOfPlan[i])
        /\ outcomeOf(diffOf(i), entityOf(i)) = "no" => ~ Gate!needsApproval(changesOfPlan[i])
  BY GateDemand
<1>5. evidence.changes = {changesOfPlan[i] : i \in keptChanges(changesOfPlan)}
  BY GateEvidence
<1> HIDE DEF outcomeOf, diffOf, entityOf, pairs
<1>6. outcomes \in SUBSET Outcome
  BY <1>4
<1>7. /\ someOf(outcomes) \in Outcome
      /\ someOf(outcomes) = "yes" => "yes" \in outcomes
      /\ someOf(outcomes) = "no" => outcomes \subseteq {"no"}
  <2> HIDE DEF outcomes
  <2> QED
    BY <1>6, SomeOf
<1>8. approvalNeeded = someOf(outcomes)
  BY <1>1, <1>3
<1>9. ASSUME "yes" \in outcomes
      PROVE  \E change \in evidence.changes :
               Gate!isKnown(change) /\ Gate!needsApproval(change)
  BY <1>4, <1>5, <1>9
<1>10. ASSUME outcomes \subseteq {"no"}, NEW change \in evidence.changes,
              Gate!isKnown(change)
       PROVE  ~ Gate!needsApproval(change)
  BY <1>4, <1>5, <1>10
<1> HIDE DEF outcomes
<1> QED
  BY <1>7, <1>8, <1>9, <1>10

-----------------------------------------------------------------------------
(***************************************************************************)
(* The steps of the program are steps of the gate.                         *)
(***************************************************************************)
LEMMA Decisions ==
  /\ exitCode = Undefined => decision = "pending"
  /\ exitCode = 0 => decision = "apply"
  /\ exitCode = 1 => decision = "approve"
  /\ exitCode = 2 => decision = "refuse"
BY UndefinedIsNoExitCode DEF decision

LEMMA NextDecisions ==
  /\ exitCode' = Undefined => decision' = "pending"
  /\ exitCode' = 0 => decision' = "apply"
  /\ exitCode' = 1 => decision' = "approve"
  /\ exitCode' = 2 => decision' = "refuse"
BY UndefinedIsNoExitCode DEF decision

LEMMA InitGate == Init => Gate!Init
BY Decisions DEF Init, Gate!Init, evidence

\* Until bootstrap returns the program can only refuse.
LEMMA QuietStep ==
  ASSUME bootstrapResult = Undefined, bootstrapResult' = Undefined,
         exitCode = Undefined, exitCode' \in {Undefined, 2}
  PROVE  [Gate!Next]_(Gate!vars)
<1>1. evidence = Undefined /\ evidence' = Undefined
  BY DEF evidence
<1>2. CASE exitCode' = Undefined
  BY <1>1, <1>2, Decisions, NextDecisions DEF Gate!vars
<1>3. CASE exitCode' = 2
  <2>1. Gate!Refuse
    BY <1>1, <1>3, Decisions, NextDecisions DEF Gate!Refuse
  <2> QED
    BY <2>1 DEF Gate!Next
<1> QED
  BY <1>2, <1>3

\* Steps that leave what was read and the mode alone leave the evidence alone.
LEMMA SameEvidence ==
  ASSUME UNCHANGED <<operationMode, readings, bootstrapResult>>
  PROVE  evidence' = evidence
BY DEF evidence, mode, readings, terraformEntities

LEMMA CollectEntitiesGate ==
  ASSUME ProgramInv, CollectEntities
  PROVE  [Gate!Next]_(Gate!vars)
<1>1. /\ pc = "read" /\ bootstrapResult = Undefined /\ exitCode = Undefined
      /\ exitCode' \in {Undefined, 2}
      /\ bootstrapResult' # Undefined => exitCode' = Undefined
  BY DEF CollectEntities, continueUnless, exit, ProgramInv, Collected
<1>2. CASE bootstrapResult' = Undefined
  BY <1>1, <1>2, QuietStep
<1>3. CASE bootstrapResult' # Undefined
  <2>1. ProgramInv'
    BY CollectEntitiesProgram
  <2>2. evidence' # Undefined
    <3>1. /\ evidence' = [mode |-> mode',
                          changes |-> {changesOfPlan'[i] : i \in keptChanges(changesOfPlan')},
                          entities |-> terraformEntities',
                          rules |-> bootstrapResult'.configuration.global]
      BY <1>3 DEF evidence, changesOfPlan
    <3>2. planFile' \in PlanFile /\ readPlanError(planFile') = "none"
      BY <1>3, <2>1 DEF ProgramInv, HasRead
    <3>3. {changesOfPlan'[i] : i \in keptChanges(changesOfPlan')} \subseteq ResourceChange
      BY <3>2, ReadChange DEF changesOfPlan
    <3>4. bootstrapResult' \in BootstrapResult
      BY <1>3, <2>1 DEF ProgramInv, ProgramTypeOK
    <3>5. /\ terraformEntities' \in SUBSET CollectedEntity
          /\ bootstrapResult'.configuration.global \in GlobalConfiguration
      BY <3>4 DEF BootstrapResult, Configurations, terraformEntities
    <3>6. mode' \in {"require_approval", "safe_to_apply"}
      BY DEF mode
    <3>7. evidence' \in Evidence
      BY <3>1, <3>3, <3>5, <3>6 DEF Evidence
    <3> QED
      BY <3>7, UndefinedIsNoResult
  <2>3. evidence = Undefined
    BY <1>1 DEF evidence
  <2>4. Gate!Gather
    BY <1>1, <1>3, <2>2, <2>3, Decisions, NextDecisions DEF Gate!Gather
  <2> QED
    BY <2>4 DEF Gate!Next
<1> QED
  BY <1>2, <1>3

\* The exit code is the gate's decision, or 2.
LEMMA DecideGate ==
  ASSUME ProgramInv, Decide
  PROVE  [Gate!Next]_(Gate!vars)
<1>1. /\ pc = "decide" /\ bootstrapResult # Undefined /\ exitCode = Undefined
      /\ decision = "pending" /\ evidence' = evidence
  BY Decisions, SameEvidence DEF Decide, ProgramInv, Collected
<1>2. evidence # Undefined
  BY <1>1, GateEvidence
<1>3. CASE exitCode' = 2
  <2>1. Gate!Refuse
    BY <1>1, <1>3, NextDecisions DEF Gate!Refuse
  <2> QED
    BY <2>1 DEF Gate!Next
<1>4. CASE exitCode' # 2
  <2>1. /\ ~ hasUnknownDiff(terraformDiffMap, terraformEntities)
        /\ exitCode' = exitCodeOf(approvalNeeded)
    BY <1>4 DEF Decide, exit
  <2>2. Gate!isPlanOfCodeBase
    BY <1>1, <2>1, GateUnknown
  <2>3. approvalNeeded \in Outcome
    BY <1>1, GateVerdict
  <2>4. CASE approvalNeeded = "yes"
    <3>1. decision' = "approve"
      BY <2>1, <2>4, NextDecisions DEF exitCodeOf
    <3>2. Gate!Approve
      BY <1>1, <1>2, <2>2, <2>4, <3>1, GateVerdict DEF Gate!Approve
    <3> QED
      BY <3>2 DEF Gate!Next
  <2>5. CASE approvalNeeded = "no"
    <3>1. decision' = "apply"
      BY <2>1, <2>5, NextDecisions DEF exitCodeOf
    <3>2. Gate!Apply
      BY <1>1, <1>2, <2>2, <2>5, <3>1, GateVerdict DEF Gate!Apply
    <3> QED
      BY <3>2 DEF Gate!Next
  <2>6. CASE approvalNeeded = "throws"
    BY <1>4, <2>1, <2>6 DEF exitCodeOf
  <2> QED
    BY <2>3, <2>4, <2>5, <2>6 DEF Outcome
<1> QED
  BY <1>3, <1>4

\* Before bootstrap returns nothing but a wrong call ends with 0 or 1.
LEMMA StepGate ==
  ASSUME ProgramInv, isProperCall, Step
  PROVE  [Gate!Next]_(Gate!vars)
<1>1. CASE CollectEntities
  BY <1>1, CollectEntitiesGate
<1>2. CASE Decide
  BY <1>2, DecideGate
<1>3. CASE \/ ParseArguments \/ Run \/ ReadConfiguration \/ ReadPlan
           \/ ListCodeBase \/ ReadTerraformFile
  <2>1. /\ pc \in {"parse", "run", "configuration", "plan", "list", "read"}
        /\ bootstrapResult' = bootstrapResult
    BY <1>3 DEF ParseArguments, Run, ReadConfiguration, ReadPlan, ListCodeBase,
                ReadTerraformFile
  <2>2. bootstrapResult = Undefined /\ exitCode = Undefined
    BY <2>1 DEF ProgramInv, Collected
  <2>3. exitCode' = exitCode \/ exitCode' = 2
    BY <1>3 DEF ParseArguments, Run, ReadConfiguration, ReadPlan, ListCodeBase,
                ReadTerraformFile, continueUnless, exit, isProperCall
  <2> QED
    BY <2>1, <2>2, <2>3, QuietStep
<1> QED
  BY <1>1, <1>2, <1>3 DEF Step

LEMMA UnseenStep ==
  ASSUME UNCHANGED <<operationMode, readings, bootstrapResult, exitCode>>
  PROVE  UNCHANGED Gate!vars
BY SameEvidence DEF Gate!vars, decision

LEMMA NextGate ==
  ProgramInv /\ isProperCall /\ [Next]_vars => [Gate!Next]_(Gate!vars)
<1> SUFFICES ASSUME ProgramInv, isProperCall, [Next]_vars
             PROVE  [Gate!Next]_(Gate!vars)
  OBVIOUS
<1>1. CASE Step
  BY <1>1, StepGate
<1>2. CASE ChangeDisk \/ UNCHANGED vars
  BY <1>2, UnseenStep DEF ChangeDisk, vars, readings
<1> QED
  BY <1>1, <1>2 DEF Next

\* Called with two operands and known flags the program is the gate, for every
\* plan, code base and configuration and whatever happens to the disk: it lets
\* a plan be applied, or asks for an approval, only on evidence it has read and
\* that justifies it by the rules as they are stated on the plan's changes
\* (approval.command.ts 31-72, approval.service.ts 16-92, both use cases). A
\* wrong call is no decision and ends with 0 or 1.
THEOREM GateIsImplemented == isProperCall /\ Spec => ImplementsGate
<1> DEFINE Inv == ProgramInv /\ isProperCall
<1>1. Init => ProgramInv /\ Gate!Init
  BY InitProgram, InitGate
<1>2. Inv /\ [Next]_vars => Inv'
  <2>1. ASSUME [Next]_vars
        PROVE  isProperCall' = isProperCall
    BY <2>1, SameCall DEF isProperCall
  <2> QED
    BY <2>1, NextProgram
<1>3. Inv /\ [Next]_vars => [Gate!Next]_(Gate!vars)
  BY NextGate
<1>4. isProperCall /\ ProgramInv => Inv
  OBVIOUS
<1> HIDE DEF Inv
<1> QED
  BY <1>1, <1>2, <1>3, <1>4, PTL DEF Spec, ImplementsGate, Gate!Spec

-----------------------------------------------------------------------------
(***************************************************************************)
(* When things were read: what the program holds was on the disk once, the *)
(* configuration before the plan and the plan before the code base.        *)
(***************************************************************************)
isReadAt(c, p) ==
  /\ configurationFile = history[c].configuration
  /\ planFile = history[p].plan

\* The code base was listed when the disk held its l-th contents; every file
\* that has been read was read then or later.
isListedAt(l) ==
  /\ history[l].codeBase.kind = "directory"
  /\ DOMAIN sources \cup unread = terraformFilesIn(history[l].codeBase)
  /\ \A file \in DOMAIN sources : \E r \in l .. Len(history) :
       /\ file \in terraformFilesIn(history[r].codeBase)
       /\ isReadable(history[r].codeBase, file)
       /\ sources[file] = linesOf(history[r].codeBase, file)

isReadInOrder ==
  \E c \in DOMAIN history : \E p \in c .. Len(history) : \E l \in p .. Len(history) :
    isReadAt(c, p) /\ isListedAt(l)

ReadInOrder ==
  /\ pc \in {"parse", "run", "configuration", "plan", "list"} => DOMAIN sources = {}
  /\ pc = "plan" =>
       \E c \in DOMAIN history : configurationFile = history[c].configuration
  /\ pc = "list" =>
       \E c \in DOMAIN history : \E p \in c .. Len(history) : isReadAt(c, p)
  /\ pc \in {"read", "decide"} \/ bootstrapResult # Undefined => isReadInOrder
  /\ bootstrapResult # Undefined => unread = {}

LEMMA HistoryType ==
  ASSUME ProgramTypeOK
  PROVE  /\ DOMAIN history = 1 .. Len(history) /\ Len(history) \in Nat
         /\ Len(history) \in DOMAIN history
BY MaxChangesIsNat DEF ProgramTypeOK

LEMMA InitReadings == Init => ReadInOrder
BY DEF Init, ReadInOrder

\* The first readings, each of what the disk holds now.
LEMMA ReadConfigurationReadings ==
  ASSUME ProgramInv, ReadInOrder, ReadConfiguration
  PROVE  ReadInOrder'
<1>1. /\ pc = "configuration" /\ pc' \in {"plan", "exited"}
      /\ configurationFile' = history[Len(history)].configuration
      /\ bootstrapResult' = Undefined
      /\ UNCHANGED <<history, planFile, unread, sources>>
  BY DEF ReadConfiguration, continueUnless, exit, disk, ProgramInv, Collected
<1>2. Len(history) \in DOMAIN history
  BY HistoryType DEF ProgramInv
<1> QED
  BY <1>1, <1>2 DEF ReadInOrder

LEMMA ReadPlanReadings ==
  ASSUME ProgramInv, ReadInOrder, ReadPlan
  PROVE  ReadInOrder'
<1>1. /\ pc = "plan" /\ pc' \in {"list", "exited"}
      /\ planFile' = history[Len(history)].plan
      /\ bootstrapResult' = Undefined
      /\ UNCHANGED <<history, configurationFile, unread, sources>>
  BY DEF ReadPlan, continueUnless, exit, disk, ProgramInv, Collected
<1>2. PICK c \in DOMAIN history : configurationFile = history[c].configuration
  BY <1>1 DEF ReadInOrder
<1>3. Len(history) \in c .. Len(history)
  BY <1>2, HistoryType DEF ProgramInv
<1>4. isReadAt(c, Len(history))'
  BY <1>1, <1>2 DEF isReadAt
<1>5. (\E a \in DOMAIN history : \E p \in a .. Len(history) : isReadAt(a, p))'
  BY <1>1, <1>2, <1>3, <1>4
<1> QED
  BY <1>1, <1>5 DEF ReadInOrder

LEMMA ListCodeBaseReadings ==
  ASSUME ProgramInv, ReadInOrder, ListCodeBase
  PROVE  ReadInOrder'
<1>1. /\ pc = "list" /\ pc' \in {"read", "exited"} /\ bootstrapResult' = Undefined
      /\ pc' = "read" => history[Len(history)].codeBase.kind = "directory"
      /\ unread' = terraformFilesIn(history[Len(history)].codeBase)
      /\ UNCHANGED <<history, configurationFile, planFile, sources>>
  BY DEF ListCodeBase, continueUnless, exit, disk, ProgramInv, Collected
<1>2. DOMAIN sources = {}
  BY <1>1 DEF ReadInOrder
<1>3. PICK c \in DOMAIN history : \E p \in c .. Len(history) : isReadAt(c, p)
  BY <1>1 DEF ReadInOrder
<1>4. PICK p \in c .. Len(history) : isReadAt(c, p)
  BY <1>3
<1>5. isReadAt(c, p)'
  BY <1>1, <1>4 DEF isReadAt
<1>6. pc' = "read" => isListedAt(Len(history))'
  BY <1>1, <1>2 DEF isListedAt
<1>7. Len(history) \in p .. Len(history)
  BY <1>4, HistoryType DEF ProgramInv
<1>8. pc' = "read" => isReadInOrder'
  BY <1>1, <1>3, <1>4, <1>5, <1>6, <1>7 DEF isReadInOrder
<1> QED
  BY <1>1, <1>8 DEF ReadInOrder

\* A file is read as the disk has it now, and that is not before the listing.
LEMMA ReadTerraformFileReadings ==
  ASSUME ProgramInv, ReadInOrder, ReadTerraformFile
  PROVE  ReadInOrder'
<1>1. /\ pc = "read" /\ bootstrapResult' = Undefined /\ pc' \in {"read", "exited"}
      /\ UNCHANGED <<history, configurationFile, planFile>>
  BY DEF ReadTerraformFile, exit, ProgramInv, Collected
<1>2. CASE pc' = "exited"
  BY <1>1, <1>2 DEF ReadInOrder
<1>3. CASE pc' = "read"
  <2>1. PICK file \in unread :
          /\ unread' = unread \ {file}
          /\ isReadable(disk.codeBase, file)
          /\ sources' = withLinesOf(file)
    BY <1>1, <1>3 DEF ReadTerraformFile, exit
  <2>c. PICK c \in DOMAIN history : \E p \in c .. Len(history) :
         \E l \in p .. Len(history) : isReadAt(c, p) /\ isListedAt(l)
    BY <1>1 DEF ReadInOrder, isReadInOrder
  <2>p. PICK p \in c .. Len(history) : \E l \in p .. Len(history) : isReadAt(c, p) /\ isListedAt(l)
    BY <2>c
  <2>2. PICK l \in p .. Len(history) : isReadAt(c, p) /\ isListedAt(l)
    BY <2>p
  <2>3. /\ DOMAIN sources' = DOMAIN sources \cup {file}
        /\ sources'[file] = linesOf(disk.codeBase, file)
        /\ \A f \in DOMAIN sources \ {file} : sources'[f] = sources[f]
    BY <2>1 DEF withLinesOf
  <2>4. DOMAIN sources' \cup unread' = terraformFilesIn(history[l].codeBase)
    BY <2>1, <2>2, <2>3 DEF isListedAt
  <2>5. Len(history) \in l .. Len(history)
    BY <2>2, HistoryType DEF ProgramInv
  <2>6. file \in terraformFilesIn(disk.codeBase)
    <3>1. file \in TerraformFile
      BY <2>1 DEF ProgramInv, ProgramTypeOK
    <3> QED
      BY <2>1, <3>1 DEF isReadable, terraformFilesIn
  <2>7. ASSUME NEW f \in DOMAIN sources'
        PROVE  \E r \in l .. Len(history) :
                 /\ f \in terraformFilesIn(history[r].codeBase)
                 /\ isReadable(history[r].codeBase, f)
                 /\ sources'[f] = linesOf(history[r].codeBase, f)
    <3>1. CASE f = file
      BY <2>1, <2>3, <2>5, <2>6, <3>1 DEF disk
    <3>2. CASE f # file
      BY <2>2, <2>3, <2>7, <3>2 DEF isListedAt
    <3> QED
      BY <3>1, <3>2
  <2>8. isListedAt(l)'
    BY <1>1, <2>2, <2>4, <2>7 DEF isListedAt
  <2>9. isReadAt(c, p)'
    BY <1>1, <2>2 DEF isReadAt
  <2>10. isReadInOrder'
    BY <1>1, <2>2, <2>8, <2>9 DEF isReadInOrder
  <2> QED
    BY <1>1, <1>3, <2>10 DEF ReadInOrder
<1> QED
  BY <1>1, <1>2, <1>3

\* Steps that read nothing, and writers, who only add to the history.
LEMMA SameReadInOrder ==
  ASSUME UNCHANGED <<history, readings>>
  PROVE  isReadInOrder' = isReadInOrder
BY DEF isReadInOrder, isReadAt, isListedAt, readings

LEMMA StepReadings == ASSUME ProgramInv, ReadInOrder, Step PROVE ReadInOrder'
<1>1. CASE ParseArguments \/ Run
  <2>1. /\ pc \in {"parse", "run"} /\ pc' \in {"run", "configuration", "exited"}
        /\ bootstrapResult' = Undefined /\ sources' = sources
    BY <1>1 DEF ParseArguments, Run, continueUnless, exit, readings, ProgramInv, Collected
  <2> QED
    BY <2>1 DEF ReadInOrder
<1>2. CASE CollectEntities
  <2>1. pc = "read" /\ pc' \in {"decide", "exited"} /\ unread = {}
        /\ UNCHANGED <<history, readings>>
    BY <1>2 DEF CollectEntities, continueUnless, exit
  <2> QED
    BY <2>1, SameReadInOrder DEF ReadInOrder, readings
<1>3. CASE Decide
  <2>1. /\ pc = "decide" /\ pc' = "exited"
        /\ UNCHANGED <<history, readings, bootstrapResult>>
    BY <1>3 DEF Decide, exit
  <2> QED
    BY <2>1, SameReadInOrder DEF ReadInOrder, readings
<1> QED
  BY <1>1, <1>2, <1>3, ReadConfigurationReadings, ReadPlanReadings,
     ListCodeBaseReadings, ReadTerraformFileReadings DEF Step

LEMMA ChangeDiskReadings == ASSUME ProgramInv, ReadInOrder, ChangeDisk PROVE ReadInOrder'
<1>1. PICK d \in Disks : history' = Append(history, d)
  BY DEF ChangeDisk
<1>2. /\ UNCHANGED <<pc, configurationFile, planFile, unread, sources, bootstrapResult>>
  BY DEF ChangeDisk, readings
<1>3. /\ Len(history') = Len(history) + 1 /\ Len(history) \in Nat
      /\ DOMAIN history = 1 .. Len(history) /\ DOMAIN history' = 1 .. Len(history')
      /\ \A i \in DOMAIN history : history'[i] = history[i]
  BY <1>1, HistoryType DEF ProgramInv, ProgramTypeOK
<1>4. ASSUME NEW c \in DOMAIN history, NEW p \in c .. Len(history), isReadAt(c, p)
      PROVE  isReadAt(c, p)' /\ c \in DOMAIN history' /\ p \in c .. Len(history')
  <2>1. c \in DOMAIN history /\ p \in DOMAIN history
    BY <1>3
  <2> QED
    BY <1>2, <1>3, <1>4, <2>1 DEF isReadAt
<1>5. ASSUME NEW l \in DOMAIN history, isListedAt(l) PROVE isListedAt(l)'
  <2>1. history'[l] = history[l]
    BY <1>3
  <2>2. ASSUME NEW file \in DOMAIN sources
        PROVE  \E r \in l .. Len(history') :
                 /\ file \in terraformFilesIn(history'[r].codeBase)
                 /\ isReadable(history'[r].codeBase, file)
                 /\ sources[file] = linesOf(history'[r].codeBase, file)
    <3>1. PICK r \in l .. Len(history) :
            /\ file \in terraformFilesIn(history[r].codeBase)
            /\ isReadable(history[r].codeBase, file)
            /\ sources[file] = linesOf(history[r].codeBase, file)
      BY <1>5 DEF isListedAt
    <3>2. r \in DOMAIN history /\ r \in l .. Len(history')
      BY <1>3, <3>1
    <3> QED
      BY <1>3, <3>1, <3>2
  <2> QED
    BY <1>2, <1>5, <2>1, <2>2 DEF isListedAt
<1>6. isReadInOrder => isReadInOrder'
  <2> SUFFICES ASSUME isReadInOrder PROVE isReadInOrder'
    OBVIOUS
  <2>c. PICK c \in DOMAIN history : \E p \in c .. Len(history) :
         \E l \in p .. Len(history) : isReadAt(c, p) /\ isListedAt(l)
    BY DEF isReadInOrder
  <2>p. PICK p \in c .. Len(history) : \E l \in p .. Len(history) : isReadAt(c, p) /\ isListedAt(l)
    BY <2>c
  <2>1. PICK l \in p .. Len(history) : isReadAt(c, p) /\ isListedAt(l)
    BY <2>p
  <2>2. l \in DOMAIN history /\ l \in p .. Len(history')
    BY <1>3, <2>1
  <2> QED
    BY <1>4, <1>5, <2>1, <2>2 DEF isReadInOrder
<1>7. pc = "plan" => \E c \in DOMAIN history' : configurationFile' = history'[c].configuration
  <2> SUFFICES ASSUME pc = "plan"
               PROVE  \E c \in DOMAIN history' : configurationFile' = history'[c].configuration
    OBVIOUS
  <2>1. PICK c \in DOMAIN history : configurationFile = history[c].configuration
    BY DEF ReadInOrder
  <2>2. c \in DOMAIN history'
    BY <1>3, <2>1
  <2> QED
    BY <1>2, <1>3, <2>1, <2>2
<1>8. pc = "list" =>
        (\E c \in DOMAIN history : \E p \in c .. Len(history) : isReadAt(c, p))'
  BY <1>4 DEF ReadInOrder
<1> QED
  BY <1>2, <1>6, <1>7, <1>8 DEF ReadInOrder

LEMMA ReadingsInvariance == Spec => [](ProgramInv /\ ReadInOrder)
<1>1. Init => ProgramInv /\ ReadInOrder
  BY InitProgram, InitReadings
<1>2. ProgramInv /\ ReadInOrder /\ [Next]_vars => (ProgramInv /\ ReadInOrder)'
  <2>1. ASSUME ReadInOrder, UNCHANGED vars PROVE ReadInOrder'
    BY <2>1, SameReadInOrder DEF ReadInOrder, vars, readings, isReadAt
  <2> QED
    BY <2>1, NextProgram, StepReadings, ChangeDiskReadings DEF Next
<1> QED
  BY <1>1, <1>2, PTL DEF Spec

\* Where nothing is left to be read, every listed file was read once it was
\* listed, and its blocks are entities.
LEMMA ReadWhole == ProgramInv /\ ReadInOrder => CodeBaseIsReadWhole
<1>1. ASSUME ProgramInv, ReadInOrder, bootstrapResult # Undefined
      PROVE  CodeBaseIsReadWhole
  <2>1. /\ ~ hasInvalidDefinition /\ unread = {}
        /\ entitiesFromCodebase \subseteq terraformEntities
    BY <1>1 DEF ProgramInv, Collected, ReadInOrder, terraformEntities, bootstrap
  <2>c. PICK c \in DOMAIN history : \E p \in c .. Len(history) :
         \E l \in p .. Len(history) : isListedAt(l)
    BY <1>1 DEF ReadInOrder, isReadInOrder
  <2>p. PICK p \in c .. Len(history) : \E l \in p .. Len(history) : isListedAt(l)
    BY <2>c
  <2>2. PICK l \in p .. Len(history) : isListedAt(l)
    BY <2>p
  <2>3. l \in DOMAIN history
    BY <1>1, <2>2, HistoryType DEF ProgramInv
  <2>4. ASSUME NEW file \in terraformFilesIn(history[l].codeBase)
        PROVE  \E r \in l .. Len(history) :
                 /\ isReadable(history[r].codeBase, file)
                 /\ LET lines == linesOf(history[r].codeBase, file)
                    IN  \A k \in headersOf(lines) :
                          declaredAt(file, lines, k) \in terraformEntities
    <3>1. file \in DOMAIN sources
      BY <2>1, <2>2, <2>4 DEF isListedAt
    <3>2. \A k \in headersOf(sources[file]) :
            declaredAt(file, sources[file], k) \in terraformEntities
      BY <2>1, <3>1, BlockIsEntity
    <3> QED
      BY <2>2, <3>1, <3>2 DEF isListedAt
  <2> QED
    BY <2>2, <2>3, <2>4 DEF CodeBaseIsReadWhole, isListedAt
<1> QED
  BY <1>1 DEF CodeBaseIsReadWhole

\* Whatever is written to the disk and whenever, evidence holds every block of
\* every file of the code base as it was listed at one moment, each file as it
\* was when it was read (codebase-reader.service.ts 13-69).
THEOREM CodeBaseIsAlwaysReadWhole == Spec => []CodeBaseIsReadWhole
BY ReadWhole, ReadingsInvariance, PTL

\* The moments of the readings are those of the evidence.
LEMMA EvidenceInOrder == ProgramInv /\ ReadInOrder => EvidenceIsInOrder
<1>1. ASSUME ProgramInv, ReadInOrder, bootstrapResult # Undefined
      PROVE  EvidenceIsInOrder
  <2>1. /\ ~ hasInvalidDefinition
        /\ terraformEntities = entitiesFromCodebase \cup entitiesFromConfiguration
        /\ terraformDiffMap = readPlan(planFile)
        /\ bootstrapResult.configuration = configuration
    BY <1>1 DEF ProgramInv, Collected, terraformEntities, terraformDiffMap, bootstrap
  <2>c. PICK c \in DOMAIN history : \E p \in c .. Len(history) :
         \E l \in p .. Len(history) : isReadAt(c, p) /\ isListedAt(l)
    BY <1>1 DEF ReadInOrder, isReadInOrder
  <2>p. PICK p \in c .. Len(history) : \E l \in p .. Len(history) : isReadAt(c, p) /\ isListedAt(l)
    BY <2>c
  <2>2. PICK l \in p .. Len(history) : isReadAt(c, p) /\ isListedAt(l)
    BY <2>p
  <2> DEFINE rules == readConfiguration(history[c].configuration)
  <2>3. configuration = rules /\ planFile = history[p].plan
    BY <2>2 DEF configuration, isReadAt
  <2>r. /\ ~ readConfigurationThrows(history[c].configuration)
        /\ readPlanError(history[p].plan) = "none"
    BY <1>1, <2>2 DEF ProgramInv, HasRead, isReadAt
  <2>4. ASSUME NEW entity \in entitiesFromCodebase
        PROVE  \E r \in p .. Len(history) :
                 \E file \in terraformFilesIn(history[r].codeBase) :
                   LET lines == linesOf(history[r].codeBase, file)
                   IN  /\ isReadable(history[r].codeBase, file)
                       /\ \E k \in headersOf(lines) : entity = declaredAt(file, lines, k)
    <3>1. PICK file \in DOMAIN sources : \E k \in headersOf(sources[file]) :
            entity = declaredAt(file, sources[file], k)
      BY <2>1, EntityOfBlock
    <3>2. PICK r \in l .. Len(history) :
            /\ file \in terraformFilesIn(history[r].codeBase)
            /\ isReadable(history[r].codeBase, file)
            /\ sources[file] = linesOf(history[r].codeBase, file)
      BY <2>2 DEF isListedAt
    <3>3. r \in p .. Len(history)
      BY <1>1, <2>2, <3>2, HistoryType DEF ProgramInv
    <3> QED
      BY <3>1, <3>2, <3>3
  <2>5. ASSUME NEW entity \in entitiesFromConfiguration
        PROVE  \E i \in DOMAIN rules.requireApprovalItems :
                 entity = itemEntity(rules.requireApprovalItems[i], i)
    BY <2>3, EntityOfItem DEF items
  <2> HIDE DEF rules
  <2> QED
    BY <2>1, <2>2, <2>3, <2>r, <2>4, <2>5 DEF EvidenceIsInOrder, rules
<1> QED
  BY <1>1 DEF EvidenceIsInOrder

\* Whatever is written to the disk and whenever, evidence is one configuration,
\* one plan that is not older, and nothing but the items of that configuration
\* and blocks that are not older than the plan (bootstrapping.service.ts 65-89).
THEOREM EvidenceIsAlwaysInOrder == Spec => []EvidenceIsInOrder
BY EvidenceInOrder, ReadingsInvariance, PTL

-----------------------------------------------------------------------------
(***************************************************************************)
(* The program inside the script. What is proved of the program needs a    *)
(* call with two operands and known flags. The script makes such a call    *)
(* whenever its inputs are locations, and sees to nothing else.            *)
(***************************************************************************)
\* The script is at most as far as the program, which it calls once, with the
\* words its inputs hold and the flag of the mode they ask for.
CallsProgram ==
  /\ scriptPc = "validate" => pc = "parse"
  /\ scriptPc = "command" => argv = commandLine /\ pc # "exited"
  /\ scriptPc = "evaluate" => pc = "exited"
  /\ pc # "parse" => /\ argv = commandLine
                     /\ isProperCall => operationMode = lastMode(argv)

\* The exit code of a call with two operands is a verdict.
HasDecided ==
  exitCode \in {0, 1} /\ isProperCall =>
    /\ bootstrapResult # Undefined
    /\ ~ hasUnknownDiff(terraformDiffMap, terraformEntities)
    /\ exitCode = exitCodeOf(approvalNeeded)

\* The script's last step says what the program's exit code says, if it can be
\* written, or fails.
HasReported ==
  /\ scriptPc # "exited" => output = "" /\ scriptExit = Undefined
  /\ scriptPc = "exited" =>
       \/ scriptExit \in {1, 2} /\ exitCode \notin {0, 1} /\ output = ""
       \/ /\ scriptExit = 0 /\ exitCode = 0
          /\ output = IF inputs.GITHUB_OUTPUT = "writable" THEN "false" ELSE ""
       \/ /\ scriptExit = 0 /\ exitCode = 1
          /\ output = IF inputs.GITHUB_OUTPUT = "writable" THEN "true" ELSE ""

ScriptInv ==
  /\ ProgramInv
  /\ inputs \in Inputs
  /\ scriptPc \in {"validate", "command", "evaluate", "exited"}
  /\ CallsProgram /\ HasDecided /\ HasReported

-----------------------------------------------------------------------------
\* Two words that are neither options nor commands nor "--" are the operands of
\* the program, and the flag behind them is the mode.
LEMMA LocationsAreOperands ==
  ASSUME areLocations, argv = commandLine
  PROVE  /\ isProperCall
         /\ lastMode(argv) = IF effectiveMode = "standard" THEN "standard" ELSE "reverse"
<1> DEFINE one == inputs.INPUT_TF_CODE_DIR
           two == inputs.INPUT_TF_PLAN_JSON_FILE
<1>1. /\ one \notin Option \cup Command \cup {"--"}
      /\ two \notin Option \cup Command \cup {"--"}
  BY DEF areLocations
<1>2. /\ argv = <<one, two, flag_mode>>
      /\ flag_mode = IF effectiveMode = "standard" THEN "--standard" ELSE "--reverse"
  BY DEF commandLine, flag_mode
<1> HIDE DEF one, two
<1>3. /\ DOMAIN argv = 1 .. 3
      /\ argv[1] = one /\ argv[2] = two /\ argv[3] = flag_mode
  BY <1>2
<1>4. \A i \in 1 .. 3 : i = 1 \/ i = 2 \/ i = 3
  OBVIOUS
<1>5. \A i \in 1 .. 3 : ~ isLiteral(argv, i)
  <2> SUFFICES ASSUME NEW i \in 1 .. 3, NEW j \in 1 .. (i - 1) PROVE argv[j] # "--"
    BY DEF isLiteral
  <2>1. j = 1 \/ j = 2
    OBVIOUS
  <2> QED
    BY <1>1, <1>3, <2>1
<1>6. argv[3] \in Flag /\ argv[3] \notin {"--help", "--unknown", "--"} /\ argv[3] \in Option
  BY <1>2, <1>3 DEF Flag, Option
<1>7. optionsAt(argv) = {3}
  BY <1>1, <1>3, <1>4, <1>5, <1>6 DEF optionsAt
<1>8. operandsAt(argv) = {1, 2}
  BY <1>1, <1>3, <1>4, <1>5, <1>6 DEF operandsAt
<1>9. ASSUME NEW n, NEW word \in Command PROVE ~ leads(argv, n, word)
  BY <1>1, <1>3, <1>8 DEF leads, leadingAt
<1>10. passedAt(argv) = {1, 2}
  BY <1>8, <1>9 DEF passedAt, Command
<1>11. Cardinality({1, 2}) = 2
  <2>1. Cardinality({1}) = 1 /\ IsFiniteSet({1})
    BY FS_Singleton
  <2>2. {1, 2} = {1} \cup {2} /\ 2 \notin {1}
    OBVIOUS
  <2> QED
    BY <2>1, <2>2, FS_AddElement
<1>12. \A i \in DOMAIN argv : argv[i] # "--help"
  BY <1>1, <1>3, <1>4, <1>6 DEF Option
<1>13. ~ showsHelp(argv)
  BY <1>9, <1>12 DEF showsHelp, Command
<1>14. ~ isUsageError(argv)
  BY <1>6, <1>7, <1>9, <1>10, <1>11 DEF isUsageError, Command
<1>15. lastMode(argv) = IF effectiveMode = "standard" THEN "standard" ELSE "reverse"
  BY <1>2, <1>3, <1>7 DEF lastMode
<1> QED
  BY <1>10, <1>11, <1>13, <1>14, <1>15 DEF isProperCall

\* The verdict does not change after it is taken.
LEMMA SameVerdict ==
  ASSUME HasDecided, UNCHANGED <<operationMode, bootstrapResult, exitCode>>,
         exitCode = Undefined \/ UNCHANGED argv
  PROVE  HasDecided'
<1>1. CASE exitCode = Undefined
  BY <1>1, UndefinedIsNoExitCode DEF HasDecided
<1>2. CASE UNCHANGED argv
  BY <1>2 DEF HasDecided, isProperCall, terraformDiffMap,
              terraformEntities, approvalNeeded, mode
<1> QED
  BY <1>1, <1>2

\* Only the last step of a proper call ends it with 0 or 1.
LEMMA StepDecides == ASSUME ProgramInv, Step PROVE HasDecided'
<1>1. UNCHANGED argv /\ exitCode = Undefined
  BY DEF Step, ParseArguments, Run, ReadConfiguration, ReadPlan, ListCodeBase,
         ReadTerraformFile, CollectEntities, Decide, ProgramInv
<1>2. CASE Decide
  <2>1. /\ UNCHANGED <<operationMode, bootstrapResult>> /\ bootstrapResult # Undefined
        /\ IF hasUnknownDiff(terraformDiffMap, terraformEntities)
             THEN exitCode' = 2 ELSE exitCode' = exitCodeOf(approvalNeeded)
    BY <1>2 DEF Decide, exit, ProgramInv, Collected
  <2>2. /\ terraformDiffMap' = terraformDiffMap
        /\ terraformEntities' = terraformEntities
        /\ approvalNeeded' = approvalNeeded
    BY <2>1 DEF terraformDiffMap, terraformEntities, approvalNeeded, mode
  <2> QED
    BY <2>1, <2>2 DEF HasDecided
<1>3. CASE \/ ParseArguments \/ Run \/ ReadConfiguration \/ ReadPlan
           \/ ListCodeBase \/ ReadTerraformFile \/ CollectEntities
  <2>1. isProperCall => exitCode' \in {Undefined, 2}
    BY <1>1, <1>3
    DEF ParseArguments, Run, ReadConfiguration, ReadPlan, ListCodeBase,
        ReadTerraformFile, CollectEntities, continueUnless, exit, isProperCall
  <2>2. isProperCall' = isProperCall
    BY <1>1 DEF isProperCall
  <2> QED
    BY <2>1, <2>2, UndefinedIsNoExitCode DEF HasDecided
<1> QED
  BY <1>2, <1>3 DEF Step

LEMMA ScriptInitInv == ScriptInit => ScriptInv /\ Gate!Init
<1> SUFFICES ASSUME ScriptInit PROVE ScriptInv /\ Gate!Init
  OBVIOUS
<1>1. ProgramInv /\ Gate!Init /\ pc = "parse" /\ exitCode = Undefined
  BY InitProgram, InitGate DEF ScriptInit, Init
<1>2. Undefined \notin {0, 1}
  BY UndefinedIsNoExitCode
<1> QED
  BY <1>1, <1>2
  DEF ScriptInit, ScriptInv, CallsProgram, HasDecided, HasReported

\* A step of the script, as the gate sees it.
gateStep == [areLocations => Gate!Next]_(Gate!vars)

LEMMA ValidateInputsInv ==
  ASSUME ScriptInv, ValidateInputs PROVE ScriptInv' /\ gateStep
<1>1. /\ scriptPc = "validate" /\ pc = "parse" /\ exitCode = Undefined
      /\ output = "" /\ scriptExit = Undefined
      /\ UNCHANGED <<inputs, output, history, pc, operationMode, readings,
                     bootstrapResult, exitCode>>
      /\ \/ scriptPc' = "exited" /\ scriptExit' \in {1, 2}
         \/ scriptPc' = "command" /\ argv' = commandLine /\ UNCHANGED scriptExit
  BY DEF ValidateInputs, scriptExits, ScriptInv, ProgramInv, CallsProgram, HasReported
<1>2. ProgramInv'
  BY <1>1, StutterProgram DEF ScriptInv
<1>3. commandLine' = commandLine
  BY <1>1 DEF commandLine, flag_mode, effectiveMode
<1>4. CallsProgram' /\ HasReported'
  <2>1. exitCode' \notin {0, 1}
    <3>1. Undefined \notin {0, 1}
      BY UndefinedIsNoExitCode
    <3> QED
      BY <1>1, <3>1, Zenon
  <2>2. CallsProgram'
    BY <1>1, <1>3 DEF CallsProgram
  <2>3. HasReported'
    BY <1>1, <2>1 DEF HasReported
  <2> QED
    BY <2>2, <2>3
<1>5. HasDecided'
  BY <1>1, SameVerdict DEF ScriptInv
<1> QED
  BY <1>1, <1>2, <1>4, <1>5, UnseenStep DEF ScriptInv, gateStep

LEMMA RunCommandInv ==
  ASSUME ScriptInv, RunCommand PROVE ScriptInv' /\ gateStep
<1>1. /\ scriptPc = "command" /\ argv = commandLine /\ Step /\ ProgramInv
      /\ scriptPc' = IF pc' = "exited" THEN "evaluate" ELSE "command"
      /\ UNCHANGED <<inputs, output, scriptExit>>
  BY DEF RunCommand, ScriptInv, CallsProgram
<1>2. areLocations => isProperCall
  BY <1>1, LocationsAreOperands
<1>3. gateStep /\ ProgramInv' /\ HasDecided'
  BY <1>1, <1>2, StepGate, StepProgram, StepDecides DEF gateStep
<1>4. argv' = argv /\ commandLine' = commandLine
  BY <1>1
  DEF Step, ParseArguments, Run, ReadConfiguration, ReadPlan, ListCodeBase,
      ReadTerraformFile, CollectEntities, Decide, commandLine, flag_mode, effectiveMode
<1>5. isProperCall' = isProperCall
  BY <1>4 DEF isProperCall
<1>6. isProperCall => operationMode' = lastMode(argv)
  <2>1. CASE ParseArguments
    BY <2>1 DEF ParseArguments, isProperCall
  <2>2. CASE ~ ParseArguments
    <3>1. pc # "parse" /\ operationMode' = operationMode
      BY <1>1, <2>2
      DEF Step, Run, ReadConfiguration, ReadPlan, ListCodeBase, ReadTerraformFile,
          CollectEntities, Decide
    <3> QED
      BY <3>1 DEF ScriptInv, CallsProgram
  <2> QED
    BY <2>1, <2>2
<1>7. CallsProgram' /\ HasReported'
  BY <1>1, <1>4, <1>5, <1>6 DEF ScriptInv, CallsProgram, HasReported
<1> QED
  BY <1>1, <1>3, <1>7 DEF ScriptInv

LEMMA EvaluateExitCodeInv ==
  ASSUME ScriptInv, EvaluateExitCode PROVE ScriptInv' /\ gateStep
<1>1. /\ scriptPc = "evaluate" /\ scriptPc' = "exited" /\ output = "" /\ pc = "exited"
      /\ UNCHANGED <<inputs, vars>>
      /\ \/ scriptExit' = 1 /\ exitCode \notin {0, 1} /\ output' = ""
         \/ /\ scriptExit' = 0 /\ exitCode = 0
            /\ output' = IF inputs.GITHUB_OUTPUT = "writable" THEN "false" ELSE ""
         \/ /\ scriptExit' = 0 /\ exitCode = 1
            /\ output' = IF inputs.GITHUB_OUTPUT = "writable" THEN "true" ELSE ""
  <2>1. scriptPc = "evaluate" /\ output = "" /\ pc = "exited" /\ UNCHANGED <<inputs, vars>>
    BY DEF EvaluateExitCode, ScriptInv, CallsProgram, HasReported
  <2>2. CASE exitCode = 0
    BY <2>1, <2>2 DEF EvaluateExitCode, scriptExits, writesOutput
  <2>3. CASE exitCode = 1
    BY <2>1, <2>3 DEF EvaluateExitCode, scriptExits, writesOutput
  <2>4. CASE exitCode \notin {0, 1}
    BY <2>1, <2>4 DEF EvaluateExitCode, scriptExits
  <2> QED
    BY <2>2, <2>3, <2>4
<1>2. /\ ProgramInv' /\ HasDecided'
  BY <1>1, StutterProgram, SameVerdict DEF ScriptInv, vars
<1>3. commandLine' = commandLine /\ isProperCall' = isProperCall
  BY <1>1 DEF commandLine, flag_mode, effectiveMode, isProperCall, vars
<1>4. CallsProgram' /\ HasReported'
  BY <1>1, <1>3 DEF ScriptInv, CallsProgram, HasReported, vars
<1> QED
  BY <1>1, <1>2, <1>4, UnseenStep DEF ScriptInv, vars, gateStep

\* Writing to the disk and stuttering.
LEMMA OtherProcessesInv ==
  ASSUME ScriptInv, UNCHANGED scriptVars, ChangeDisk \/ UNCHANGED vars
  PROVE  ScriptInv' /\ gateStep
<1>1. UNCHANGED <<inputs, scriptPc, output, scriptExit, argv, pc, operationMode,
                  readings, bootstrapResult, exitCode>>
  BY DEF scriptVars, ChangeDisk, vars
<1>2. ProgramInv' /\ HasDecided'
  BY <1>1, ChangeDiskProgram, StutterProgram, SameVerdict DEF ScriptInv, vars
<1>3. commandLine' = commandLine /\ isProperCall' = isProperCall
  BY <1>1 DEF commandLine, flag_mode, effectiveMode, isProperCall
<1>4. CallsProgram' /\ HasReported'
  BY <1>1, <1>3 DEF ScriptInv, CallsProgram, HasReported
<1> QED
  BY <1>1, <1>2, <1>4, UnseenStep DEF ScriptInv, gateStep

LEMMA ScriptNextInv ==
  ScriptInv /\ [ScriptNext]_allVars => ScriptInv' /\ [areLocations => Gate!Next]_(Gate!vars)
BY ValidateInputsInv, RunCommandInv, EvaluateExitCodeInv, OtherProcessesInv
DEF ScriptNext, ScriptStep, allVars, gateStep

LEMMA ScriptInvariance == ScriptSpec => []ScriptInv
BY ScriptInitInv, ScriptNextInv, PTL DEF ScriptSpec

\* With the script around the program, and whatever it calls it with, evidence
\* still is a whole code base and in the order of the readings (validate-plan.sh
\* 20-24, bootstrapping.service.ts 65-89).
THEOREM ScriptReadsInOrder == ScriptSpec => [](CodeBaseIsReadWhole /\ EvidenceIsInOrder)
<1>1. ScriptInit => ScriptInv /\ ReadInOrder
  BY ScriptInitInv, InitReadings DEF ScriptInit
<1>2. ASSUME ScriptInv, ReadInOrder, [ScriptNext]_allVars
      PROVE  ReadInOrder'
  <2>1. CASE RunCommand
    BY <1>2, <2>1, StepReadings DEF RunCommand, ScriptInv
  <2>2. CASE ChangeDisk
    BY <1>2, <2>2, ChangeDiskReadings DEF ScriptInv
  <2>3. CASE ValidateInputs \/ EvaluateExitCode \/ UNCHANGED allVars
    <3>1. UNCHANGED <<history, pc, readings, bootstrapResult>>
      BY <2>3 DEF ValidateInputs, EvaluateExitCode, allVars, vars, readings
    <3> QED
      BY <1>2, <3>1, SameReadInOrder DEF ReadInOrder, readings, isReadAt
  <2> QED
    BY <1>2, <2>1, <2>2, <2>3 DEF ScriptNext, ScriptStep
<1>3. ScriptInv /\ ReadInOrder => CodeBaseIsReadWhole /\ EvidenceIsInOrder
  BY ReadWhole, EvidenceInOrder DEF ScriptInv
<1> QED
  BY <1>1, <1>2, <1>3, ScriptNextInv, PTL DEF ScriptSpec

\* In every environment, whatever the words of the inputs, and on every disk the
\* script's state and the program's are of their types: the script ends with 0,
\* with its own 1, or with the 2 ash ends with when a variable is not set
\* (validate-plan.sh 1-37).
THEOREM ScriptTypeCorrect == ScriptSpec => []ScriptTypeOK
<1>1. ASSUME ScriptInv PROVE ScriptTypeOK
  <2>1. output \in {"", "true", "false"}
    BY <1>1 DEF ScriptInv, HasReported
  <2>2. scriptExit \in 0 .. 2 \cup {Undefined}
    <3>1. scriptExit \in {Undefined, 0, 1, 2}
      BY <1>1, Zenon DEF ScriptInv, HasReported
    <3> QED
      BY <3>1
  <2> QED
    BY <1>1, <2>1, <2>2 DEF ScriptInv, ProgramInv, ScriptTypeOK
<1> QED
  BY <1>1, ScriptInvariance, PTL

\* The script succeeds exactly when the program ended with 0 or 1, for every
\* environment, and a step that succeeds lacks an output only if it could not
\* be written (validate-plan.sh 2-37).
THEOREM FailuresAreReported == ScriptSpec => []FailureIsReported
<1>1. ASSUME ScriptInv, scriptPc = "exited" PROVE FailureIsReported
  <2>1. inputs.GITHUB_OUTPUT \in {"writable", "unwritable"}
    BY <1>1, InputsAreInputs DEF ScriptInv, OutputInput
  <2>2. \/ scriptExit \in {1, 2} /\ exitCode \notin {0, 1} /\ output = ""
        \/ /\ scriptExit = 0 /\ exitCode = 0
           /\ output = IF inputs.GITHUB_OUTPUT = "writable" THEN "false" ELSE ""
        \/ /\ scriptExit = 0 /\ exitCode = 1
           /\ output = IF inputs.GITHUB_OUTPUT = "writable" THEN "true" ELSE ""
    BY <1>1 DEF ScriptInv, HasReported
  <2>3. CASE scriptExit \in {1, 2} /\ exitCode \notin {0, 1} /\ output = ""
    <3>1. \A code \in {1, 2} : code # 0
      OBVIOUS
    <3> QED
      BY <2>3, <3>1, Zenon DEF FailureIsReported
  <2>4. CASE /\ scriptExit = 0 /\ exitCode = 0
             /\ output = IF inputs.GITHUB_OUTPUT = "writable" THEN "false" ELSE ""
    BY <2>1, <2>4 DEF FailureIsReported
  <2>5. CASE /\ scriptExit = 0 /\ exitCode = 1
             /\ output = IF inputs.GITHUB_OUTPUT = "writable" THEN "true" ELSE ""
    BY <2>1, <2>5 DEF FailureIsReported
  <2> QED
    BY <2>2, <2>3, <2>4, <2>5
<1>2. ScriptInv => FailureIsReported
  BY <1>1 DEF FailureIsReported
<1> QED
  BY <1>2, ScriptInvariance, PTL

\* If its inputs are locations, whatever they lead to and whatever happens to
\* the disk, the script's output is the verdict of the program, in the mode
\* that was asked for, on a complete reading of the files (validate-plan.sh
\* 8-37, approval.command.ts 31-72). Of inputs the framework takes for options
\* or commands this is false: a usage error and --help become outputs too.
THEOREM OutputsAreDecisions == ScriptSpec => []OutputIsDecision
<1>1. ASSUME ScriptInv, output # "", areLocations
      PROVE  OutputIsDecision
  <2>1. \/ output = "false" /\ exitCode = 0
        \/ output = "true" /\ exitCode = 1
    BY <1>1 DEF ScriptInv, HasReported
  <2>2. pc = "exited"
    <3>1. exitCode \in 0 .. 2
      BY <2>1
    <3> QED
      BY <1>1, <3>1, UndefinedIsNoExitCode DEF ScriptInv, ProgramInv
  <2>3. /\ isProperCall
        /\ operationMode = IF effectiveMode = "standard" THEN "standard" ELSE "reverse"
    BY <1>1, <2>2, LocationsAreOperands DEF ScriptInv, CallsProgram
  <2>4. /\ bootstrapResult # Undefined
        /\ ~ hasUnknownDiff(terraformDiffMap, terraformEntities)
        /\ exitCode = exitCodeOf(approvalNeeded)
    BY <1>1, <2>1, <2>3 DEF ScriptInv, HasDecided
  <2>5. /\ exitCode = 0 <=> approvalNeeded = "no"
        /\ exitCode = 1 <=> approvalNeeded = "yes"
    BY <2>4 DEF exitCodeOf
  <2>6. mode = IF effectiveMode = "standard" THEN "require_approval" ELSE "safe_to_apply"
    BY <2>3 DEF mode
  <2> QED
    BY <2>1, <2>4, <2>5, <2>6 DEF OutputIsDecision
<1>2. ScriptInv => OutputIsDecision
  BY <1>1 DEF OutputIsDecision
<1> QED
  BY <1>2, ScriptInvariance, PTL

\* Given locations, the script only calls the program in the way that makes it
\* the gate, so that the composition is the gate, on every disk and whatever
\* happens to it (validate-plan.sh 8-24, approval.command.ts 31-72).
THEOREM ScriptGateIsImplemented == ScriptSpec => ScriptImplementsGate
BY ScriptInitInv, ScriptNextInv, ScriptInvariance, PTL
DEF ScriptSpec, ScriptImplementsGate
=============================================================================
