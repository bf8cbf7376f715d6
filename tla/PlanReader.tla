------------------------------ MODULE PlanReader ------------------------------
(***************************************************************************)
(* Reading the Terraform plan: core/libs/external/src/file-plan-reader.    *)
(* A plan file is missing (or not readable), not JSON, or a document. The  *)
(* document's resource_changes and a change's actions may be absent.       *)
(***************************************************************************)
EXTENDS Terraform, Sequences, Integers

PlanAction == {"read", "create", "update", "delete", "no-op"}

\* An action Terraform knows and the schema of the reader does not.
UnknownPlanAction == {"forget"}

\* The module address is split at its dots: "module", name, "module", name...
ResourceChange ==
  [address: Address, type: ProviderType, name: Name,
   module_address: Seq(Name \cup {"module"}) \cup {Undefined, Null},
   actions: Seq(PlanAction \cup UnknownPlanAction) \cup {Undefined}]

PlanFile ==
  [status: {"missing", "not_json", "json"},
   resource_changes: Seq(ResourceChange) \cup {Undefined}]

-----------------------------------------------------------------------------
includes(s, x) == \E i \in DOMAIN s : s[i] = x

\* The switch over a single action has no default: the type of an unknown
\* action is left undefined.
mapActions(actions) ==
  CASE Len(actions) = 2 /\ includes(actions, "create")
                        /\ includes(actions, "delete") -> "replace"
    [] actions = <<"create">> -> "create"
    [] actions = <<"update">> -> "update"
    [] actions = <<"delete">> -> "delete"
    [] Len(actions) = 1 /\ actions[1] \in UnknownPlanAction -> Undefined
    [] OTHER -> "throws"

\* module.foo[0].bar has the first level module foo[0]; a null or an empty
\* address is falsy.
extractFirstLevelModuleIfAvailable(moduleAddress) ==
  IF moduleAddress \in {Undefined, Null, <<>>} THEN Undefined
  ELSE IF Len(moduleAddress) < 2 THEN "throws"
  ELSE moduleAddress[2]

toTerraformDiff(change) ==
  [fullyQualifiedAddress |-> change.address,
   providerType          |-> change.type,
   userProvidedName      |-> change.name,
   diffType              |-> mapActions(change.actions),
   firstLevelModule      |-> extractFirstLevelModuleIfAvailable(change.module_address)]

\* The positions of the changes that no-op and read do not filter out.
keptChanges(changes) ==
  {i \in DOMAIN changes : ~ includes(changes[i].actions, "no-op")
                       /\ ~ includes(changes[i].actions, "read")}

-----------------------------------------------------------------------------
(***************************************************************************)
(* readPlan: the result is an error or a map from addresses to diffs, here *)
(* the set of its values. validateFile computes whether the document obeys *)
(* the schema and then accepts it either way (line 45 returns nothing), so *)
(* only JSON.parse can stop a document here.                               *)
(***************************************************************************)
validateFile(file) == IF file.status = "not_json" THEN "exception" ELSE "none"

hasInvalidContent(changes) ==
  \/ changes = Undefined
  \/ \E i \in DOMAIN changes : changes[i].actions = Undefined
  \/ \E i \in keptChanges(changes) :
       "throws" \in {toTerraformDiff(changes[i]).diffType,
                     toTerraformDiff(changes[i]).firstLevelModule}

hasAmbiguousDiff(changes) ==
  \E i, j \in keptChanges(changes) :
    i # j /\ changes[i].address = changes[j].address

readPlanError(file) ==
  IF file.status = "missing" THEN "resource_not_found"
  ELSE IF validateFile(file) # "none" THEN validateFile(file)
  ELSE IF hasInvalidContent(file.resource_changes) THEN "invalid_content"
  ELSE IF hasAmbiguousDiff(file.resource_changes) THEN "ambiguous_diff"
  ELSE "none"

readPlan(file) ==
  {toTerraformDiff(file.resource_changes[i]) :
     i \in keptChanges(file.resource_changes)}

-----------------------------------------------------------------------------
\* terraformPlanSchema, the schema whose verdict validateFile drops.
satisfiesPlanSchema(file) ==
  /\ file.status = "json"
  /\ file.resource_changes # Undefined
  /\ \A i \in DOMAIN file.resource_changes :
       LET actions == file.resource_changes[i].actions
       IN  actions # Undefined /\ actions # <<>>
           /\ \A k \in DOMAIN actions : actions[k] \in PlanAction
=============================================================================
