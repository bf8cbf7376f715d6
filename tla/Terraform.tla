------------------------------ MODULE Terraform ------------------------------
(***************************************************************************)
(* The domain model of the command line program (core/libs/domain/src/     *)
(* terraform): the actions Terraform performs, the diffs found in a plan,  *)
(* the decorators and the entities found in a code base.                   *)
(*                                                                         *)
(* A TypeScript expression that throws (a method called on null or on      *)
(* undefined) has the outcome "throws"; a Boolean one "yes" or "no".       *)
(* `Or` and `And` are || and &&: they look at the second operand only when *)
(* the first does not decide.                                              *)
(***************************************************************************)
CONSTANTS
  Address,        \* full addresses of resource instances; only compared
  ProviderType,   \* provider types, e.g. google_storage_bucket
  Name,           \* user provided names; an indexed name (foo[0]) is another
                  \* name, for the program compares names as strings
  Undefined,      \* the JavaScript value undefined
  Null            \* the JavaScript value null

Action == {"CREATE", "UPDATE_IN_PLACE", "DELETE"}

DiffType == {"create", "update", "delete", "replace"}

\* Neither absent value is a list of actions, a name or a type of diff.
ASSUME AbsentValues ==
  /\ Undefined # Null
  /\ \A actions \in SUBSET Action : actions # Undefined /\ actions # Null
  /\ Undefined \notin Name \cup {"module"} /\ Undefined \notin DiffType

\* The root of the plan's resource addresses is never a provider type.
ASSUME ModuleIsNoProvider == "module" \notin ProviderType

-----------------------------------------------------------------------------
\* Undefined is what mapActions yields for an action it does not know.
mapDiffTypeToActions(diffType) ==
  CASE diffType = "create"  -> {"CREATE"}
    [] diffType = "update"  -> {"UPDATE_IN_PLACE"}
    [] diffType = "delete"  -> {"DELETE"}
    [] diffType = "replace" -> {"CREATE", "DELETE"}
    [] OTHER                -> Undefined

TerraformDiff ==
  [fullyQualifiedAddress: Address,
   providerType: ProviderType, userProvidedName: Name,
   diffType: DiffType \cup {Undefined},
   firstLevelModule: Name \cup {"module", Undefined}]

-----------------------------------------------------------------------------
TerraformPlainResource ==
  [internalType: {"plain_resource"},
   providerType: ProviderType, userProvidedName: Name]

TerraformModule == [internalType: {"module"}, userProvidedName: Name]

EntityInfo == TerraformPlainResource \cup TerraformModule

NoDecorator == [type |-> "no_decorator"]

\* matchActions is optional, and its schema also lets null through.
MatchActions == ((SUBSET Action) \ {{}}) \cup {Undefined, Null}

DecoratorType ==
  {NoDecorator} \cup
  [type: {"manual_approval", "safe_to_apply"}, matchActions: MatchActions]

TerraformEntity == [entityInfo: EntityInfo, decorator: DecoratorType]

-----------------------------------------------------------------------------
Outcome == {"yes", "no", "throws"}

Bool(b) == IF b THEN "yes" ELSE "no"
Or(a, b) == IF a = "no" THEN b ELSE a
And(a, b) == IF a = "yes" THEN b ELSE a
Negation(a) == CASE a = "yes" -> "no" [] a = "no" -> "yes" [] OTHER -> a

\* Mutant: some in place of every.
isAnyItemIncluded(items, itemsToCheck) ==
  IF itemsToCheck = Undefined \/ items = Null
    THEN "throws"
    ELSE Bool(itemsToCheck \cap items # {})

\* itemsToCheck.every(it => items.includes(it)), and the same with some.
areAllItemsIncluded(items, itemsToCheck) ==
  IF itemsToCheck = Undefined \/ items = Null
    THEN "throws"
    ELSE Bool(itemsToCheck \subseteq items)

isSomeItemIncluded(items, itemsToCheck) ==
  IF itemsToCheck \in {Undefined, Null} \/ items \in {Undefined, Null}
    THEN "throws"
    ELSE Bool(itemsToCheck \cap items # {})

\* A null list of safe actions is falsy: every action is then safe.
getSafeToApplyActionsFromDecorator(decorator) ==
  IF decorator.type # "safe_to_apply" THEN {}
  ELSE IF decorator.matchActions \in {Undefined, Null} THEN Action
  ELSE decorator.matchActions

\* A null list of actions to approve is not undefined: the lookup throws.
isDiffActionIncludedInEntityDecorator(decorator, diff) ==
  IF decorator.type # "manual_approval" \/ decorator.matchActions = Undefined
    THEN "yes"
    ELSE isSomeItemIncluded(decorator.matchActions,
                            mapDiffTypeToActions(diff.diffType))
=============================================================================
