----------------------------- MODULE Configuration -----------------------------
(***************************************************************************)
(* Reading .terraapprove.yaml: the reader of core/libs/external/src/       *)
(* file-configuration-reader, ConfigurationService, and the entities that  *)
(* configuration.ts makes of the items it lists.                           *)
(***************************************************************************)
EXTENDS Terraform, Sequences, Integers

\* An address of the file is split at its dots. Nothing says that its parts are
\* a type and a name.
AddressPart == ProviderType \cup Name \cup {"module"}

\* What an item may name, the blocks of a code base included.
ItemEntityInfo ==
  [internalType: {"plain_resource"},
   providerType: AddressPart, userProvidedName: AddressPart]
  \cup [internalType: {"module"}, userProvidedName: AddressPart]

RequireApprovalItem ==
  [fullyQualifiedAddress: Seq(AddressPart), actions: SUBSET Action]

TerraformDiffMatcher ==
  [providerType: ProviderType, actions: (SUBSET Action) \cup {Undefined, Null}]

GlobalConfiguration ==
  [requireApprovalActions: (SUBSET Action) \cup {Undefined},
   safeToApplyActions: (SUBSET Action) \cup {Undefined},
   requireApprovalItems: Seq(TerraformDiffMatcher) \cup {Undefined},
   safeToApplyItems: Seq(TerraformDiffMatcher) \cup {Undefined}]

\* What the parsed YAML says; `parse` maps an empty file to an empty document.
ConfigurationYamlModel ==
  [requireApproval: Seq(RequireApprovalItem) \cup {Undefined, Null},
   global: GlobalConfiguration]

\* "unreadable" is every reason for which readFile fails: the file does not
\* exist, it is a directory, its permissions forbid it.
ConfigurationFile ==
  [status: {"unreadable", "not_yaml", "yaml"}, model: ConfigurationYamlModel]

Configurations ==
  [requireApprovalItems: Seq(RequireApprovalItem), global: GlobalConfiguration]

-----------------------------------------------------------------------------
\* Undefined as null, or a list that is unique and, if need be, not empty.
validMatchers(matchers) ==
  \/ matchers = Undefined
  \/ /\ matchers # <<>>
     /\ \A i \in DOMAIN matchers : matchers[i].actions # {}
     /\ \A i, j \in DOMAIN matchers : i # j => matchers[i] # matchers[j]

\* configurationSchema; a null list of items and null actions of a matcher
\* are nullable in it.
validateConfiguration(model) ==
  /\ model.requireApproval \in {Undefined, Null}
     \/ \A i \in DOMAIN model.requireApproval :
          model.requireApproval[i].actions # {}
  /\ model.global.safeToApplyActions # {}
  /\ validMatchers(model.global.requireApprovalItems)
  /\ validMatchers(model.global.safeToApplyItems)

hasDuplicateAddress(items) ==
  \E i, j \in DOMAIN items :
    i # j /\ items[i].fullyQualifiedAddress = items[j].fullyQualifiedAddress

mapToConfiguration(model) ==
  [requireApprovalItems |->
     IF model.requireApproval = Undefined THEN <<>> ELSE model.requireApproval,
   global |-> model.global]

NoGlobalRules ==
  [requireApprovalActions |-> Undefined, safeToApplyActions |-> Undefined,
   requireApprovalItems |-> Undefined, safeToApplyItems |-> Undefined]

DEFAULT_CONFIGURATION ==
  [requireApprovalItems |-> <<>>, global |-> NoGlobalRules]

(***************************************************************************)
(* ConfigurationService.readConfiguration: a file that cannot be read is   *)
(* the default configuration, every other failure throws. A null list of   *)
(* items passes the schema and throws in the for...of of line 91.          *)
(***************************************************************************)
readConfigurationThrows(file) ==
  /\ file.status # "unreadable"
  /\ \/ file.status = "not_yaml"
     \/ ~ validateConfiguration(file.model)
     \/ file.model.requireApproval = Null
     \/ /\ file.model.requireApproval # Undefined
        /\ hasDuplicateAddress(file.model.requireApproval)

readConfiguration(file) ==
  IF file.status = "unreadable"
    THEN DEFAULT_CONFIGURATION
    ELSE mapToConfiguration(file.model)

-----------------------------------------------------------------------------
\* requireApprovalItemToTerraformEntity throws on an address without a dot.
hasInvalidAddress(items) ==
  \E i \in DOMAIN items : Len(items[i].fullyQualifiedAddress) < 2

requireApprovalItemToTerraformEntity(item) ==
  LET address == item.fullyQualifiedAddress
  IN  [entityInfo |->
         IF address[1] = "module"
           THEN [internalType |-> "module", userProvidedName |-> address[2]]
           ELSE [internalType |-> "plain_resource", providerType |-> address[1],
                 userProvidedName |-> address[2]],
       decorator |->
         [type |-> "manual_approval", matchActions |-> item.actions]]
=============================================================================
