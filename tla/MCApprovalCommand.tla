--------------------------- MODULE MCApprovalCommand ---------------------------
(***************************************************************************)
(* Disks and command lines for ApprovalCommand: two provider types, a      *)
(* resource and a module, one or two changes per plan.                     *)
(***************************************************************************)
EXTENDS ApprovalCommand

Bucket == [internalType |-> "plain_resource", providerType |-> "bucket",
           userProvidedName |-> "a"]
Submodule == [internalType |-> "module", userProvidedName |-> "a"]

RequireApproval(actions) == [type |-> "manual_approval", matchActions |-> actions]
SafeToApply(actions) == [type |-> "safe_to_apply", matchActions |-> actions]

Header(info) == [kind |-> "header", entityInfo |-> info]
TagLine(decorator) == [kind |-> "tag", decorator |-> decorator]
Closing == [kind |-> "closing"]

Unix(lines) == [lines |-> lines, crlf |-> FALSE]
Windows(lines) == [lines |-> lines, crlf |-> TRUE]

Tagged(decorator, info) == <<TagLine(decorator), Header(info), Closing>>
Untagged(info) == <<Header(info), Closing>>

Directory(files) == [kind |-> "directory", files |-> files]
OneFile(file) == Directory([f \in {"main.tf"} |-> file])

CodeBasesTagged(decorators) ==
  {OneFile(Unix(Tagged(d, i))) : d \in decorators, i \in {Bucket, Submodule}}
  \cup {OneFile(Unix(Untagged(i))) : i \in {Bucket, Submodule}}
  \cup {Directory([f \in {"main.tf", "module.tf", "notes.md"} |->
          IF f = "main.tf" THEN Unix(Tagged(d, Bucket)) ELSE Unix(Untagged(Submodule))]) :
          d \in decorators}

-----------------------------------------------------------------------------
Change(address, type, moduleAddress, actions) ==
  [address |-> address, type |-> type, name |-> "a",
   module_address |-> moduleAddress, actions |-> actions]

ActionLists ==
  {<<"create">>, <<"update">>, <<"delete">>, <<"delete", "create">>,
   <<"create", "delete">>, <<"no-op">>, <<"read">>, <<"forget">>}

Targets == {<<"bucket", Undefined>>, <<"topic", Undefined>>,
            <<"bucket", <<"module", "a">>>>, <<"bucket", <<"module", "a[0]">>>>}

Changes(address, targets, lists) ==
  {Change(address, t[1], t[2], l) : t \in targets, l \in lists}

Plan(list) == [status |-> "json", resource_changes |-> list]

Plans ==
  {Plan(<<c>>) : c \in Changes("first", Targets, ActionLists)}
  \cup {Plan(<<c, d>>) :
          c \in Changes("first", {<<"bucket", Undefined>>}, {<<"update">>, <<"delete">>}),
          d \in Changes("second", {<<"bucket", <<"module", "a">>>>, <<"topic", Undefined>>},
                        {<<"create">>, <<"delete">>, <<"no-op">>})}

-----------------------------------------------------------------------------
Yaml(items, global) ==
  [status |-> "yaml", model |-> [requireApproval |-> items, global |-> global]]

NoConfiguration ==
  [Yaml(Undefined, NoGlobalRules) EXCEPT !.status = "unreadable"]

Matcher(type, actions) == [providerType |-> type, actions |-> actions]

MatcherLists ==
  {<<Matcher("bucket", Undefined)>>, <<Matcher("bucket", {"DELETE"})>>,
   <<Matcher("topic", Undefined), Matcher("bucket", {"CREATE"})>>,
   <<Matcher("bucket", {"CREATE"}), Matcher("bucket", Null)>>}

Item(address, actions) == [fullyQualifiedAddress |-> address, actions |-> actions]

ItemLists ==
  {<<>>, <<Item(<<"bucket", "a">>, {"DELETE"})>>,
   <<Item(<<"topic", "a">>, {"CREATE", "DELETE"})>>,
   <<Item(<<"module", "a", "bucket", "a">>, {"DELETE"}),
     Item(<<"module", "a", "topic", "a">>, {"DELETE"})>>}

RequireConfigurations ==
  {NoConfiguration}
  \cup {Yaml(Undefined, [NoGlobalRules EXCEPT !.requireApprovalActions = a]) :
          a \in {{}, {"DELETE"}, {"CREATE", "UPDATE_IN_PLACE"}}}
  \cup {Yaml(Undefined, [NoGlobalRules EXCEPT !.requireApprovalItems = m]) :
          m \in MatcherLists}
  \cup {Yaml(i, NoGlobalRules) : i \in ItemLists}

SafeConfigurations ==
  {NoConfiguration}
  \cup {Yaml(Undefined, [NoGlobalRules EXCEPT !.safeToApplyActions = a]) :
          a \in {{"CREATE"}, {"DELETE"}, {"CREATE", "UPDATE_IN_PLACE"}}}
  \cup {Yaml(Undefined, [NoGlobalRules EXCEPT !.safeToApplyItems = m]) :
          m \in MatcherLists}
  \cup {Yaml(i, NoGlobalRules) : i \in ItemLists}

DisksWith(configurations, plans, codeBases) ==
  [configuration: configurations, plan: plans, codeBase: codeBases]

RequireDisks ==
  DisksWith(RequireConfigurations, Plans,
    CodeBasesTagged({RequireApproval(Undefined), RequireApproval({"DELETE"}),
                     RequireApproval(Null), SafeToApply(Undefined)}))

SafeDisks ==
  DisksWith(SafeConfigurations, Plans,
    CodeBasesTagged({SafeToApply(Undefined), SafeToApply({"CREATE"}),
                     SafeToApply(Null), RequireApproval(Undefined)}))

StandardMode == {<<"--debug", "path", "path">>}
BothModes == StandardMode \cup {<<"path", "--standard", "path", "--reverse", "--timestamp">>}
VerdictDisks == RequireDisks \cup SafeDisks

-----------------------------------------------------------------------------
\* A few disks between which the disk changes while the program runs, with
\* one fault each: files that are missing, unreadable, not parsable, invalid
\* or of another code base.
GoodDisk ==
  [configuration |-> NoConfiguration,
   plan |-> Plan(<<Change("first", "bucket", Undefined, <<"delete">>)>>),
   codeBase |-> OneFile(Unix(Untagged(Bucket)))]

GoodConfiguration ==
  Yaml(<<Item(<<"topic", "a">>, {"DELETE"})>>,
       [NoGlobalRules EXCEPT !.requireApprovalActions = {"CREATE"},
                             !.safeToApplyActions = {"DELETE"}])

ConfigurationFaults ==
  {[GoodConfiguration EXCEPT !.status = "not_yaml"],
   Yaml(Null, NoGlobalRules),
   Yaml(<<Item(<<"topic", "a">>, {})>>, NoGlobalRules),
   Yaml(<<Item(<<"topic", "a">>, {"CREATE"}), Item(<<"topic", "a">>, {"DELETE"})>>,
        NoGlobalRules),
   Yaml(<<Item(<<"topic">>, {"DELETE"})>>, NoGlobalRules),
   Yaml(<<Item(<<"bucket", "a">>, {"DELETE"})>>, NoGlobalRules),
   Yaml(Undefined, [NoGlobalRules EXCEPT !.safeToApplyActions = {}])}

PlanFaults ==
  {[Plan(<<>>) EXCEPT !.status = "missing"], [Plan(<<>>) EXCEPT !.status = "not_json"],
   Plan(Undefined), Plan(<<Change("first", "bucket", Undefined, Undefined)>>),
   Plan(<<Change("first", "bucket", Undefined, <<"create", "update">>)>>),
   Plan(<<Change("first", "bucket", <<"module">>, <<"create">>)>>),
   Plan(<<Change("first", "bucket", Undefined, <<"create">>),
          Change("first", "bucket", Undefined, <<"delete">>)>>)}

TwoFiles(main, module) ==
  Directory([f \in {"main.tf", "module.tf"} |-> IF f = "main.tf" THEN main ELSE module])

CodeBaseFaults ==
  {[GoodDisk.codeBase EXCEPT !.kind = "missing"],
   [GoodDisk.codeBase EXCEPT !.kind = "not_a_directory"],
   OneFile(Undefined), OneFile(Unix(<<>>)),
   Directory([f \in {"notes.md"} |-> Unix(Untagged(Bucket))]),
   OneFile(Unix(Tagged(InvalidDefinition, Bucket))),
   OneFile(Unix(Untagged(Bucket) \o Untagged(Bucket))),
   TwoFiles(Windows(Tagged(RequireApproval(Undefined), Bucket)),
            Windows(Tagged(RequireApproval(Undefined), Submodule))),
   TwoFiles(Unix(Tagged(SafeToApply({"DELETE"}), Bucket)), Unix(Untagged(Submodule))),
   TwoFiles(Unix(Untagged(Bucket)), Undefined)}

CreatePlan == Plan(<<Change("first", "bucket", Undefined, <<"create">>)>>)

FaultyDisks ==
  {GoodDisk, [GoodDisk EXCEPT !.configuration = GoodConfiguration],
   [GoodDisk EXCEPT !.plan = CreatePlan]}
  \cup {[GoodDisk EXCEPT !.configuration = c] : c \in ConfigurationFaults}
  \cup {[GoodDisk EXCEPT !.plan = p] : p \in PlanFaults}
  \cup {[GoodDisk EXCEPT !.codeBase = c, !.plan = p] :
          c \in CodeBaseFaults, p \in {GoodDisk.plan, CreatePlan}}

\* Two operands, one of them not a path, and calls that are refused, which a
\* named command and a "--" tell apart, and a third operand.
AllCommandLines ==
  {<<"path", "path">> \o flags : flags \in
     {<<>>, <<"--reverse">>, <<"--reverse", "--standard">>, <<"--unknown">>}}
  \cup {<<"path">>, <<"blank", "path">>, <<"path", "--", "blank", "--unknown">>,
        <<"path", "path", "path">>, <<"ApprovalCommand", "path", "help">>}
=============================================================================
