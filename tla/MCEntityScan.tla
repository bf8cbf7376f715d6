----------------------------- MODULE MCEntityScan -----------------------------
(***************************************************************************)
(* EntityScan on every file of up to five lines of the main classes, and   *)
(* of up to four lines when the rarer classes are there too.               *)
(***************************************************************************)
EXTENDS EntityScan

Plain == [internalType |-> "plain_resource", providerType |-> "bucket",
          userProvidedName |-> "a"]
Submodule == [internalType |-> "module", userProvidedName |-> "a"]

RequireTag ==
  [kind |-> "tag",
   decorator |-> [type |-> "manual_approval", matchActions |-> Undefined]]
SafeTag ==
  [kind |-> "tag",
   decorator |-> [type |-> "safe_to_apply", matchActions |-> {"CREATE"}]]

MainLines ==
  {[kind |-> "header", entityInfo |-> Plain], RequireTag, SafeTag,
   [kind |-> "tag", decorator |-> InvalidDefinition],
   [kind |-> "indentedClosing"], [kind |-> "text"]}

RareLines ==
  {[kind |-> "inlineHeader", entityInfo |-> Submodule],
   [RequireTag EXCEPT !.kind = "nearTag"], [kind |-> "closing"], [kind |-> "slashClosing"]}

FilesOf(S, n) == UNION {[1 .. k -> S] : k \in 0 .. n}

MCFiles == FilesOf(MainLines, 5) \cup FilesOf(MainLines \cup RareLines, 4)
=============================================================================
