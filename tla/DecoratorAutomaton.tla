-------------------------- MODULE DecoratorAutomaton --------------------------
(***************************************************************************)
(* What the search for decorators promises: one pass over the lines that   *)
(* remembers a single pending decorator. A tag replaces it, a closing      *)
(* bracket and a header clear it, and a header takes it. An entity's       *)
(* decorator is thus settled by the lines since the previous header, and   *)
(* an invalid tag matters only if it is the one a header would take.       *)
(***************************************************************************)
EXTENDS SourceFile

VARIABLES
  lines,      \* the file, as split by the reader
  position,   \* the next line to look at
  pending,    \* the decorator the next header takes
  entities,   \* the entities found so far
  status      \* "scanning", "found" or "invalid_definition"

vars == <<lines, position, pending, entities, status>>

Init ==
  /\ lines \in Seq(Line)
  /\ position = 1
  /\ pending = NoDecorator
  /\ entities = {}
  /\ status = "scanning"

AtLine(P(_)) == status = "scanning" /\ position <= Len(lines) /\ P(lines[position])

ReadTag ==
  /\ AtLine(matchesSupportedDecorator)
  /\ pending' = lines[position].decorator
  /\ position' = position + 1
  /\ UNCHANGED <<lines, entities, status>>

ReadHeader ==
  /\ AtLine(detectsTerraformEntity)
  /\ pending # InvalidDefinition
  /\ entities' = entities \cup
       {[entityInfo |-> lines[position].entityInfo,
         decorator |-> pending, at |-> position]}
  /\ pending' = NoDecorator
  /\ position' = position + 1
  /\ UNCHANGED <<lines, status>>

RejectHeader ==
  /\ AtLine(detectsTerraformEntity)
  /\ pending = InvalidDefinition
  /\ status' = "invalid_definition"
  /\ UNCHANGED <<lines, position, pending, entities>>

ReadClosing ==
  /\ AtLine(closingBracketRegex)
  /\ ~ AtLine(detectsTerraformEntity)
  /\ pending' = NoDecorator
  /\ position' = position + 1
  /\ UNCHANGED <<lines, entities, status>>

ReadText ==
  /\ status = "scanning" /\ position <= Len(lines)
  /\ ~ endsSearch(lines[position]) /\ ~ detectsTerraformEntity(lines[position])
  /\ position' = position + 1
  /\ UNCHANGED <<lines, pending, entities, status>>

Finish ==
  /\ status = "scanning" /\ position > Len(lines)
  /\ status' = "found"
  /\ UNCHANGED <<lines, position, pending, entities>>

Next ==
  \/ ReadTag \/ ReadHeader \/ RejectHeader \/ ReadClosing \/ ReadText \/ Finish

Spec == Init /\ [][Next]_vars
=============================================================================
