------------------------------ MODULE EntityScan ------------------------------
(***************************************************************************)
(* The loop of findTerraformEntitiesInFile (resource.ts 44-81), one action *)
(* per iteration: it detects a header and searches the lines between the   *)
(* last header and this one backwards for a decorator. Lines are counted   *)
(* from 1.                                                                 *)
(***************************************************************************)
EXTENDS SourceFile

CONSTANT Files   \* the files a run scans, as sequences of lines

ASSUME FilesAreLines == Files \subseteq Seq(Line)

VARIABLES
  lines,             \* the lines of the file
  lineIndex,         \* the loop's index
  lastFoundEntity,   \* where the search window begins
  entities,          \* the entities found so far
  status             \* "scanning", "found" or "invalid_definition"

vars == <<lines, lineIndex, lastFoundEntity, entities, status>>

window == SubSeq(lines, lastFoundEntity, lineIndex - 1)

Init ==
  /\ lines \in Files
  /\ lineIndex = 1
  /\ lastFoundEntity = 1
  /\ entities = {}
  /\ status = "scanning"

Looping == status = "scanning" /\ lineIndex <= Len(lines)

\* Mutant: the second line is taken for the first one.
decoratorFromThirdLine ==
  IF lineIndex > 2 THEN extractDecorator(window) ELSE NoDecorator

\* The first line of a file has no line above it, hence no decorator.
decoratorOfLine ==
  IF lineIndex > 1 THEN extractDecorator(window) ELSE NoDecorator

\* Mutant: the search window is not moved to the header that was found.
FindEntityKeepingWindow ==
  /\ Looping
  /\ detectsTerraformEntity(lines[lineIndex])
  /\ decoratorOfLine # InvalidDefinition
  /\ entities' = entities \cup
       {[entityInfo |-> lines[lineIndex].entityInfo,
         decorator  |-> decoratorOfLine,
         at         |-> lineIndex]}
  /\ lineIndex' = lineIndex + 1
  /\ UNCHANGED <<lines, lastFoundEntity, status>>

FindEntity ==
  /\ Looping
  /\ detectsTerraformEntity(lines[lineIndex])
  /\ decoratorOfLine # InvalidDefinition
  /\ entities' = entities \cup
       {[entityInfo |-> lines[lineIndex].entityInfo,
         decorator  |-> decoratorOfLine,
         at         |-> lineIndex]}
  /\ lastFoundEntity' = lineIndex
  /\ lineIndex' = lineIndex + 1
  /\ UNCHANGED <<lines, status>>

RejectDecorator ==
  /\ Looping
  /\ detectsTerraformEntity(lines[lineIndex])
  /\ decoratorOfLine = InvalidDefinition
  /\ status' = "invalid_definition"
  /\ UNCHANGED <<lines, lineIndex, lastFoundEntity, entities>>

\* Mutant: the body of the loop increments the index once more.
SkipTwoLines ==
  /\ Looping
  /\ ~ detectsTerraformEntity(lines[lineIndex])
  /\ lineIndex' = lineIndex + 2
  /\ UNCHANGED <<lines, lastFoundEntity, entities, status>>

SkipLine ==
  /\ Looping
  /\ ~ detectsTerraformEntity(lines[lineIndex])
  /\ lineIndex' = lineIndex + 1
  /\ UNCHANGED <<lines, lastFoundEntity, entities, status>>

Finish ==
  /\ status = "scanning"
  /\ lineIndex > Len(lines)
  /\ status' = "found"
  /\ UNCHANGED <<lines, lineIndex, lastFoundEntity, entities>>

Next == FindEntity \/ RejectDecorator \/ SkipLine \/ Finish

Spec == Init /\ [][Next]_vars

-----------------------------------------------------------------------------
FoundEntity == [entityInfo: EntityInfo, decorator: DecoratorType, at: Nat]

TypeOK ==
  /\ lines \in Files
  /\ lineIndex \in 1 .. Len(lines) + 1
  /\ lastFoundEntity \in 1 .. lineIndex
  /\ entities \subseteq FoundEntity
  /\ status \in {"scanning", "found", "invalid_definition"}

\* The loop implements the one-pass automaton: what a backwards search over
\* the window would find is the automaton's pending decorator (resource.ts
\* 118-156).
Automaton == INSTANCE DecoratorAutomaton
  WITH position <- lineIndex, pending <- extractDecorator(window)

ImplementsAutomaton == Automaton!Spec

\* The loop computes findTerraformEntitiesInFile: every header of the file is
\* returned with its decorator, unless one of them has an invalid tag
\* (resource.ts 54-80).
ComputesEntities ==
  /\ status = "found" => findTerraformEntitiesInFile(lines) = entities
  /\ status = "invalid_definition" =>
       findTerraformEntitiesInFile(lines) = InvalidDefinition

\* Lines that neither end a search nor begin an entity.
PlainBetween(i, j) ==
  \A k \in (i + 1) .. (j - 1) :
    lines[k].kind \in {"text", "nearTag", "closing"}

TaggedWith(i, tag) ==
  \E t \in 1 .. (i - 1) :
    lines[t].kind = "tag" /\ lines[t].decorator = tag /\ PlainBetween(t, i)

\* An entity has a decorator exactly when that decorator's tag stands above
\* it with nothing but plain lines between: no tag is lost, none decorates two
\* entities, and an older tag never wins over a newer one (resource.ts 57-62,
\* 118-156).
DecoratorsAreTheTagsAbove ==
  \A e \in entities :
    \A tag \in DecoratorType \ {NoDecorator} :
      e.decorator = tag <=> TaggedWith(e.at, tag)

\* resource.ts:121 says the search stops at "a line that is not a comment and
\* a closing bracket": a decorator never crosses the bracket that closes
\* another block. The expression of resource.ts 116 misses a bracket in the
\* first column.
DecoratorStopsAtClosingBracket ==
  \A e \in entities : e.decorator # NoDecorator =>
    \E t \in 1 .. (e.at - 1) :
      /\ lines[t].kind = "tag" /\ lines[t].decorator = e.decorator
      /\ \A k \in (t + 1) .. (e.at - 1) :
           lines[k].kind \notin {"closing", "indentedClosing"}
=============================================================================
