------------------------------ MODULE SourceFile ------------------------------
(***************************************************************************)
(* A Terraform file as the program sees it: the lines of the code base     *)
(* reader (codebase-reader.service.ts) and the regular expressions and the *)
(* backwards search of core/libs/domain/src/terraform/resource.ts.         *)
(*                                                                         *)
(* A line is the class the three regular expressions put it in:            *)
(*   header           resource "t" "n" {    or    module "n" {             *)
(*   inlineHeader     the same, closed on its own line: {}                 *)
(*   tag              # @RequireApproval(...) or # @SafeToApply(...)       *)
(*   nearTag          a tag without the @, indented or followed by text    *)
(*   closing          } in the first column                                *)
(*   indentedClosing  a } preceded by other characters, none of them #     *)
(*   slashClosing     the same in a // comment                             *)
(*   text             anything else, # comments and other headers included *)
(***************************************************************************)
EXTENDS Terraform, Sequences, Integers

CONSTANT InvalidDefinition   \* the error of a tag whose options are not valid

ASSUME InvalidIsNoDecorator == InvalidDefinition \notin DecoratorType

Tag == (DecoratorType \ {NoDecorator}) \cup {InvalidDefinition}

Line ==
  [kind: {"header", "inlineHeader"}, entityInfo: EntityInfo]
  \cup [kind: {"tag", "nearTag"}, decorator: Tag]
  \cup [kind: {"closing", "indentedClosing", "slashClosing", "text"}]

\* A file ends its lines with \n, or with \r\n when crlf holds.
File == [lines: Seq(Line), crlf: BOOLEAN]

(***************************************************************************)
(* Splitting at \n leaves the \r at the end of every line. Neither the tag *)
(* nor the bracket expression lets a \r stand before its $.                *)
(***************************************************************************)
withCarriageReturn(line) ==
  CASE line.kind = "tag" -> [line EXCEPT !.kind = "nearTag"]
    [] line.kind = "inlineHeader" -> [line EXCEPT !.kind = "header"]
    [] line.kind \in {"indentedClosing", "slashClosing"} -> [kind |-> "text"]
    [] OTHER -> line

readFileAndSplitLines(file) ==
  IF file.crlf
    THEN [i \in DOMAIN file.lines |-> withCarriageReturn(file.lines[i])]
    ELSE file.lines

-----------------------------------------------------------------------------
\* resourceRegex and moduleRegex look at one line, not at block comments.
detectsTerraformEntity(line) ==
  line.kind \in {"header", "inlineHeader"}

\* /^[^#]+}.*$/ wants a character before the bracket.
closingBracketRegex(line) ==
  line.kind \in {"inlineHeader", "indentedClosing", "slashClosing"}

matchesSupportedDecorator(line) == line.kind = "tag"

(***************************************************************************)
(* extractDecorator walks the lines backwards and stops at the first one   *)
(* that is a bracket or a tag, brackets being tested first.                *)
(***************************************************************************)
endsSearch(line) == closingBracketRegex(line) \/ matchesSupportedDecorator(line)

\* Mutant: the search takes the first bracket or tag of the window.
searchEndsAtFirst(lines, i) ==
  /\ endsSearch(lines[i])
  /\ \A j \in 1 .. (i - 1) : ~ endsSearch(lines[j])

isWhereSearchEnds(lines, i) ==
  /\ endsSearch(lines[i])
  /\ \A j \in (i + 1) .. Len(lines) : ~ endsSearch(lines[j])

extractDecorator(lines) ==
  IF \E i \in DOMAIN lines : isWhereSearchEnds(lines, i)
    THEN LET line == lines[CHOOSE i \in DOMAIN lines : isWhereSearchEnds(lines, i)]
         IN  IF closingBracketRegex(line) THEN NoDecorator ELSE line.decorator
    ELSE NoDecorator

(***************************************************************************)
(* What findTerraformEntitiesInFile returns. The array of entities is the  *)
(* set of its elements, each with the line it was found at, so that equal  *)
(* entities of one file stay apart. The window of a header begins at the   *)
(* header before it, or at the beginning of the file.                      *)
(***************************************************************************)
headersOf(lines) == {i \in DOMAIN lines : detectsTerraformEntity(lines[i])}

windowStart(lines, i) ==
  IF \E j \in headersOf(lines) : j < i
    THEN CHOOSE j \in headersOf(lines) :
           j < i /\ \A k \in headersOf(lines) : k < i => k <= j
    ELSE 1

decoratorAt(lines, i) ==
  extractDecorator(SubSeq(lines, windowStart(lines, i), i - 1))

findTerraformEntitiesInFile(lines) ==
  IF \E i \in headersOf(lines) : decoratorAt(lines, i) = InvalidDefinition
    THEN InvalidDefinition
    ELSE {[entityInfo |-> lines[i].entityInfo,
           decorator  |-> decoratorAt(lines, i),
           at         |-> i] : i \in headersOf(lines)}
=============================================================================
