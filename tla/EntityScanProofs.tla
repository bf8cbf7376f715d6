--------------------------- MODULE EntityScanProofs ---------------------------
(***************************************************************************)
(* For every file: the loop of findTerraformEntitiesInFile keeps its       *)
(* types, implements the one-pass automaton, returns what the definition   *)
(* over the whole file says, and gives a block the tag above it.           *)
(***************************************************************************)
EXTENDS EntityScan, DomainProofs

-----------------------------------------------------------------------------
ScanType ==
  /\ TypeOK
  /\ lines \in Seq(Line)

\* What the search over the window may yield at any index of the scan.
LEMMA WindowSearch ==
  ASSUME ScanType
  PROVE  /\ window \in Seq(Line)
         /\ extractDecorator(window) \in DecoratorType \cup {InvalidDefinition}
         /\ decoratorOfLine = extractDecorator(window)
<1>1. window \in Seq(Line)
  BY WindowIsLines DEF ScanType, TypeOK, window
<1>2. extractDecorator(window) \in DecoratorType \cup {InvalidDefinition}
  BY <1>1, SearchResult
<1>3. ASSUME ~ (lineIndex > 1)
      PROVE  extractDecorator(window) = NoDecorator
  <2>1. lineIndex = 1 /\ lastFoundEntity = 1
    BY <1>3 DEF ScanType, TypeOK
  <2>2. window = <<>>
    BY <2>1 DEF window, ScanType
  <2> QED
    BY <2>2, SearchInNothing
<1> QED
  BY <1>1, <1>2, <1>3 DEF decoratorOfLine

\* A header that is found carries the entity it declares.
LEMMA HeaderDeclares ==
  ASSUME NEW line \in Line, detectsTerraformEntity(line)
  PROVE  line.entityInfo \in EntityInfo
BY DEF Line, detectsTerraformEntity

\* Init and every step keep the types, of every file (resource.ts 44-81).
LEMMA InitType == Init => ScanType
BY FilesAreLines DEF Init, ScanType, TypeOK

LEMMA NextType == ScanType /\ [Next]_vars => ScanType'
<1> SUFFICES ASSUME ScanType, [Next]_vars
             PROVE  ScanType'
  OBVIOUS
<1> USE DEF ScanType, TypeOK
<1>0. Len(lines) \in Nat
  OBVIOUS
<1>1. CASE FindEntity
  <2>1. lines' = lines /\ lineIndex' = lineIndex + 1 /\ lineIndex <= Len(lines)
        /\ lastFoundEntity' = lineIndex /\ status' = status
    BY <1>1 DEF FindEntity, Looping
  <2>2. lines[lineIndex] \in Line
    BY <1>0, <2>1
  <2>3. lines[lineIndex].entityInfo \in EntityInfo
    BY <1>1, <2>2, HeaderDeclares DEF FindEntity
  <2>4. decoratorOfLine \in DecoratorType
    BY <1>1, WindowSearch DEF FindEntity
  <2>5. entities' \subseteq FoundEntity
    BY <1>0, <1>1, <2>3, <2>4 DEF FindEntity, FoundEntity
  <2> QED
    BY <1>0, <2>1, <2>5
<1>2. CASE RejectDecorator
  BY <1>2 DEF RejectDecorator
<1>3. CASE SkipLine
  BY <1>0, <1>3 DEF SkipLine, Looping
<1>4. CASE Finish
  BY <1>4 DEF Finish
<1>5. CASE UNCHANGED vars
  BY <1>5 DEF vars
<1> QED
  BY <1>1, <1>2, <1>3, <1>4, <1>5 DEF Next

\* The scan of any file keeps its index inside the file and its window behind
\* its index, and returns entities with well-formed decorators (resource.ts
\* 44-81).
THEOREM TypeCorrect == Spec => []TypeOK
<1>1. Init => ScanType
  BY InitType
<1>2. ScanType /\ [Next]_vars => ScanType'
  BY NextType
<1>3. ScanType => TypeOK
  BY DEF ScanType
<1> QED
  BY <1>1, <1>2, <1>3, PTL DEF Spec

-----------------------------------------------------------------------------
\* The searches of the two modules look at lines alike.
LEMMA SameExpressions ==
  ASSUME NEW line
  PROVE  /\ Automaton!detectsTerraformEntity(line) = detectsTerraformEntity(line)
         /\ Automaton!closingBracketRegex(line) = closingBracketRegex(line)
         /\ Automaton!matchesSupportedDecorator(line) = matchesSupportedDecorator(line)
         /\ Automaton!endsSearch(line) = endsSearch(line)
BY DEF detectsTerraformEntity, closingBracketRegex, matchesSupportedDecorator,
       endsSearch, Automaton!detectsTerraformEntity,
       Automaton!closingBracketRegex, Automaton!matchesSupportedDecorator,
       Automaton!endsSearch

LEMMA SameAbsence ==
  Automaton!NoDecorator = NoDecorator /\ Automaton!Line = Line
BY DEF NoDecorator, Automaton!NoDecorator, Line, Automaton!Line, EntityInfo,
       Automaton!EntityInfo, Tag, Automaton!Tag, DecoratorType,
       Automaton!DecoratorType, MatchActions, Automaton!MatchActions,
       Action, Automaton!Action, TerraformPlainResource, TerraformModule,
       Automaton!TerraformPlainResource, Automaton!TerraformModule

\* The scan starts as the automaton does.
LEMMA InitImplements == Init => Automaton!Init
<1> SUFFICES ASSUME Init
             PROVE  Automaton!Init
  OBVIOUS
<1>1. lines \in Seq(Line)
  BY FilesAreLines DEF Init
<1>2. window = <<>>
  BY <1>1 DEF Init, window
<1> QED
  BY <1>1, <1>2, SearchInNothing, SameAbsence DEF Init, Automaton!Init

\* A step of the scan that does not end it moves one line on.
LEMMA SkipImplements ==
  ASSUME ScanType, SkipLine
  PROVE  Automaton!ReadTag \/ Automaton!ReadClosing \/ Automaton!ReadText
<1> DEFINE line == lines[lineIndex]
<1>1. /\ lines' = lines /\ lineIndex' = lineIndex + 1
      /\ lastFoundEntity' = lastFoundEntity
      /\ entities' = entities /\ status' = status /\ status = "scanning"
      /\ lineIndex <= Len(lines) /\ ~ detectsTerraformEntity(line)
  BY DEF SkipLine, Looping
<1>2. line \in Line
  BY <1>1 DEF ScanType, TypeOK
<1>3. window \in Seq(Line)
  BY WindowSearch
<1>4. window' = Append(window, line)
  <2>1. lastFoundEntity \in Nat /\ lineIndex \in Nat
        /\ 1 <= lastFoundEntity /\ lastFoundEntity <= lineIndex
    BY DEF ScanType, TypeOK
  <2>2. SubSeq(lines, lastFoundEntity, lineIndex)
          = Append(SubSeq(lines, lastFoundEntity, lineIndex - 1), line)
    BY <1>1, <2>1, WindowGrows DEF ScanType
  <2>3. lineIndex' - 1 = lineIndex
    BY <1>1, <2>1
  <2> QED
    BY <1>1, <2>2, <2>3 DEF window
<1>5. extractDecorator(window)' =
        IF closingBracketRegex(line) THEN NoDecorator
        ELSE IF matchesSupportedDecorator(line) THEN line.decorator
        ELSE extractDecorator(window)
  <2>1. extractDecorator(window)' = extractDecorator(Append(window, line))
    BY <1>4
  <2> HIDE DEF line
  <2> QED
    BY <1>2, <1>3, <2>1, SearchFromLastLine
<1>6. CASE closingBracketRegex(line)
  BY <1>1, <1>5, <1>6, SameExpressions, SameAbsence
     DEF Automaton!ReadClosing, Automaton!AtLine
<1>7. CASE matchesSupportedDecorator(line)
  <2>1. ~ closingBracketRegex(line)
    BY <1>7 DEF closingBracketRegex, matchesSupportedDecorator
  <2> QED
    BY <1>1, <1>5, <1>7, <2>1, SameExpressions DEF Automaton!ReadTag, Automaton!AtLine
<1>8. CASE ~ endsSearch(line)
  BY <1>1, <1>5, <1>8, SameExpressions DEF Automaton!ReadText, endsSearch
<1> QED
  BY <1>6, <1>7, <1>8 DEF endsSearch

\* A step that finds a header is the automaton's, and clears what is pending.
LEMMA FindImplements ==
  ASSUME ScanType, FindEntity
  PROVE  Automaton!ReadHeader
<1> DEFINE line == lines[lineIndex]
<1>1. /\ lines' = lines /\ lineIndex' = lineIndex + 1
      /\ lastFoundEntity' = lineIndex
      /\ status' = status /\ status = "scanning"
      /\ lineIndex <= Len(lines) /\ detectsTerraformEntity(line)
      /\ decoratorOfLine # InvalidDefinition
      /\ entities' = entities \cup
           {[entityInfo |-> line.entityInfo, decorator |-> decoratorOfLine,
             at |-> lineIndex]}
  BY DEF FindEntity, Looping
<1>2. decoratorOfLine = extractDecorator(window)
  BY WindowSearch
<1>3. line \in Line /\ lineIndex \in 1 .. Len(lines) /\ lines \in Seq(Line)
  BY <1>1 DEF ScanType, TypeOK
<1>4. window' = <<line>>
  <2>1. window' = SubSeq(lines, lineIndex, lineIndex)
    BY <1>1, <1>3 DEF window
  <2> QED
    BY <1>3, <2>1, WindowOfOne
<1>5. extractDecorator(window)' = NoDecorator
  <2>1. extractDecorator(window)' = extractDecorator(<<line>>)
    BY <1>4
  <2> HIDE DEF line
  <2> QED
    BY <1>1, <1>3, <2>1, SearchInHeader
<1> QED
  BY <1>1, <1>2, <1>5, SameExpressions, SameAbsence
     DEF Automaton!ReadHeader, Automaton!AtLine

\* Every step of the scan is a step of the automaton.
LEMMA NextImplements ==
  ScanType /\ [Next]_vars => [Automaton!Next]_(Automaton!vars)
<1> SUFFICES ASSUME ScanType, [Next]_vars
             PROVE  [Automaton!Next]_(Automaton!vars)
  OBVIOUS
<1>1. CASE FindEntity
  BY <1>1, FindImplements DEF Automaton!Next
<1>2. CASE RejectDecorator
  <2>1. decoratorOfLine = extractDecorator(window)
    BY WindowSearch
  <2>2. window' = window
    BY <1>2 DEF RejectDecorator, window
  <2>3. Automaton!RejectHeader
    BY <1>2, <2>1, <2>2, SameExpressions
       DEF RejectDecorator, Looping, Automaton!RejectHeader, Automaton!AtLine
  <2> QED
    BY <2>3 DEF Automaton!Next
<1>3. CASE SkipLine
  BY <1>3, SkipImplements DEF Automaton!Next
<1>4. CASE Finish
  <2>1. window' = window
    BY <1>4 DEF Finish, window
  <2>2. Automaton!Finish
    BY <1>4, <2>1 DEF Finish, Automaton!Finish
  <2> QED
    BY <2>2 DEF Automaton!Next
<1>5. CASE UNCHANGED vars
  <2>1. window' = window
    BY <1>5 DEF vars, window
  <2> QED
    BY <1>5, <2>1 DEF vars, Automaton!vars
<1> QED
  BY <1>1, <1>2, <1>3, <1>4, <1>5 DEF Next

\* The backwards search over a window that each header resets finds, in every
\* file, what one forward pass with a single pending decorator finds
\* (resource.ts 44-81 and 118-156).
THEOREM Implements == Spec => ImplementsAutomaton
<1>1. Init => Automaton!Init
  BY InitImplements
<1>2. Init => ScanType
  BY InitType
<1>3. ScanType /\ [Next]_vars => ScanType'
  BY NextType
<1>4. ScanType /\ [Next]_vars => [Automaton!Next]_(Automaton!vars)
  BY NextImplements
<1> QED
  BY <1>1, <1>2, <1>3, <1>4, PTL DEF Spec, ImplementsAutomaton, Automaton!Spec
-----------------------------------------------------------------------------
entityAt(i) ==
  [entityInfo |-> lines[i].entityInfo, decorator |-> decoratorAt(lines, i), at |-> i]

headersBefore(i) == {k \in headersOf(lines) : k < i}

\* What the loop has done when it looks at a line.
ScanInv ==
  /\ ScanType
  /\ IsWindowStart(lines, lineIndex, lastFoundEntity)
  /\ entities = {entityAt(i) : i \in headersBefore(lineIndex)}
  /\ \A i \in headersBefore(lineIndex) : decoratorAt(lines, i) # InvalidDefinition
  /\ status = "found" => lineIndex > Len(lines)
  /\ status = "invalid_definition" =>
       /\ lineIndex \in headersOf(lines)
       /\ decoratorAt(lines, lineIndex) = InvalidDefinition

LEMMA WindowIsOfLine ==
  ASSUME ScanInv
  PROVE  decoratorOfLine = decoratorAt(lines, lineIndex)
<1>1. windowStart(lines, lineIndex) = lastFoundEntity
  BY WindowStartIsFound DEF ScanInv, ScanType, TypeOK
<1> QED
  BY <1>1, WindowSearch DEF ScanInv, decoratorAt, window

LEMMA InitScan == Init => ScanInv
<1> SUFFICES ASSUME Init PROVE ScanInv
  OBVIOUS
<1>1. ScanType
  BY InitType
<1>2. \A k \in headersOf(lines) : k \in Nat /\ k >= 1
  BY <1>1, HeadersAreIndices DEF ScanType
<1>3. headersBefore(lineIndex) = {}
  BY <1>2 DEF Init, headersBefore
<1>4. IsWindowStart(lines, lineIndex, lastFoundEntity)
  BY <1>2 DEF Init, IsWindowStart
<1> QED
  BY <1>1, <1>3, <1>4 DEF Init, ScanInv

\* A header that is found is the next entity and the beginning of a window.
LEMMA FindScan == ASSUME ScanInv, FindEntity PROVE ScanInv'
<1>1. /\ lines' = lines /\ lineIndex' = lineIndex + 1
      /\ lastFoundEntity' = lineIndex /\ status' = "scanning"
      /\ lineIndex <= Len(lines) /\ detectsTerraformEntity(lines[lineIndex])
      /\ decoratorOfLine # InvalidDefinition
      /\ entities' = entities \cup
           {[entityInfo |-> lines[lineIndex].entityInfo, decorator |-> decoratorOfLine,
             at |-> lineIndex]}
  BY DEF FindEntity, Looping
<1>2. ScanType'
  BY NextType DEF ScanInv, Next
<1>3. lineIndex \in 1 .. Len(lines) /\ lines \in Seq(Line)
      /\ lastFoundEntity \in 1 .. lineIndex
  BY <1>1 DEF ScanInv, ScanType, TypeOK
<1>4. lineIndex \in headersOf(lines) /\ headersOf(lines) \subseteq 1 .. Len(lines)
  BY <1>1, <1>3, HeadersAreIndices DEF headersOf
<1>5. headersBefore(lineIndex + 1) = headersBefore(lineIndex) \cup {lineIndex}
  BY <1>3, <1>4 DEF headersBefore
<1>6. IsWindowStart(lines, lineIndex + 1, lineIndex)
  BY <1>3, <1>4 DEF IsWindowStart
<1>7. decoratorOfLine = decoratorAt(lines, lineIndex)
  BY WindowIsOfLine
<1>8. entities' = {entityAt(i) : i \in headersBefore(lineIndex + 1)}
  <2>1. entities' = entities \cup {entityAt(lineIndex)}
    BY <1>1, <1>7 DEF entityAt
  <2>2. entities = {entityAt(i) : i \in headersBefore(lineIndex)}
    BY DEF ScanInv
  <2> QED
    BY <1>5, <2>1, <2>2
<1>9. \A i \in headersBefore(lineIndex + 1) : decoratorAt(lines, i) # InvalidDefinition
  BY <1>1, <1>5, <1>7 DEF ScanInv
<1>10. {entityAt(i) : i \in headersBefore(lineIndex + 1)}
         = {entityAt(i)' : i \in headersBefore(lineIndex + 1)}
       /\ headersBefore(lineIndex)' = headersBefore(lineIndex + 1)
  BY <1>1 DEF entityAt, headersBefore
<1> QED
  BY <1>1, <1>2, <1>6, <1>8, <1>9, <1>10 DEF ScanInv

\* Any other line belongs to the window.
LEMMA SkipScan == ASSUME ScanInv, SkipLine PROVE ScanInv'
<1>1. /\ lines' = lines /\ lineIndex' = lineIndex + 1
      /\ lastFoundEntity' = lastFoundEntity /\ status' = "scanning"
      /\ lineIndex <= Len(lines) /\ ~ detectsTerraformEntity(lines[lineIndex])
      /\ entities' = entities
  BY DEF SkipLine, Looping
<1>2. ScanType'
  BY NextType DEF ScanInv, Next
<1>3. lineIndex \in 1 .. Len(lines) /\ lines \in Seq(Line)
  BY <1>1 DEF ScanInv, ScanType, TypeOK
<1>4. lineIndex \notin headersOf(lines) /\ headersOf(lines) \subseteq 1 .. Len(lines)
  BY <1>1, <1>3, HeadersAreIndices DEF headersOf
<1>5. \A k \in headersOf(lines) : k < lineIndex + 1 <=> k < lineIndex
  BY <1>3, <1>4
<1>6. headersBefore(lineIndex)' = headersBefore(lineIndex)
  BY <1>1, <1>5 DEF headersBefore
<1>7. IsWindowStart(lines, lineIndex + 1, lastFoundEntity)
  BY <1>5 DEF IsWindowStart, ScanInv
<1>8. {entityAt(i) : i \in headersBefore(lineIndex)}'
        = {entityAt(i) : i \in headersBefore(lineIndex)}
  BY <1>1, <1>6 DEF entityAt
<1> QED
  BY <1>1, <1>2, <1>6, <1>7, <1>8 DEF ScanInv

LEMMA NextScan == ScanInv /\ [Next]_vars => ScanInv'
<1> SUFFICES ASSUME ScanInv, [Next]_vars PROVE ScanInv'
  OBVIOUS
<1>1. ScanType'
  BY NextType DEF ScanInv
<1>2. CASE RejectDecorator \/ Finish \/ UNCHANGED vars
  <2>1. /\ lines' = lines /\ lineIndex' = lineIndex
        /\ lastFoundEntity' = lastFoundEntity /\ entities' = entities
    BY <1>2 DEF RejectDecorator, Finish, vars
  <2>2. headersBefore(lineIndex)' = headersBefore(lineIndex)
        /\ {entityAt(i) : i \in headersBefore(lineIndex)}'
             = {entityAt(i) : i \in headersBefore(lineIndex)}
    BY <2>1 DEF headersBefore, entityAt
  <2>3. /\ status' = "found" => lineIndex > Len(lines)
        /\ status' = "invalid_definition" =>
             /\ lineIndex \in headersOf(lines)
             /\ decoratorAt(lines, lineIndex) = InvalidDefinition
    <3>1. CASE RejectDecorator
      BY <3>1, WindowIsOfLine DEF RejectDecorator, Looping, headersOf, ScanInv,
                                  ScanType, TypeOK
    <3>2. CASE Finish
      BY <3>2 DEF Finish
    <3>3. CASE UNCHANGED vars
      BY <3>3 DEF vars, ScanInv
    <3> QED
      BY <1>2, <3>1, <3>2, <3>3
  <2> QED
    BY <1>1, <2>1, <2>2, <2>3 DEF ScanInv
<1> QED
  BY <1>2, FindScan, SkipScan DEF Next

LEMMA ScanInvariance == Spec => []ScanInv
BY InitScan, NextScan, PTL DEF Spec

\* The loop with its window returns, for a file of any length, what the
\* definition over the whole file says (resource.ts 44-81).
THEOREM ScanComputesEntities == Spec => []ComputesEntities
<1>1. ASSUME ScanInv, status = "found"
      PROVE  findTerraformEntitiesInFile(lines) = entities
  <2>1. headersBefore(lineIndex) = headersOf(lines)
    BY <1>1, HeadersAreIndices DEF ScanInv, ScanType, TypeOK, headersBefore
  <2>2. ~ \E i \in headersOf(lines) : decoratorAt(lines, i) = InvalidDefinition
    BY <1>1, <2>1 DEF ScanInv
  <2>3. entities = {entityAt(i) : i \in headersOf(lines)}
    BY <1>1, <2>1 DEF ScanInv
  <2> QED
    BY <2>2, <2>3 DEF findTerraformEntitiesInFile, entityAt
<1>2. ASSUME ScanInv, status = "invalid_definition"
      PROVE  findTerraformEntitiesInFile(lines) = InvalidDefinition
  BY <1>2 DEF ScanInv, findTerraformEntitiesInFile
<1>3. ScanInv => ComputesEntities
  BY <1>1, <1>2 DEF ComputesEntities
<1> QED
  BY <1>3, ScanInvariance, PTL

-----------------------------------------------------------------------------
\* The lines of the window of a header, seen in the file.
LEMMA WindowInFile ==
  ASSUME ScanType, NEW i \in 1 .. Len(lines), NEW w \in 1 .. i
  PROVE  LET s == SubSeq(lines, w, i - 1)
         IN  /\ s \in Seq(Line) /\ Len(s) = i - w /\ DOMAIN s = 1 .. (i - w)
             /\ \A k \in 1 .. (i - w) : s[k] = lines[w + k - 1]
BY DEF ScanType

\* No header stands between the beginning of a window and its header.
LEMMA NoHeaderInWindow ==
  ASSUME ScanType, NEW i \in 1 .. Len(lines), NEW w, IsWindowStart(lines, i, w)
  PROVE  /\ w \in 1 .. i
         /\ \A k \in (w + 1) .. (i - 1) : ~ detectsTerraformEntity(lines[k])
         /\ \A t \in 1 .. (i - 1) : t < w =>
              w \in (t + 1) .. (i - 1) /\ detectsTerraformEntity(lines[w])
<1>1. lines \in Seq(Line) /\ headersOf(lines) \subseteq 1 .. Len(lines)
  BY HeadersAreIndices DEF ScanType
<1>2. w \in 1 .. i
  BY <1>1 DEF IsWindowStart
<1>3. \A k \in 1 .. Len(lines) : detectsTerraformEntity(lines[k]) => k \in headersOf(lines)
  BY <1>1 DEF headersOf
<1>4. \A k \in headersOf(lines) : k < i => k <= w
  BY <1>1 DEF IsWindowStart
<1>5. ASSUME NEW k \in (w + 1) .. (i - 1)
      PROVE  ~ detectsTerraformEntity(lines[k])
  <2>1. k \in 1 .. Len(lines) /\ k < i /\ ~ (k <= w)
    BY <1>1, <1>2
  <2> QED
    BY <1>3, <1>4, <2>1
<1>6. ASSUME NEW t \in 1 .. (i - 1), t < w
      PROVE  w \in (t + 1) .. (i - 1) /\ detectsTerraformEntity(lines[w])
  <2>1. w \in headersOf(lines) /\ w < i
    BY <1>2, <1>6 DEF IsWindowStart
  <2> QED
    BY <1>2, <1>6, <2>1 DEF headersOf
<1> QED
  BY <1>2, <1>5, <1>6

LEMMA FoundTagIsAbove ==
  ASSUME ScanType, NEW i \in 1 .. Len(lines), NEW w, IsWindowStart(lines, i, w),
         NEW tag \in DecoratorType \ {NoDecorator},
         extractDecorator(SubSeq(lines, w, i - 1)) = tag
  PROVE  TaggedWith(i, tag)
<1> DEFINE s == SubSeq(lines, w, i - 1)
           k == CHOOSE n \in DOMAIN s : isWhereSearchEnds(s, n)
           t == w + k - 1
<1>1. w \in 1 .. i /\ \A n \in (w + 1) .. (i - 1) : ~ detectsTerraformEntity(lines[n])
  BY NoHeaderInWindow
<1>2. /\ s \in Seq(Line) /\ Len(s) = i - w /\ DOMAIN s = 1 .. (i - w)
      /\ \A n \in 1 .. (i - w) : s[n] = lines[w + n - 1]
  BY <1>1, WindowInFile
<1>3. extractDecorator(s) = tag
  OBVIOUS
<1> HIDE DEF s
<1>4. \E n \in DOMAIN s : isWhereSearchEnds(s, n)
  BY <1>3 DEF extractDecorator
<1>5. k \in DOMAIN s /\ isWhereSearchEnds(s, k)
  BY <1>4
<1> HIDE DEF k
<1>6. tag = IF closingBracketRegex(s[k]) THEN NoDecorator ELSE s[k].decorator
  BY <1>2, <1>3, <1>5, SearchEndsOnce
<1>7. s[k].kind = "tag" /\ s[k].decorator = tag
  BY <1>5, <1>6 DEF isWhereSearchEnds, endsSearch, matchesSupportedDecorator
<1>8. t \in 1 .. (i - 1) /\ lines[t] = s[k]
  BY <1>1, <1>2, <1>5
<1>9. ASSUME NEW n \in (t + 1) .. (i - 1)
      PROVE  lines[n].kind \in {"text", "nearTag", "closing"}
  <2>1. n \in (w + 1) .. (i - 1) /\ n \in 1 .. Len(lines)
    BY <1>1, <1>2, <1>5, <1>8
  <2>2. n - w + 1 \in (k + 1) .. Len(s) /\ s[n - w + 1] = lines[n]
    BY <1>1, <1>2, <1>5
  <2>3. ~ endsSearch(lines[n])
    BY <1>5, <2>2 DEF isWhereSearchEnds
  <2>4. lines[n] \in Line
    BY <2>1 DEF ScanType
  <2> QED
    BY <1>1, <2>1, <2>3, <2>4, PlainLines
<1> QED
  BY <1>7, <1>8, <1>9 DEF TaggedWith, PlainBetween

LEMMA TagAboveIsFound ==
  ASSUME ScanType, NEW i \in 1 .. Len(lines), NEW w, IsWindowStart(lines, i, w),
         NEW tag, TaggedWith(i, tag)
  PROVE  extractDecorator(SubSeq(lines, w, i - 1)) = tag
<1> DEFINE s == SubSeq(lines, w, i - 1)
<1>1. PICK t \in 1 .. (i - 1) :
        lines[t].kind = "tag" /\ lines[t].decorator = tag /\ PlainBetween(t, i)
  BY DEF TaggedWith
<1>2. \A n \in (t + 1) .. (i - 1) :
        ~ endsSearch(lines[n]) /\ ~ detectsTerraformEntity(lines[n])
  BY <1>1, PlainLines DEF PlainBetween, ScanType
<1>3. w \in 1 .. i /\ w <= t
  BY <1>2, NoHeaderInWindow
<1>4. /\ s \in Seq(Line) /\ Len(s) = i - w /\ DOMAIN s = 1 .. (i - w)
      /\ \A n \in 1 .. (i - w) : s[n] = lines[w + n - 1]
  BY <1>3, WindowInFile
<1> DEFINE k == t - w + 1
<1> HIDE DEF s
<1>5. k \in DOMAIN s /\ s[k] = lines[t]
  BY <1>3, <1>4
<1>6. ~ closingBracketRegex(s[k]) /\ endsSearch(s[k])
  BY <1>1, <1>5 DEF closingBracketRegex, endsSearch, matchesSupportedDecorator
<1>7. ASSUME NEW n \in (k + 1) .. Len(s)
      PROVE  ~ endsSearch(s[n])
  <2>1. w + n - 1 \in (t + 1) .. (i - 1) /\ n \in 1 .. (i - w)
    BY <1>3, <1>4
  <2> QED
    BY <1>2, <1>4, <2>1
<1>8. isWhereSearchEnds(s, k)
  BY <1>6, <1>7 DEF isWhereSearchEnds
<1>9. extractDecorator(s) = s[k].decorator
  BY <1>4, <1>5, <1>6, <1>8, SearchEndsOnce
<1> QED
  BY <1>1, <1>5, <1>9 DEF s

\* In a file of any length an entity has a decorator exactly when its tag is
\* the last one above the block, with plain lines between (resource.ts 57-62,
\* 118-156).
THEOREM DecoratorsAreAlwaysTheTagsAbove == Spec => []DecoratorsAreTheTagsAbove
<1>1. ASSUME ScanInv, NEW e \in entities, NEW tag \in DecoratorType \ {NoDecorator}
      PROVE  e.decorator = tag <=> TaggedWith(e.at, tag)
  <2>1. PICK i \in headersBefore(lineIndex) : e = entityAt(i)
    BY <1>1 DEF ScanInv
  <2>2. i \in 1 .. Len(lines)
    BY <1>1, <2>1, HeadersAreIndices DEF headersBefore, ScanInv, ScanType
  <2>3. PICK w \in 1 .. i : IsWindowStart(lines, i, w)
    BY <1>1, <2>2, EveryWindowStarts DEF ScanInv, ScanType
  <2>4. windowStart(lines, i) = w
    BY <1>1, <2>2, <2>3, WindowStartIsFound DEF ScanInv, ScanType
  <2>5. e.at = i /\ e.decorator = extractDecorator(SubSeq(lines, w, i - 1))
    BY <2>1, <2>4 DEF entityAt, decoratorAt
  <2> QED
    BY <1>1, <2>2, <2>3, <2>5, FoundTagIsAbove, TagAboveIsFound DEF ScanInv
<1>2. ScanInv => DecoratorsAreTheTagsAbove
  BY <1>1 DEF DecoratorsAreTheTagsAbove
<1> QED
  BY <1>2, ScanInvariance, PTL
=============================================================================
