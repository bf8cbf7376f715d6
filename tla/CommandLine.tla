------------------------------ MODULE CommandLine ------------------------------
(***************************************************************************)
(* What the framework (nest-commander over commander, not under src) makes *)
(* of the words the process is called with, given the command and the      *)
(* options approval.command.ts declares. A word is known by the class it   *)
(* falls into: an operand (a path, blanks or the name of a command), an    *)
(* option, or the "--" after which every word is an operand.               *)
(***************************************************************************)
EXTENDS Naturals, Sequences, FiniteSets

Flag == {"--standard", "--reverse", "--debug", "--timestamp"}

\* "--help" is also -h, "--unknown" any other word that begins with a dash.
Option == Flag \cup {"--help", "--unknown"}

Command == {"ApprovalCommand", "help"}

Word == {"path", "blank", "--"} \cup Command \cup Option

-----------------------------------------------------------------------------
isLiteral(words, i) == \E j \in 1 .. (i - 1) : words[j] = "--"

optionsAt(words) ==
  {i \in DOMAIN words : words[i] \in Option /\ ~ isLiteral(words, i)}

operandsAt(words) ==
  {i \in DOMAIN words : isLiteral(words, i) \/ words[i] \notin Option \cup {"--"}}

\* The program that holds the commands looks for one in front of the options.
leadingAt(words) ==
  {i \in operandsAt(words) : \A k \in optionsAt(words) : i < k}

leads(words, n, word) ==
  \E i \in leadingAt(words) :
    words[i] = word /\ Cardinality({j \in leadingAt(words) : j <= i}) = n

\* The operands of ApprovalCommand, the default command, which may be named.
passedAt(words) ==
  {i \in operandsAt(words) :
     ~ (leads(words, 1, "ApprovalCommand") /\ \A j \in operandsAt(words) : i <= j)}

(***************************************************************************)
(* The command help, and a --help behind the first option that is not      *)
(* known: the program that holds the commands knows no flag at all.        *)
(***************************************************************************)
showsHelp(words) ==
  IF leads(words, 1, "help")
    THEN Cardinality(leadingAt(words)) = 1 \/ leads(words, 2, "ApprovalCommand")
    ELSE \E k \in optionsAt(words), i \in DOMAIN words :
           /\ words[i] = "--help" /\ k <= i
           /\ leads(words, 1, "ApprovalCommand") => words[k] \notin Flag

\* Help on a command there is not, an unknown option, a missing operand.
isUsageError(words) ==
  \/ leads(words, 1, "help")
  \/ \E k \in optionsAt(words) : words[k] = "--unknown"
  \/ Cardinality(passedAt(words)) < 2

\* The last of the flags --standard and --reverse wins. enableDebugMode and
\* enableTimestamps only concern what is logged.
lastMode(words) ==
  IF \E i \in optionsAt(words) :
       /\ words[i] = "--reverse"
       /\ \A j \in optionsAt(words) : j > i => words[j] # "--standard"
    THEN "reverse" ELSE "standard"
=============================================================================
