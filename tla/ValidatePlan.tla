----------------------------- MODULE ValidatePlan -----------------------------
(***************************************************************************)
(* The container image (docker/validate-plan.sh, run by /bin/ash) composed *)
(* with the program it runs: the script checks its environment variables,  *)
(* runs the program with the words two of them hold and a flag, and turns  *)
(* its exit code into the output approval_required of a GitHub step or     *)
(* into a failure.                                                         *)
(***************************************************************************)
EXTENDS ApprovalCommand

CONSTANTS Inputs   \* the environments of a run

\* A variable is unset or one word of the command line, whatever it holds.
LocationInput == {"unset"} \cup Word

ModeInput == {"unset", "", "standard", "safe_to_apply", "reverse"}

\* The file GITHUB_OUTPUT names, or /dev/stdout, can be written to or not.
OutputInput == {"writable", "unwritable"}

ASSUME InputsAreInputs ==
  Inputs \subseteq
    [INPUT_TF_CODE_DIR: LocationInput, INPUT_TF_PLAN_JSON_FILE: LocationInput,
     INPUT_MODE: ModeInput, GITHUB_OUTPUT: OutputInput]

VARIABLES
  inputs,      \* the environment variables of the script
  scriptPc,    \* "validate", "command", "evaluate" or "exited"
  output,      \* what was appended to the step's output: "", "true" or "false"
  scriptExit   \* the exit code of the script, Undefined while it runs

scriptVars == <<inputs, scriptPc, output, scriptExit>>
allVars == <<vars, scriptVars>>

\* INPUT_MODE=${INPUT_MODE:-"standard"}
effectiveMode ==
  IF inputs.INPUT_MODE \in {"unset", ""} THEN "standard" ELSE inputs.INPUT_MODE

\* : ${INPUT_TF_CODE_DIR?...} and the same for the plan
isLocationUnset ==
  "unset" \in {inputs.INPUT_TF_CODE_DIR, inputs.INPUT_TF_PLAN_JSON_FILE}

flag_mode == IF effectiveMode = "standard" THEN "--standard" ELSE "--reverse"

\* No "--" stands in front of the locations: the program sees words.
commandLine == <<inputs.INPUT_TF_CODE_DIR, inputs.INPUT_TF_PLAN_JSON_FILE, flag_mode>>

\* The program has its arguments only once the script runs it.
ScriptInit ==
  /\ Init
  /\ inputs \in Inputs
  /\ scriptPc = "validate"
  /\ output = ""
  /\ scriptExit = Undefined

scriptExits(code) == scriptPc' = "exited" /\ scriptExit' = code

\* ash ends with 2 at the expansion of a variable that is not set; only an
\* invalid mode meets the script's own exit.
ValidateInputs ==
  /\ scriptPc = "validate"
  /\ CASE isLocationUnset -> scriptExits(2) /\ UNCHANGED argv
       [] ~ isLocationUnset /\ effectiveMode \notin {"standard", "safe_to_apply"} ->
            scriptExits(1) /\ UNCHANGED argv
       [] OTHER -> scriptPc' = "command" /\ argv' = commandLine /\ UNCHANGED scriptExit
  /\ UNCHANGED <<inputs, output, history, pc, operationMode, readings,
                 bootstrapResult, exitCode>>

RunCommand ==
  /\ scriptPc = "command"
  /\ Step
  /\ scriptPc' = IF pc' = "exited" THEN "evaluate" ELSE "command"
  /\ UNCHANGED <<inputs, output, scriptExit>>

\* echo "approval_required=..." >> $OUTPUT, whose failure stops nothing.
writesOutput(answer) ==
  output' = IF inputs.GITHUB_OUTPUT = "writable" THEN answer ELSE output

\* Mutant: every exit code but 1 is taken for an answer.
EvaluateTwoCodes ==
  /\ scriptPc = "evaluate"
  /\ writesOutput(IF exitCode = 1 THEN "true" ELSE "false")
  /\ scriptExits(0)
  /\ UNCHANGED <<inputs, vars>>

\* Mutant: the script ends with the exit code of the program.
EvaluateAndForward ==
  /\ scriptPc = "evaluate"
  /\ CASE exitCode = 0 -> writesOutput("false")
       [] exitCode = 1 -> writesOutput("true")
       [] OTHER        -> UNCHANGED output
  /\ scriptExits(exitCode)
  /\ UNCHANGED <<inputs, vars>>

EvaluateExitCode ==
  /\ scriptPc = "evaluate"
  /\ CASE exitCode = 0 -> writesOutput("false") /\ scriptExits(0)
       [] exitCode = 1 -> writesOutput("true") /\ scriptExits(0)
       [] OTHER        -> UNCHANGED output /\ scriptExits(1)
  /\ UNCHANGED <<inputs, vars>>

ScriptStep == ValidateInputs \/ RunCommand \/ EvaluateExitCode

ScriptNext ==
  \/ ScriptStep
  \/ /\ scriptPc = "command"
     /\ ChangeDisk
     /\ UNCHANGED scriptVars

ScriptSpec == ScriptInit /\ [][ScriptNext]_allVars

-----------------------------------------------------------------------------
ScriptTypeOK ==
  /\ inputs \in Inputs
  /\ scriptPc \in {"validate", "command", "evaluate", "exited"}
  /\ output \in {"", "true", "false"}
  /\ scriptExit \in 0 .. 2 \cup {Undefined}
  /\ ProgramTypeOK

\* The inputs are what the documentation of the image says they are: neither
\* of them is a word the framework takes for an option or a command. Nothing
\* in the script sees to it: of others, a usage error becomes the output true
\* and --help the output false, while the script ends with 0.
areLocations ==
  {inputs.INPUT_TF_CODE_DIR, inputs.INPUT_TF_PLAN_JSON_FILE}
    \cap (Option \cup Command \cup {"--"}) = {}

\* Given locations, the output says false only if the program decided, in the
\* mode the inputs ask for, on a complete reading of the files, that no
\* approval is required, and true only if it decided that one is, whatever the
\* files hold and whoever writes to them meanwhile (validate-plan.sh 8-37,
\* approval.command.ts 31-72).
OutputIsDecision ==
  output # "" /\ areLocations =>
    /\ bootstrapResult # Undefined
    /\ mode = IF effectiveMode = "standard" THEN "require_approval" ELSE "safe_to_apply"
    /\ ~ hasUnknownDiff(terraformDiffMap, terraformEntities)
    /\ output = "false" <=> approvalNeeded = "no"
    /\ output = "true" <=> approvalNeeded = "yes"

\* The script's exit code tells whether the program answered, for every
\* environment. It does not tell whether the step has the answer: a step that
\* succeeds without an output had one that could not be written
\* (validate-plan.sh 2-37).
FailureIsReported ==
  scriptPc = "exited" =>
    /\ scriptExit = 0 <=> exitCode \in {0, 1}
    /\ output = "" <=> scriptExit # 0 \/ inputs.GITHUB_OUTPUT = "unwritable"

\* Given locations, the composition is still the gate.
ScriptImplementsGate == Gate!Init /\ [][areLocations => Gate!Next]_(Gate!vars)
=============================================================================
