---------------------------- MODULE MCValidatePlan ----------------------------
(***************************************************************************)
(* The script with every environment, on the disks with one fault each,    *)
(* one of which may replace another while the program runs.                *)
(***************************************************************************)
EXTENDS ValidatePlan, MCApprovalCommand

NotStarted == {<<>>}

AllInputs ==
  [INPUT_TF_CODE_DIR: LocationInput, INPUT_TF_PLAN_JSON_FILE: LocationInput,
   INPUT_MODE: ModeInput, GITHUB_OUTPUT: OutputInput]
=============================================================================
