------------------------------ MODULE MCRunEvents ------------------------------
(***************************************************************************)
(* Two runs of one plan and one source code, and a job that is started     *)
(* twice and waits for one request at a time, so that a full job is met at *)
(* once. The topic gets four records, up to three of one run.              *)
(***************************************************************************)
EXTENDS RunEvents

CONSTANTS plan1, sourceCode1

MCBodies == {[plan_id |-> plan1, source_code_id |-> sourceCode1]}
=============================================================================
