-------------------------- MODULE DocumentedBehaviour --------------------------
(***************************************************************************)
(* Statements the documentation, the comments and the types of the program *)
(* make about ApprovalCommand and that the code does not keep. Each is     *)
(* refuted by a run of its own.                                            *)
(***************************************************************************)
EXTENDS ApprovalCommand

\* jekyll/README.md:41: "Inspect the exit code to know if the plan can be
\* applied": an exit code 0 stands for a plan that was read and decided upon.
\* A third operand ends the program with 0 before it reads anything.
ZeroIsADecision == exitCode = 0 => bootstrapResult # Undefined

\* jekyll/README.md:139: with an action listed for all resources, "if in the
\* plan there is at least one resource" with that action the exit code is 1.
\* A deleted resource without a counterpart is in no pair (approval.service.ts
\* 57-66), and the mode never sees it.
ListedActionsAlwaysRequireApproval ==
  bootstrapResult # Undefined /\ exitCode = 0 /\ mode = "require_approval" =>
    \/ configuration.global.requireApprovalActions = Undefined
    \/ \A diff \in terraformDiffMap :
         mapDiffTypeToActions(diff.diffType)
           \cap configuration.global.requireApprovalActions = {}

\* plan-reader.ts:12: "invalid_resource" is one of the errors of readPlan, made
\* for a plan that does not obey the schema. validateFile drops that verdict,
\* and the plan is decided upon.
InvalidPlansAreRejected ==
  bootstrapResult # Undefined /\ exitCode \in {0, 1} => satisfiesPlanSchema(planFile)
=============================================================================
