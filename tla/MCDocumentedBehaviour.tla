------------------------- MODULE MCDocumentedBehaviour -------------------------
(***************************************************************************)
(* The disks and command lines of MCApprovalCommand.                       *)
(***************************************************************************)
EXTENDS DocumentedBehaviour, MCApprovalCommand

StandardDisks ==
  DisksWith(RequireConfigurations, Plans, CodeBasesTagged({RequireApproval(Undefined)}))
=============================================================================
