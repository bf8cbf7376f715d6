------------------------------- MODULE MCService -------------------------------
(***************************************************************************)
(* Two calls of POST /runs for one plan and one source code, each of which *)
(* is stored by a call of its own, with an address that is right or wrong  *)
(* in one way.                                                             *)
(***************************************************************************)
EXTENDS Service

CONSTANTS plan1, sourceCode1

MCBodies ==
  {[plan_id |-> plan1, source_code_id |-> sourceCode1],
   [plan_id |-> NotUuid, source_code_id |-> sourceCode1],
   [plan_id |-> plan1, source_code_id |-> NotUuid]}

Https == [protocol |-> "https:", username |-> FALSE, password |-> FALSE]

MCPlanUrls ==
  {Https, [Https EXCEPT !.protocol = "ftp:"], [Https EXCEPT !.password = TRUE], NotAUrl}

MCSourceCodeUrls ==
  {[Https EXCEPT !.protocol = "http:"], [Https EXCEPT !.username = TRUE], NotAUrl}
=============================================================================
