------------------------ MODULE MCValidationController ------------------------
(***************************************************************************)
(* Three calls, of which two are for one run and two may share an item.    *)
(* Calls that differ only in the names of items and runs are left out.     *)
(***************************************************************************)
EXTENDS ValidationControllerRepository

CONSTANTS r1, r2, r3, i1, i2, i3, run1, run2

Call(r, ids, runIds) ==
  LET n == CASE r = r1 -> 1 [] r = r2 -> 2 [] r = r3 -> 3
  IN  [id |-> ids[n], runId |-> runIds[n]]

MCCalls ==
  {[r \in Request |-> Call(r, ids, runIds)] :
     ids \in {<<i1, i2, i3>>, <<i1, i1, i2>>, <<i1, i2, i2>>},
     runIds \in {<<run1, run1, run1>>, <<run1, run1, run2>>}}
=============================================================================
