SPECIFICATION Spec
CONSTANTS
  r1 = r1
  r2 = r2
  r3 = r3
  i1 = i1
  i2 = i2
  i3 = i3
  run1 = run1
  run2 = run2
  Request = {r1, r2, r3}
  ItemId = {i1, i2, i3}
  RunId = {run1, run2}
  Calls <- MCCalls
INVARIANT OneItemPerRun
\* Every call is answered.
CHECK_DEADLOCK FALSE
