SPECIFICATION Spec
CONSTANTS
  good1 = good1
  good2 = good2
  bad = bad
  NoPlan = NoPlan
  Plans <- MCPlans
  CompliantPlans <- MCCompliantPlans
  MaxRevisions = 1
  RevBound = 1
  Cases = {c1}
  Reqs = {r1}
  Workers = {w1}
  SharedCheckpointer = TRUE
  Faults <- CrashFaults
INVARIANTS
  ApproveFinalizes
CHECK_DEADLOCK FALSE
