SPECIFICATION Spec
CONSTANTS
  good1 = good1
  good2 = good2
  bad = bad
  NoPlan = NoPlan
  Plans <- MCPlans
  CompliantPlans <- MCCompliantPlans
  MaxRevisions = 1
  RevBound = 2
  Cases = {c1}
  Reqs = {r1, r2}
  Workers = {w1}
  SharedCheckpointer = TRUE
  Faults <- NoFaults
INVARIANTS
  ApprovedPlanSignedOff
CHECK_DEADLOCK FALSE
