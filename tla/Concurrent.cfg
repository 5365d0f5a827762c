SPECIFICATION Spec
CONSTANTS
  good1 = good1
  good2 = good2
  bad = bad
  NoPlan = NoPlan
  Plans <- FewPlans
  CompliantPlans <- FewCompliantPlans
  MaxRevisions = 1
  RevBound = 1
  Cases = {c1}
  Reqs = {r1, r2}
  Workers = {w1}
  SharedCheckpointer = TRUE
  Faults <- AckFaults
SYMMETRY Symmetry
INVARIANTS
  SignedPlansComply
  ApprovedWasSigned
  RedraftHasFeedback
  SignOffInvariant
CHECK_DEADLOCK FALSE
