SPECIFICATION Spec
CONSTANTS
  good1 = good1
  good2 = good2
  bad = bad
  NoPlan = NoPlan
  Plans <- MCPlans
  CompliantPlans <- MCCompliantPlans
  MaxRevisions = 1
  RevBound = 3
  Cases = {c1}
  Reqs = {r1}
  Workers = {w1, w2}
  SharedCheckpointer = TRUE
  Faults <- HostFaults
INVARIANTS
  ResolvedIffClosed
  AuditMatchesStatus
  FirstRunIsAlone
PROPERTIES
  ClosedIsFinal
CHECK_DEADLOCK FALSE
