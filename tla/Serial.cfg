SPECIFICATION FairSpec
CONSTANTS
  good1 = good1
  good2 = good2
  bad = bad
  NoPlan = NoPlan
  Plans <- MCPlans
  CompliantPlans <- MCCompliantPlans
  MaxRevisions = 3
  RevBound = 5
  Cases = {c1}
  Reqs = {r1}
  Workers = {w1, w2}
  SharedCheckpointer = TRUE
  Faults <- LlmFaults
INVARIANTS
  TypeOK
  ApprovedPlanSignedOff
  SignedPlanWasShown
  ApproveFinalizes
  EscalationHasReason
  NotSilentlyStuck
  NodesAudited
  AwaitingIsResumable
PROPERTIES
  RejectNeverApproves
  DecisionAnswered
  ImplementsLifecycle
CHECK_DEADLOCK FALSE
