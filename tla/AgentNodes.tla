------------------------------ MODULE AgentNodes ------------------------------
(***************************************************************************)
(* The agent's state and the pure node functions of the LangGraph graph    *)
(* (src/app/agent/nodes.py), with the graph's edges (graph.py).            *)
(*                                                                         *)
(* A plan is a member of Plans; whether the deterministic compliance check *)
(* finds an issue in it is membership in CompliantPlans (the check itself  *)
(* is modelled in Compliance.tla).  Notes are reduced to where they came   *)
(* from: "issues" and "exhausted" are written by compliance_check,         *)
(* "officer" by human_review and "failed" by the failure handler.          *)
(***************************************************************************)
EXTENDS Naturals

CONSTANTS Plans,            \* the drafts the LLM may return
          CompliantPlans,   \* those compliance_check finds no issue in
          NoPlan,           \* generated_remediation_plan is None
          MaxRevisions      \* _MAX_REVISIONS

ASSUME PlansAssumption ==
  /\ CompliantPlans \subseteq Plans
  /\ NoPlan \notin Plans

ASSUME MaxRevisionsAssumption == MaxRevisions \in Nat

Nodes == {"retrieve_context", "plan_remediation", "compliance_check",
          "human_review", "finalize", "escalate"}

ComplianceStatuses == {"pending", "passed", "needs_revision", "rejected"}

Notes == {"none", "issues", "exhausted", "officer", "failed"}

\* The fields of AgentState that control the workflow; the customer's data and
\* the retrieved policies are parameters of the drafts and are left out.
AgentState == [plan : Plans \union {NoPlan}, status : ComplianceStatuses,
               notes : Notes, approved : BOOLEAN, rev : Nat]

InitialState == [plan |-> NoPlan, status |-> "pending", notes |-> "none",
                 approved |-> FALSE, rev |-> 0]

\* Mutant of PlanRemediation: revisions are not counted.
PlanRemediationUncounted(st, draft) ==
  [st EXCEPT !.plan = draft, !.status = "pending", !.notes = "none"]

\* plan_remediation: a draft after the first one is a revision.
PlanRemediation(st, draft) ==
  [st EXCEPT !.plan = draft,
             !.rev = IF st.plan # NoPlan THEN @ + 1 ELSE @,
             !.status = "pending",
             !.notes = "none"]

\* Mutant of ComplianceCheck: when the revisions are exhausted the draft passes.
ComplianceCheckResigned(st) ==
  IF st.plan \in CompliantPlans \/ st.rev >= MaxRevisions
  THEN [st EXCEPT !.status = "passed", !.notes = "none"]
  ELSE [st EXCEPT !.status = "needs_revision", !.notes = "issues"]

\* compliance_check: no issue passes; an issue asks for a revision until the
\* revisions are exhausted.
ComplianceCheck(st) ==
  CASE st.plan \in CompliantPlans ->
         [st EXCEPT !.status = "passed", !.notes = "none"]
    [] st.plan \notin CompliantPlans /\ st.rev >= MaxRevisions ->
         [st EXCEPT !.status = "rejected", !.notes = "exhausted"]
    [] st.plan \notin CompliantPlans /\ st.rev < MaxRevisions ->
         [st EXCEPT !.status = "needs_revision", !.notes = "issues"]

\* Mutant of RouteCompliance: only a rejection is kept from the officer.
RouteComplianceLenient(st) ==
  IF st.status = "rejected" THEN "escalate" ELSE "human_review"

RouteCompliance(st) ==
  CASE st.status = "passed"         -> "human_review"
    [] st.status = "needs_revision" -> "plan_remediation"
    [] st.status = "rejected"       -> "escalate"

\* Mutant of HumanReview: a rejection leaves no notes.
HumanReviewWithoutNotes(st, decision) == [st EXCEPT !.approved = decision = "approve"]

\* human_review, past its interrupt(): the officer's decision is "approve" or
\* "reject"; a rejection replaces the notes by the officer's.
HumanReview(st, decision) ==
  IF decision = "approve"
  THEN [st EXCEPT !.approved = TRUE]
  ELSE [st EXCEPT !.approved = FALSE, !.notes = "officer"]

\* Mutant of RouteHumanDecision: the edges are swapped.
RouteHumanDecisionSwapped(st) == IF st.approved THEN "plan_remediation" ELSE "finalize"

RouteHumanDecision(st) == IF st.approved THEN "finalize" ELSE "plan_remediation"
===============================================================================
