----------------------------- MODULE CaseLifecycle -----------------------------
(***************************************************************************)
(* What the remediation workflow promises to whoever reads                 *)
(* remediation_cases: the life of a case as its row shows it.              *)
(*                                                                         *)
(*   ABSENT -> PENDING_CONTEXT -> AWAITING_HUMAN_REVIEW -> APPROVED        *)
(*                             \                       /-> ESCALATED       *)
(*                                                                         *)
(* RemediationWorkflow implements it when officers decide one at a time    *)
(* and the hosts and the database do not fail.                             *)
(***************************************************************************)
CONSTANTS Cases, Plans, CompliantPlans, NoPlan

VARIABLES status, plan

vars == <<status, plan>>

Init ==
  /\ status = [c \in Cases |-> "ABSENT"]
  /\ plan = [c \in Cases |-> NoPlan]

\* The case is opened for a customer above the risk threshold.
Open(c) ==
  /\ status[c] = "ABSENT"
  /\ status' = [status EXCEPT ![c] = "PENDING_CONTEXT"]
  /\ UNCHANGED plan

\* A compliant plan is put up for review: the first one, or a new one after a
\* rejection.
Review(c) ==
  /\ status[c] \in {"PENDING_CONTEXT", "AWAITING_HUMAN_REVIEW"}
  /\ status' = [status EXCEPT ![c] = "AWAITING_HUMAN_REVIEW"]
  /\ \E draft \in CompliantPlans : plan' = [plan EXCEPT ![c] = draft]

\* The plan under review, and no other, is approved.
Approve(c) ==
  /\ status[c] = "AWAITING_HUMAN_REVIEW"
  /\ status' = [status EXCEPT ![c] = "APPROVED"]
  /\ UNCHANGED plan

\* The agent gives up, or fails.
Escalate(c) ==
  /\ status[c] \in {"PENDING_CONTEXT", "AWAITING_HUMAN_REVIEW"}
  /\ status' = [status EXCEPT ![c] = "ESCALATED"]
  /\ \E draft \in Plans \union {NoPlan} : plan' = [plan EXCEPT ![c] = draft]

Next == \E c \in Cases : Open(c) \/ Review(c) \/ Approve(c) \/ Escalate(c)

\* What may happen to a case; its progress apart.
Safety == Init /\ [][Next]_vars

Resolve(c) == status[c] = "PENDING_CONTEXT" /\ (Review(c) \/ Escalate(c))

\* The agent does not leave a case pending; officers may never decide.
Spec == Safety /\ \A c \in Cases : WF_vars(Resolve(c))
===============================================================================
