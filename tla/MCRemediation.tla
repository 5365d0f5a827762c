----------------------------- MODULE MCRemediation -----------------------------
(***************************************************************************)
(* RemediationWorkflow on small instances.  Two drafts pass the compliance *)
(* check, one does not.                                                    *)
(***************************************************************************)
EXTENDS RemediationWorkflow, TLC

CONSTANTS good1, good2, bad

MCPlans == {good1, good2, bad}
MCCompliantPlans == {good1, good2}

\* For the runs with two officers: one draft of each kind.
FewPlans == {good1, bad}
FewCompliantPlans == {good1}

\* The officers are interchangeable.
Symmetry == Permutations(Reqs)

NoFaults    == {}
LlmFaults   == {"llm"}
CrashFaults == {"crash"}
HostFaults  == {"llm", "db", "crash"}
AckFaults   == {"ack"}
===============================================================================
