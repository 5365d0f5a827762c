----------------------- MODULE RemediationWorkflow_proofs -----------------------
(***************************************************************************)
(* Proofs about RemediationWorkflow, for every number of cases, requests   *)
(* and workers, either checkpointer, every set of faults and any bounds.   *)
(***************************************************************************)
EXTENDS RemediationWorkflow, TLAPS

USE PlansAssumption, MaxRevisionsAssumption, ProcsAssumption, EnvironmentAssumption

(***************************************************************************)
(* Types of the building blocks.                                           *)
(***************************************************************************)

\* _build_initial_state's state is well-typed.
LEMMA InitialStateTyped == InitialState \in AgentState
BY DEF InitialState, AgentState, ComplianceStatuses, Notes

\* plan_remediation keeps the agent's state well-typed.
LEMMA PlanTyped ==
  ASSUME NEW st \in AgentState, NEW draft \in Plans
  PROVE  PlanRemediation(st, draft) \in AgentState
<1>1. st.rev + 1 \in Nat
  BY DEF AgentState
<1> QED
  BY <1>1 DEF PlanRemediation, AgentState, ComplianceStatuses, Notes

\* compliance_check keeps the agent's state well-typed, and the edge taken from it
\* leads to a node of the graph.
LEMMA ComplianceTyped ==
  ASSUME NEW st \in AgentState
  PROVE  /\ ComplianceCheck(st) \in AgentState
         /\ RouteCompliance(ComplianceCheck(st)) \in NextNodes
<1>1. st.rev >= MaxRevisions \/ st.rev < MaxRevisions
  BY DEF AgentState
<1>2. ComplianceCheck(st) \in AgentState
  BY <1>1 DEF ComplianceCheck, AgentState, ComplianceStatuses, Notes
<1>3. RouteCompliance(ComplianceCheck(st)) \in NextNodes
  BY <1>1 DEF ComplianceCheck, RouteCompliance, NextNodes, Nodes, AgentState
<1> QED
  BY <1>2, <1>3

\* human_review keeps the agent's state well-typed, and the edge taken from it leads
\* to a node of the graph.
LEMMA ReviewTyped ==
  ASSUME NEW st \in AgentState, NEW d \in Decisions
  PROVE  /\ HumanReview(st, d) \in AgentState
         /\ RouteHumanDecision(HumanReview(st, d)) \in NextNodes
BY DEF HumanReview, RouteHumanDecision, AgentState, Notes, NextNodes, Nodes

\* A checkpoint put keeps the stores well-typed.
LEMMA PutTyped ==
  ASSUME TypeOK, NEW w \in Workers, NEW c \in Cases,
         NEW st \in AgentState, NEW next \in NextNodes, Put(w, c, st, next)
  PROVE  ckpt' \in [Workers -> [Cases -> Checkpoint]]
BY DEF TypeOK, Put, Checkpoint

\* A process at rest is well-typed.
LEMMA AtRestTyped ==
  ASSUME TypeOK, NEW p \in Procs, NEW pc \in PCs
  PROVE  AtRest(p, pc) \in Run
<1>1. (CHOOSE w \in Workers : TRUE) \in Workers
  OBVIOUS
<1>2. InitialState \in AgentState
  BY InitialStateTyped
<1>3. NoRow \in Row
  BY DEF NoRow, Row, Notes
<1>4. run[p] \in Run
  BY DEF TypeOK
<1> QED
  BY <1>1, <1>2, <1>3, <1>4 DEF AtRest, Run, Decisions, NextNodes

\* An UPDATE of a row keeps it well-typed.
LEMMA FlushedTyped ==
  ASSUME NEW current \in Row, NEW seen \in Row, NEW object \in Row
  PROVE  Flushed(current, seen, object) \in Row
BY DEF Flushed, Row

\* What run_case assigns to the case object is well-typed.
LEMMA AssignedTyped ==
  ASSUME TypeOK, NEW p \in Procs
  PROVE  Assigned(p) \in Row
<1>1. /\ run[p].st \in AgentState
      /\ run[p].seen \in Row
      /\ run[p].paused \in BOOLEAN
  BY DEF TypeOK, Run
<1> QED
  BY <1>1 DEF Assigned, Outcome, Resolved, Row, AgentState, Statuses

\* Moving a process keeps the processes well-typed.
LEMMA GotoTyped ==
  ASSUME TypeOK, NEW p \in Procs, NEW pc \in PCs, Goto(p, pc)
  PROVE  run' \in [Procs -> Run]
<1>1. run \in [Procs -> Run]
  BY DEF TypeOK
<1> QED
  BY <1>1 DEF Goto, Run

\* Ending a run keeps the processes well-typed.
LEMMA RestTyped ==
  ASSUME TypeOK, NEW p \in Procs, NEW pc \in PCs, Rest(p, pc)
  PROVE  run' \in [Procs -> Run]
BY AtRestTyped DEF Rest, TypeOK

\* Handing a run back to its request keeps the processes well-typed.
LEMMA ReturnTyped ==
  ASSUME TypeOK, NEW p \in Procs, Return(p)
  PROVE  run' \in [Procs -> Run]
BY GotoTyped, RestTyped DEF Return, PCs

\* run_case's transaction keeps the tables well-typed.
LEMMA PersistTyped ==
  ASSUME TypeOK, NEW p \in Procs, Persist(p)
  PROVE  row' \in [Cases -> Row] /\ audit' \in [Cases -> Audit]
<1>1. run[p].case \in Cases /\ run[p].seen \in Row /\ run[p].logs \in SUBSET Nodes
  BY DEF TypeOK, Run
<1>2. Assigned(p) \in Row
  BY AssignedTyped
<1>3. row[run[p].case] \in Row
  BY <1>1 DEF TypeOK
<1>4. Flushed(row[run[p].case], run[p].seen, Assigned(p)) \in Row
  BY <1>1, <1>2, <1>3, FlushedTyped
<1>5. row' \in [Cases -> Row]
  BY <1>4 DEF Persist, TypeOK
<1>6. audit' \in [Cases -> Audit]
  BY <1>1, <1>2 DEF Persist, TypeOK, Audit, Row
<1> QED
  BY <1>5, <1>6

\* One superstep keeps all variables well-typed, whatever well-typed state the node
\* returns.
LEMMA SuperstepTyped ==
  ASSUME TypeOK, NEW p \in Procs, NEW node \in Nodes,
         NEW st \in AgentState, NEW next \in NextNodes,
         Superstep(p, node, st, next), signed' \in [Cases -> SUBSET (Plans \union {NoPlan})]
  PROVE  TypeOK'
<1>1. run[p] \in Run /\ run[p].worker \in Workers /\ run[p].case \in Cases
  BY DEF TypeOK, Run
<1>2. ckpt' \in [Workers -> [Cases -> Checkpoint]]
  BY <1>1, PutTyped DEF Superstep
<1>3. run' \in [Procs -> Run]
  <2>1. run \in [Procs -> Run]
    BY DEF TypeOK
  <2>2. [run[p] EXCEPT !.pc = IF next = "END" THEN "snapshot" ELSE "stream",
                       !.armed = FALSE, !.st = st, !.next = next,
                       !.last = node, !.logs = @ \union {node}] \in Run
    BY <1>1 DEF Run, PCs
  <2> QED
    BY <2>1, <2>2 DEF Superstep
<1>4. executed' \in [Cases -> SUBSET Nodes]
  BY DEF TypeOK, Superstep
<1> QED
  BY <1>2, <1>3, <1>4 DEF TypeOK, Superstep

(***************************************************************************)
(* Type correctness.                                                       *)
(***************************************************************************)

\* The initial state, empty tables and idle processes, is well-typed.
LEMMA TypeInit == Init => TypeOK
<1> SUFFICES ASSUME Init PROVE TypeOK
  OBVIOUS
<1>1. InitialState \in AgentState
  BY InitialStateTyped
<1>2. NoRow \in Row /\ NoCheckpoint \in Checkpoint
  BY <1>1 DEF NoRow, Row, Notes, NoCheckpoint, Checkpoint, NextNodes
<1>3. /\ (CHOOSE w \in Workers : TRUE) \in Workers
      /\ (CHOOSE c \in Cases : TRUE) \in Cases
  OBVIOUS
<1>4. run \in [Procs -> Run]
  BY <1>1, <1>2, <1>3 DEF Init, Run, Procs, PCs, Decisions, NextNodes
<1> QED
  BY <1>2, <1>4 DEF Init, TypeOK, Audit

\* Every step of the workflow, one step per action, keeps the variables well-typed.
LEMMA TypeNext == TypeOK /\ [Next]_vars => TypeOK'
<1> SUFFICES ASSUME TypeOK, [Next]_vars PROVE TypeOK'
  OBVIOUS
<1>a. /\ row \in [Cases -> Row] /\ audit \in [Cases -> Audit]
      /\ ckpt \in [Workers -> [Cases -> Checkpoint]] /\ run \in [Procs -> Run]
      /\ signed \in [Cases -> SUBSET (Plans \union {NoPlan})]
      /\ executed \in [Cases -> SUBSET Nodes]
  BY DEF TypeOK
<1>b. Cases \subseteq Procs /\ Reqs \subseteq Procs
  BY DEF Procs
<1>c. {"idle", "viewing", "queued", "starting", "stream", "snapshot", "load", "commit",
       "failing", "failcommit"} \subseteq PCs
  BY DEF PCs
<1>0. ASSUME NEW p \in Procs
      PROVE  /\ run[p] \in Run /\ run[p].case \in Cases /\ run[p].worker \in Workers
             /\ run[p].st \in AgentState /\ run[p].seen \in Row
             /\ run[p].decision \in Decisions /\ run[p].logs \in SUBSET Nodes
  BY <1>a DEF Run
<1>1. ASSUME NEW c \in Cases, NEW w \in Workers, OpenCase(c, w) PROVE TypeOK'
  <2>0. row[c] \in Row /\ c \in Procs /\ AtRest(c, "queued") \in Run
    BY <1>a, <1>b, <1>c, AtRestTyped
  <2>1. row' \in [Cases -> Row]
    <3>1. [row[c] EXCEPT !.status = "PENDING_CONTEXT"] \in Row
      BY <2>0 DEF Row, Statuses
    <3> QED
      BY <1>1, <1>a, <3>1 DEF OpenCase
  <2>2. audit' \in [Cases -> Audit]
    BY <1>1, <1>a DEF OpenCase, Audit, Statuses
  <2>3. run' \in [Procs -> Run]
    <3>1. [AtRest(c, "queued") EXCEPT !.worker = w] \in Run
      BY <2>0 DEF Run
    <3> QED
      BY <1>1, <1>a, <1>b, <3>1 DEF OpenCase
  <2> QED
    BY <1>1, <2>1, <2>2, <2>3 DEF OpenCase, TypeOK
<1>2. ASSUME NEW c \in Cases, BuildInitialState(c) PROVE TypeOK'
  BY <1>2, <1>b, GotoTyped DEF BuildInitialState, PCs, TypeOK
<1>3. ASSUME NEW r \in Reqs, NEW c \in Cases, GetCase(r, c) PROVE TypeOK'
  <2>0. row[c].plan \in Plans \union {NoPlan} /\ r \in Procs /\ run[r] \in Run
    BY <1>a, <1>b DEF Row
  <2>1. [run[r] EXCEPT !.pc = "viewing", !.case = c, !.shown = row[c].plan] \in Run
    BY <1>c, <2>0 DEF Run
  <2>2. run' \in [Procs -> Run]
    BY <1>3, <1>a, <1>b, <2>1 DEF GetCase
  <2> QED
    BY <1>3, <2>2 DEF GetCase, TypeOK
<1>4. ASSUME NEW r \in Reqs, NEW d \in {"approve", "reject"}, NEW w \in Workers,
             Decide(r, d, w)
      PROVE  TypeOK'
  <2>1. ASSUME run' = [run EXCEPT ![r].pc = "starting", ![r].decision = d, ![r].worker = w]
        PROVE  run' \in [Procs -> Run]
    <3>0. d \in Decisions /\ r \in Procs /\ run[r] \in Run
      BY <1>a, <1>b DEF Decisions
    <3>1. [run[r] EXCEPT !.pc = "starting", !.decision = d, !.worker = w] \in Run
      BY <1>c, <3>0 DEF Run
    <3> QED
      BY <1>a, <1>b, <2>1, <3>1
  <2>2. run' \in [Procs -> Run]
    BY <1>4, <1>b, <2>1, RestTyped DEF Decide, PCs
  <2> QED
    BY <1>4, <2>2 DEF Decide, TypeOK
<1>5. ASSUME NEW p \in Procs, StartFresh(p) PROVE TypeOK'
  <2>1. InitialState \in AgentState /\ "retrieve_context" \in NextNodes
    BY InitialStateTyped DEF NextNodes, Nodes
  <2>2. ckpt' \in [Workers -> [Cases -> Checkpoint]]
    BY <1>0, <1>5, <2>1, PutTyped DEF StartFresh
  <2>3. run' \in [Procs -> Run]
    <3>1. [run[p] EXCEPT !.pc = "stream", !.st = InitialState,
                         !.next = "retrieve_context"] \in Run
      BY <1>0, <1>c, <2>1 DEF Run
    <3> QED
      BY <1>5, <1>a, <3>1 DEF StartFresh
  <2> QED
    BY <1>5, <2>2, <2>3 DEF StartFresh, TypeOK
<1>6. ASSUME NEW p \in Procs, StartResume(p) PROVE TypeOK'
  <2> DEFINE saved == ckpt[run[p].worker][run[p].case]
             pc == CASE saved.next = "none" -> "failing"
                     [] saved.next = "END"  -> "snapshot"
                     [] OTHER               -> "stream"
  <2>1. saved.st \in AgentState /\ saved.next \in NextNodes
    BY <1>0, <1>a DEF Checkpoint
  <2>2. pc \in PCs
    BY DEF PCs
  <2>3. [run[p] EXCEPT !.pc = pc, !.armed = TRUE, !.st = saved.st,
                       !.next = saved.next] \in Run
    BY <1>0, <2>1, <2>2 DEF Run
  <2>4. run' \in [Procs -> Run]
    BY <1>6, <1>a, <2>3 DEF StartResume
  <2> QED
    BY <1>6, <2>4 DEF StartResume, TypeOK
<1>7. ASSUME NEW p \in Procs, RunRetrieveContext(p) PROVE TypeOK'
  BY <1>0, <1>a, <1>7, SuperstepTyped DEF RunRetrieveContext, Nodes, NextNodes
<1>8. ASSUME NEW p \in Procs, RunPlanRemediation(p) PROVE TypeOK'
  <2>1. PICK draft \in Plans : Superstep(p, "plan_remediation",
                    PlanRemediation(run[p].st, draft), "compliance_check")
    BY <1>8 DEF RunPlanRemediation
  <2>2. PlanRemediation(run[p].st, draft) \in AgentState
    BY <1>0, PlanTyped
  <2> QED
    BY <1>8, <1>a, <2>1, <2>2, SuperstepTyped DEF RunPlanRemediation, Nodes, NextNodes
<1>9. ASSUME NEW p \in Procs, RunComplianceCheck(p) PROVE TypeOK'
  <2>1. /\ ComplianceCheck(run[p].st) \in AgentState
        /\ RouteCompliance(ComplianceCheck(run[p].st)) \in NextNodes
    BY <1>0, ComplianceTyped
  <2> QED
    BY <1>9, <1>a, <2>1, SuperstepTyped DEF RunComplianceCheck, Nodes
<1>10. ASSUME NEW p \in Procs, PauseForReview(p) PROVE TypeOK'
  <2>1. [run[p] EXCEPT !.pc = "snapshot", !.paused = TRUE] \in Run
    BY <1>0, <1>c DEF Run
  <2> QED
    BY <1>10, <1>a, <2>1 DEF PauseForReview, TypeOK
<1>11. ASSUME NEW p \in Procs, RunHumanReview(p) PROVE TypeOK'
  <2> DEFINE st == HumanReview(run[p].st, run[p].decision)
  <2>1. st \in AgentState /\ RouteHumanDecision(st) \in NextNodes
    BY <1>0, ReviewTyped
  <2>2. st.plan \in Plans \union {NoPlan}
    BY <2>1 DEF AgentState
  <2>3. signed' \in [Cases -> SUBSET (Plans \union {NoPlan})]
    BY <1>0, <1>11, <1>a, <2>2 DEF RunHumanReview
  <2> QED
    BY <1>11, <2>1, <2>3, SuperstepTyped DEF RunHumanReview, Nodes
<1>12. ASSUME NEW p \in Procs, RunFinalize(p) PROVE TypeOK'
  BY <1>0, <1>a, <1>12, SuperstepTyped DEF RunFinalize, Nodes, NextNodes
<1>13. ASSUME NEW p \in Procs, RunEscalate(p) PROVE TypeOK'
  BY <1>0, <1>a, <1>13, SuperstepTyped DEF RunEscalate, Nodes, NextNodes
<1>14. ASSUME NEW p \in Procs, NodeRaises(p) PROVE TypeOK'
  BY <1>14, GotoTyped DEF NodeRaises, PCs, TypeOK
<1>15. ASSUME NEW p \in Procs, Snapshot(p) PROVE TypeOK'
  <2>1. ckpt[run[p].worker][run[p].case].st \in AgentState
    BY <1>0, <1>a DEF Checkpoint
  <2>2. [run[p] EXCEPT !.pc = "load",
                       !.st = ckpt[run[p].worker][run[p].case].st] \in Run
    BY <1>0, <1>c, <2>1 DEF Run
  <2> QED
    BY <1>15, <1>a, <2>2 DEF Snapshot, TypeOK
<1>16. ASSUME NEW p \in Procs, LoadRow(p) PROVE TypeOK'
  <2>0. row[run[p].case] \in Row
    BY <1>0, <1>a
  <2>1. [run[p] EXCEPT !.pc = "commit", !.seen = row[run[p].case]] \in Run
    BY <1>0, <1>c, <2>0 DEF Run
  <2> QED
    BY <1>16, <1>a, <2>1 DEF LoadRow, TypeOK
<1>17. ASSUME NEW p \in Procs, Commit(p) PROVE TypeOK'
  BY <1>17, PersistTyped, ReturnTyped DEF Commit, TypeOK
<1>18. ASSUME NEW p \in Procs, CommitAckLost(p) PROVE TypeOK'
  BY <1>18, PersistTyped, GotoTyped DEF CommitAckLost, PCs, TypeOK
<1>19. ASSUME NEW p \in Procs, FailureLoad(p) PROVE TypeOK'
  <2>0. row[run[p].case] \in Row
    BY <1>0, <1>a
  <2>1. [run[p] EXCEPT !.pc = "failcommit", !.seen = row[run[p].case], !.logs = {}] \in Run
    BY <1>0, <1>c, <2>0 DEF Run
  <2> QED
    BY <1>19, <1>a, <2>1 DEF FailureLoad, TypeOK
<1>20. ASSUME NEW p \in Procs, FailureCommit(p) PROVE TypeOK'
  <2> DEFINE object == [run[p].seen EXCEPT !.status = "ESCALATED", !.notes = "failed",
                                           !.resolved = TRUE]
  <2>1. object \in Row
    BY <1>0 DEF Row, Statuses, Notes
  <2>2. Flushed(row[run[p].case], run[p].seen, object) \in Row
    BY <1>0, <1>a, <2>1, FlushedTyped
  <2>3. row' \in [Cases -> Row]
    BY <1>0, <1>20, <1>a, <2>2 DEF FailureCommit
  <2>4. audit' \in [Cases -> Audit]
    BY <1>20, <1>a DEF FailureCommit, Audit, Statuses
  <2> QED
    BY <1>20, <2>3, <2>4, ReturnTyped DEF FailureCommit, TypeOK
<1>21. ASSUME NEW r \in Reqs, Respond(r) PROVE TypeOK'
  BY <1>21, <1>b, RestTyped DEF Respond, PCs, TypeOK
<1>22. ASSUME NEW p \in Procs, DbFails(p) PROVE TypeOK'
  <2>1. run' \in [Procs -> Run]
    BY <1>22, GotoTyped, RestTyped DEF DbFails, Raise, PCs
  <2> QED
    BY <1>22, <2>1 DEF DbFails, TypeOK
<1>23. ASSUME NEW w \in Workers, Crash(w) PROVE TypeOK'
  <2>1. \A p \in Procs : AtRest(p, IF p \in Cases THEN "dead" ELSE "idle") \in Run
    BY AtRestTyped DEF PCs
  <2>2. run' \in [Procs -> Run]
    BY <1>23, <1>a, <2>1 DEF Crash
  <2>3. NoCheckpoint \in Checkpoint
    BY InitialStateTyped DEF NoCheckpoint, Checkpoint, NextNodes
  <2>4. ckpt' \in [Workers -> [Cases -> Checkpoint]]
    BY <1>23, <1>a, <2>3 DEF Crash
  <2> QED
    BY <1>23, <2>2, <2>4 DEF Crash, TypeOK
<1>24. CASE UNCHANGED vars
  BY <1>24 DEF vars, TypeOK
<1> QED
  BY <1>1, <1>2, <1>3, <1>4, <1>5, <1>6, <1>7, <1>8, <1>9, <1>10, <1>11, <1>12,
     <1>13, <1>14, <1>15, <1>16, <1>17, <1>18, <1>19, <1>20, <1>21, <1>22, <1>23,
     <1>24 DEF Next, RunStep, Fault

\* Every reachable state of the workflow is well-typed.
THEOREM TypeCorrect == Spec => []TypeOK
BY TypeInit, TypeNext, PTL DEF Spec

(***************************************************************************)
(* Sign-off.  SignOffInvariant is inductive: no step needs to know which   *)
(* process it competes with, because a checkpoint is sound for whichever   *)
(* run reads it and the set of signed plans only grows.                    *)
(***************************************************************************)

\* The inductive invariant holds of the empty tables.
LEMMA SignOffInit == Init => SignOffInvariant
<1> SUFFICES ASSUME Init PROVE SignOffInvariant
  OBVIOUS
<1>1. \A p \in Procs : run[p].pc = "idle" /\ run[p].last = "none"
  BY DEF Init
<1>2. \A p \in Procs : RunIsSound(p)
  BY <1>1 DEF RunIsSound
<1>3. SignedPlansComply /\ ApprovedWasSigned
  BY DEF Init, SignedPlansComply, ApprovedWasSigned, NoRow
<1>4. \A w \in Workers, c \in Cases :
        NextIsSound(signed[c], ckpt[w][c].st, ckpt[w][c].next)
  BY DEF Init, NextIsSound, NoCheckpoint
<1> QED
  BY <1>2, <1>3, <1>4 DEF SignOffInvariant

\* A step of process p that writes no checkpoint and signs nothing keeps the
\* invariant if it leaves p's run sound and approves no row without a signature.
LEMMA SignOffLocal ==
  ASSUME SignOffInvariant, UNCHANGED <<ckpt, signed, executed>>, NEW p \in Procs,
         \A q \in Procs \ {p} : run'[q] = run[q],
         RunIsSound(p)',
         \A c \in Cases : row'[c].status = "APPROVED"
                            => row[c].status = "APPROVED" \/ signed[c] # {}
  PROVE  SignOffInvariant'
<1>1. \A q \in Procs : RunIsSound(q)'
  <2> SUFFICES ASSUME NEW q \in Procs, q # p PROVE RunIsSound(q)'
    OBVIOUS
  <2> QED
    BY DEF RunIsSound, SignOffInvariant
<1>2. SignedPlansComply' /\ ApprovedWasSigned'
  BY DEF SignOffInvariant, SignedPlansComply, ApprovedWasSigned
<1> QED
  BY <1>1, <1>2 DEF SignOffInvariant

\* A superstep keeps the invariant if the state it leaves is sound for the next node.
LEMMA SignOffSuperstep ==
  ASSUME TypeOK, SignOffInvariant, NEW p \in Procs, NEW node \in Nodes,
         NEW st, NEW next, Superstep(p, node, st, next),
         \A c \in Cases : signed[c] \subseteq signed'[c] /\ signed'[c] \subseteq CompliantPlans,
         NextIsSound(signed'[run[p].case], st, next),
         node = "finalize" => signed[run[p].case] # {}
  PROVE  SignOffInvariant'
<1>1. run[p].case \in Cases /\ run[p].worker \in Workers
  BY DEF TypeOK, Run
<1>2. \A q \in Procs : RunIsSound(q)
  BY DEF SignOffInvariant
<1>3. \A q \in Procs : run[q].case \in Cases
  BY DEF TypeOK, Run
<1>4. \A q \in Procs : RunIsSound(q)'
  <2> SUFFICES ASSUME NEW q \in Procs PROVE RunIsSound(q)'
    OBVIOUS
  <2>1. CASE q # p
    <3>1. run'[q] = run[q]
      BY <2>1 DEF Superstep, TypeOK
    <3> QED
      BY <1>2, <1>3, <3>1 DEF RunIsSound, NextIsSound
  <2>2. CASE q = p
    <3>1. /\ run'[p].pc \in {"snapshot", "stream"} /\ run'[p].case = run[p].case
          /\ run'[p].st = st /\ run'[p].next = next /\ run'[p].last = node
      BY DEF Superstep, TypeOK, Run
    <3> QED
      BY <1>1, <2>2, <3>1 DEF RunIsSound
  <2> QED
    BY <2>1, <2>2
<1>5. ASSUME NEW w \in Workers, NEW c \in Cases
      PROVE  NextIsSound(signed'[c], ckpt'[w][c].st, ckpt'[w][c].next)
  <2>1. NextIsSound(signed[c], ckpt[w][c].st, ckpt[w][c].next)
    BY DEF SignOffInvariant
  <2>2. NextIsSound(signed'[c], ckpt[w][c].st, ckpt[w][c].next)
    BY <2>1 DEF NextIsSound
  <2>3. \/ ckpt'[w][c] = ckpt[w][c]
        \/ c = run[p].case /\ ckpt'[w][c] = [st |-> st, next |-> next]
    BY <1>1 DEF Superstep, Put, TypeOK
  <2> QED
    BY <2>2, <2>3
<1>6. ApprovedWasSigned'
  BY <1>1 DEF SignOffInvariant, ApprovedWasSigned, Superstep, TypeOK
<1>7. SignedPlansComply'
  BY DEF SignedPlansComply
<1> QED
  BY <1>4, <1>5, <1>6, <1>7 DEF SignOffInvariant

\* The edge taken from compliance_check fits the state it leaves.
LEMMA CheckIsSound ==
  ASSUME NEW st \in AgentState, NEW plans
  PROVE  NextIsSound(plans, ComplianceCheck(st), RouteCompliance(ComplianceCheck(st)))
<1>1. st.rev >= MaxRevisions \/ st.rev < MaxRevisions
  BY DEF AgentState
<1>2. CASE st.plan \in CompliantPlans
  BY <1>2 DEF ComplianceCheck, RouteCompliance, NextIsSound, AgentState
<1>3. CASE st.plan \notin CompliantPlans
  BY <1>1, <1>3 DEF ComplianceCheck, RouteCompliance, NextIsSound, AgentState
<1> QED
  BY <1>2, <1>3

\* Every step keeps the inductive invariant: the steps that write no checkpoint by
\* SignOffLocal, the supersteps by SignOffSuperstep, the transactions by what Flushed
\* can write.
LEMMA SignOffNext == TypeOK /\ SignOffInvariant /\ [Next]_vars => SignOffInvariant'
<1> SUFFICES ASSUME TypeOK, SignOffInvariant, [Next]_vars PROVE SignOffInvariant'
  OBVIOUS
<1>a. /\ row \in [Cases -> Row] /\ run \in [Procs -> Run]
      /\ Cases \subseteq Procs /\ Reqs \subseteq Procs
  BY DEF TypeOK, Procs
<1>b. ASSUME NEW p \in Procs
      PROVE  /\ run[p] \in Run /\ run[p].case \in Cases /\ run[p].worker \in Workers
             /\ run[p].st \in AgentState /\ run[p].decision \in Decisions
  BY <1>a DEF Run
<1>c. \A p \in Procs : RunIsSound(p)
  BY DEF SignOffInvariant
<1>d. \A c \in Cases : signed[c] \subseteq CompliantPlans
  BY DEF SignOffInvariant, SignedPlansComply
<1>e. ASSUME NEW p \in Procs, NEW pc, Rest(p, pc), UNCHANGED <<ckpt, signed, executed>>,
             \A c \in Cases : row'[c].status = "APPROVED"
                                => row[c].status = "APPROVED" \/ signed[c] # {}
      PROVE  pc # "stream" => SignOffInvariant'
  <2>1. run'[p].pc = pc /\ run'[p].last = "none"
    BY <1>a, <1>b, <1>e DEF Rest, AtRest, Run
  <2>2. pc # "stream" => RunIsSound(p)'
    BY <2>1 DEF RunIsSound
  <2>3. \A q \in Procs \ {p} : run'[q] = run[q]
    BY <1>a, <1>e DEF Rest
  <2> QED
    BY <1>e, <2>2, <2>3, SignOffLocal
<1>f. ASSUME NEW p \in Procs, NEW pc, Goto(p, pc), UNCHANGED <<ckpt, signed, executed>>,
             pc \notin {"stream", "idle", "viewing"},
             pc \in {"queued", "starting"} => run[p].last = "none",
             \A c \in Cases : row'[c].status = "APPROVED"
                                => row[c].status = "APPROVED" \/ signed[c] # {}
      PROVE  SignOffInvariant'
  <2>1. run'[p].pc = pc /\ run'[p].last = run[p].last /\ run'[p].case = run[p].case
    BY <1>a, <1>b, <1>f DEF Goto, Run
  <2>2. RunIsSound(p)'
    BY <1>c, <1>f, <2>1 DEF RunIsSound
  <2>3. \A q \in Procs \ {p} : run'[q] = run[q]
    BY <1>a, <1>f DEF Goto
  <2> QED
    BY <1>f, <2>2, <2>3, SignOffLocal
<1>g. ASSUME NEW p \in Procs, Return(p), UNCHANGED <<ckpt, signed, executed>>,
             \A c \in Cases : row'[c].status = "APPROVED"
                                => row[c].status = "APPROVED" \/ signed[c] # {}
      PROVE  SignOffInvariant'
  BY <1>e, <1>f, <1>g DEF Return
<1>h. ASSUME NEW p \in Procs, Persist(p)
      PROVE  \A c \in Cases : row'[c].status = "APPROVED"
                               => row[c].status = "APPROVED" \/ signed[c] # {}
  <2> SUFFICES ASSUME NEW c \in Cases, row'[c].status = "APPROVED",
                      row[c].status # "APPROVED"
               PROVE  signed[c] # {}
    OBVIOUS
  <2>1. c = run[p].case /\ row'[c] = Flushed(row[c], run[p].seen, Assigned(p))
    BY <1>a, <1>h DEF Persist
  <2>2. Assigned(p).status = "APPROVED" /\ run[p].seen.status # "APPROVED"
    BY <2>1 DEF Flushed
  <2>3. run[p].last = "finalize"
    BY <2>2 DEF Assigned, Outcome
  <2> QED
    BY <1>c, <2>1, <2>3 DEF RunIsSound
<1>1. ASSUME NEW c \in Cases, NEW w \in Workers, OpenCase(c, w) PROVE SignOffInvariant'
  <2>1. c \in Procs /\ \A q \in Procs \ {c} : run'[q] = run[q]
    BY <1>1, <1>a DEF OpenCase
  <2>2. RunIsSound(c)'
    <3>1. run'[c].pc = "queued" /\ run'[c].last = "none"
      BY <1>1, <1>a, <1>b DEF OpenCase, AtRest, Run
    <3> QED
      BY <3>1 DEF RunIsSound
  <2>3. \A d \in Cases : row'[d].status = "APPROVED" => row[d].status = "APPROVED"
    BY <1>1, <1>a DEF OpenCase, Row
  <2> QED
    BY <1>1, <2>1, <2>2, <2>3, SignOffLocal DEF OpenCase
<1>2. ASSUME NEW c \in Cases, BuildInitialState(c) PROVE SignOffInvariant'
  BY <1>2, <1>a, <1>c, <1>f DEF BuildInitialState, RunIsSound
<1>3. ASSUME NEW r \in Reqs, NEW c \in Cases, GetCase(r, c) PROVE SignOffInvariant'
  <2>1. r \in Procs /\ \A q \in Procs \ {r} : run'[q] = run[q]
    BY <1>3, <1>a DEF GetCase
  <2>2. run'[r].pc = "viewing" /\ run'[r].last = "none"
    BY <1>3, <1>a, <1>b, <1>c DEF GetCase, Run, RunIsSound
  <2>3. RunIsSound(r)'
    BY <2>2 DEF RunIsSound
  <2> QED
    BY <1>3, <2>1, <2>3, SignOffLocal DEF GetCase
<1>4. ASSUME NEW r \in Reqs, NEW d \in {"approve", "reject"}, NEW w \in Workers,
             Decide(r, d, w)
      PROVE  SignOffInvariant'
  <2>1. CASE row[run[r].case].status = "AWAITING_HUMAN_REVIEW"
    <3>1. r \in Procs /\ \A q \in Procs \ {r} : run'[q] = run[q]
      BY <1>4, <1>a, <2>1 DEF Decide
    <3>2. run'[r].pc = "starting" /\ run'[r].last = "none"
      BY <1>4, <1>a, <1>b, <1>c, <2>1 DEF Decide, Run, RunIsSound
    <3>3. RunIsSound(r)'
      BY <3>2 DEF RunIsSound
    <3> QED
      BY <1>4, <3>1, <3>3, SignOffLocal DEF Decide
  <2>2. CASE row[run[r].case].status # "AWAITING_HUMAN_REVIEW"
    BY <1>4, <1>a, <1>e, <2>2 DEF Decide
  <2> QED
    BY <2>1, <2>2
<1>5. ASSUME NEW p \in Procs, StartFresh(p) PROVE SignOffInvariant'
  <2>1. /\ run'[p].pc = "stream" /\ run'[p].last = run[p].last
        /\ run'[p].case = run[p].case /\ run[p].last = "none"
        /\ run'[p].st = InitialState /\ run'[p].next = "retrieve_context"
    BY <1>5, <1>a, <1>b, <1>c DEF StartFresh, Run, RunIsSound
  <2>2. NextIsSound(signed[run[p].case], InitialState, "retrieve_context")
    BY DEF NextIsSound, InitialState
  <2>3. \A q \in Procs : RunIsSound(q)'
    <3>1. RunIsSound(p)'
      BY <1>5, <2>1, <2>2 DEF RunIsSound, StartFresh
    <3>2. ASSUME NEW q \in Procs, q # p PROVE RunIsSound(q)'
      <4>1. run'[q] = run[q]
        BY <1>5, <1>a, <3>2 DEF StartFresh
      <4> QED
        BY <1>5, <1>c, <4>1 DEF RunIsSound, StartFresh
    <3> QED
      BY <3>1, <3>2
  <2>4. ASSUME NEW w \in Workers, NEW c \in Cases
        PROVE  NextIsSound(signed'[c], ckpt'[w][c].st, ckpt'[w][c].next)
    <3>1. \/ ckpt'[w][c] = ckpt[w][c]
          \/ /\ c = run[p].case
             /\ ckpt'[w][c] = [st |-> InitialState, next |-> "retrieve_context"]
      BY <1>5, <1>b DEF StartFresh, Put, TypeOK
    <3>2. signed'[c] = signed[c]
      BY <1>5 DEF StartFresh
    <3>3. NextIsSound(signed[c], ckpt[w][c].st, ckpt[w][c].next)
      BY DEF SignOffInvariant
    <3> QED
      BY <2>2, <3>1, <3>2, <3>3
  <2>5. SignedPlansComply' /\ ApprovedWasSigned'
    BY <1>5 DEF StartFresh, SignOffInvariant, SignedPlansComply, ApprovedWasSigned
  <2> QED
    BY <2>3, <2>4, <2>5 DEF SignOffInvariant
<1>6. ASSUME NEW p \in Procs, StartResume(p) PROVE SignOffInvariant'
  <2> DEFINE saved == ckpt[run[p].worker][run[p].case]
  <2>a. PICK pc : run' = [run EXCEPT ![p].pc = pc, ![p].armed = TRUE,
                                     ![p].st = saved.st, ![p].next = saved.next]
    BY <1>6 DEF StartResume
  <2>b. run[p].last = "none"
    BY <1>6, <1>c DEF StartResume, RunIsSound
  <2>1. /\ run'[p].last = "none" /\ run'[p].case = run[p].case
        /\ run'[p].st = saved.st /\ run'[p].next = saved.next
    BY <1>a, <1>b, <2>a, <2>b DEF Run
  <2>2. NextIsSound(signed[run[p].case], saved.st, saved.next)
    BY <1>b DEF SignOffInvariant
  <2>3. RunIsSound(p)'
    BY <1>6, <2>1, <2>2 DEF RunIsSound, StartResume
  <2>4. \A q \in Procs \ {p} : run'[q] = run[q]
    BY <1>a, <2>a
  <2> QED
    BY <1>6, <2>3, <2>4, SignOffLocal DEF StartResume
<1>7. ASSUME NEW p \in Procs, RunRetrieveContext(p) PROVE SignOffInvariant'
  <2>1. NextIsSound(signed'[run[p].case], run[p].st, "plan_remediation")
    BY <1>7, <1>c DEF RunRetrieveContext, At, RunIsSound, NextIsSound
  <2> QED
    BY <1>7, <1>d, <2>1, SignOffSuperstep DEF RunRetrieveContext, Nodes
<1>8. ASSUME NEW p \in Procs, RunPlanRemediation(p) PROVE SignOffInvariant'
  <2>1. PICK draft \in Plans : Superstep(p, "plan_remediation",
                    PlanRemediation(run[p].st, draft), "compliance_check")
    BY <1>8 DEF RunPlanRemediation
  <2>2. NextIsSound(signed'[run[p].case], PlanRemediation(run[p].st, draft),
                    "compliance_check")
    BY DEF NextIsSound
  <2> QED
    BY <1>8, <1>d, <2>1, <2>2, SignOffSuperstep DEF RunPlanRemediation, Nodes
<1>9. ASSUME NEW p \in Procs, RunComplianceCheck(p) PROVE SignOffInvariant'
  <2> DEFINE st == ComplianceCheck(run[p].st)
  <2>1. NextIsSound(signed'[run[p].case], st, RouteCompliance(st))
    BY <1>b, CheckIsSound
  <2> QED
    BY <1>9, <1>d, <2>1, SignOffSuperstep DEF RunComplianceCheck, Nodes
<1>10. ASSUME NEW p \in Procs, PauseForReview(p) PROVE SignOffInvariant'
  <2>1. /\ run'[p].pc = "snapshot" /\ run'[p].last = run[p].last
        /\ run'[p].case = run[p].case
    BY <1>10, <1>a, <1>b DEF PauseForReview, Run
  <2>2. RunIsSound(p)'
    BY <1>10, <1>c, <2>1 DEF PauseForReview, RunIsSound
  <2>3. \A q \in Procs \ {p} : run'[q] = run[q]
    BY <1>10, <1>a DEF PauseForReview
  <2> QED
    BY <1>10, <2>2, <2>3, SignOffLocal DEF PauseForReview
<1>11. ASSUME NEW p \in Procs, RunHumanReview(p) PROVE SignOffInvariant'
  <2> DEFINE st == HumanReview(run[p].st, run[p].decision)
             c == run[p].case
  <2>1. run[p].st.plan \in CompliantPlans
    BY <1>11, <1>c DEF RunHumanReview, At, RunIsSound, NextIsSound
  <2>2. st.plan = run[p].st.plan
    BY <1>b DEF HumanReview, AgentState
  <2>3. CASE st.approved
    <3>1. signed' = [signed EXCEPT ![c] = @ \union {st.plan}]
      BY <1>11, <2>3 DEF RunHumanReview
    <3>2. \A d \in Cases : signed[d] \subseteq signed'[d] /\ signed'[d] \subseteq CompliantPlans
      BY <1>b, <1>d, <2>1, <2>2, <3>1 DEF TypeOK
    <3>3. st.plan \in signed'[c]
      BY <1>b, <3>1 DEF TypeOK
    <3>4. NextIsSound(signed'[c], st, RouteHumanDecision(st))
      BY <2>3, <3>3 DEF NextIsSound, RouteHumanDecision
    <3> QED
      BY <1>11, <3>2, <3>4, SignOffSuperstep DEF RunHumanReview, Nodes
  <2>4. CASE ~st.approved
    <3>1. st.notes = "officer"
      BY <1>b, <2>4 DEF HumanReview, AgentState
    <3>2. NextIsSound(signed'[c], st, RouteHumanDecision(st))
      BY <2>4, <3>1 DEF NextIsSound, RouteHumanDecision
    <3>3. signed' = signed
      BY <1>11, <2>4 DEF RunHumanReview
    <3> QED
      BY <1>11, <1>d, <3>2, <3>3, SignOffSuperstep DEF RunHumanReview, Nodes
  <2> QED
    BY <2>3, <2>4
<1>12. ASSUME NEW p \in Procs, RunFinalize(p) PROVE SignOffInvariant'
  <2>1. run[p].st.plan \in signed[run[p].case]
    BY <1>12, <1>c DEF RunFinalize, At, RunIsSound, NextIsSound
  <2>2. NextIsSound(signed'[run[p].case], run[p].st, "END")
    BY DEF NextIsSound
  <2> QED
    BY <1>12, <1>d, <2>1, <2>2, SignOffSuperstep DEF RunFinalize, Nodes
<1>13. ASSUME NEW p \in Procs, RunEscalate(p) PROVE SignOffInvariant'
  <2>1. NextIsSound(signed'[run[p].case], run[p].st, "END")
    BY DEF NextIsSound
  <2> QED
    BY <1>13, <1>d, <2>1, SignOffSuperstep DEF RunEscalate, Nodes
<1>14. ASSUME NEW p \in Procs, NodeRaises(p) PROVE SignOffInvariant'
  BY <1>14, <1>f DEF NodeRaises
<1>15. ASSUME NEW p \in Procs, Snapshot(p) PROVE SignOffInvariant'
  <2>1. /\ run'[p].pc = "load" /\ run'[p].last = run[p].last
        /\ run'[p].case = run[p].case
    BY <1>15, <1>a, <1>b DEF Snapshot, Run
  <2>2. RunIsSound(p)'
    BY <1>15, <1>c, <2>1 DEF Snapshot, RunIsSound
  <2>3. \A q \in Procs \ {p} : run'[q] = run[q]
    BY <1>15, <1>a DEF Snapshot
  <2> QED
    BY <1>15, <2>2, <2>3, SignOffLocal DEF Snapshot
<1>16. ASSUME NEW p \in Procs, LoadRow(p) PROVE SignOffInvariant'
  <2>1. /\ run'[p].pc = "commit" /\ run'[p].last = run[p].last
        /\ run'[p].case = run[p].case
    BY <1>16, <1>a, <1>b DEF LoadRow, Run
  <2>2. RunIsSound(p)'
    BY <1>16, <1>c, <2>1 DEF LoadRow, RunIsSound
  <2>3. \A q \in Procs \ {p} : run'[q] = run[q]
    BY <1>16, <1>a DEF LoadRow
  <2> QED
    BY <1>16, <2>2, <2>3, SignOffLocal DEF LoadRow
<1>17. ASSUME NEW p \in Procs, Commit(p) PROVE SignOffInvariant'
  BY <1>17, <1>g, <1>h DEF Commit
<1>18. ASSUME NEW p \in Procs, CommitAckLost(p) PROVE SignOffInvariant'
  BY <1>18, <1>f, <1>h DEF CommitAckLost
<1>19. ASSUME NEW p \in Procs, FailureLoad(p) PROVE SignOffInvariant'
  <2>1. /\ run'[p].pc = "failcommit" /\ run'[p].last = run[p].last
        /\ run'[p].case = run[p].case
    BY <1>19, <1>a, <1>b DEF FailureLoad, Run
  <2>2. RunIsSound(p)'
    BY <1>19, <1>c, <2>1 DEF FailureLoad, RunIsSound
  <2>3. \A q \in Procs \ {p} : run'[q] = run[q]
    BY <1>19, <1>a DEF FailureLoad
  <2> QED
    BY <1>19, <2>2, <2>3, SignOffLocal DEF FailureLoad
<1>20. ASSUME NEW p \in Procs, FailureCommit(p) PROVE SignOffInvariant'
  <2> DEFINE object == [run[p].seen EXCEPT !.status = "ESCALATED", !.notes = "failed",
                                           !.resolved = TRUE]
  <2>1. object.status = "ESCALATED"
    BY <1>a, <1>b DEF Run, Row
  <2>2. \A c \in Cases : row'[c].status = "APPROVED" => row[c].status = "APPROVED"
    BY <1>20, <1>a, <2>1 DEF FailureCommit, Flushed
  <2> QED
    BY <1>20, <1>g, <2>2 DEF FailureCommit
<1>21. ASSUME NEW r \in Reqs, Respond(r) PROVE SignOffInvariant'
  BY <1>21, <1>a, <1>e DEF Respond
<1>22. ASSUME NEW p \in Procs, DbFails(p) PROVE SignOffInvariant'
  BY <1>22, <1>e, <1>f DEF DbFails, Raise
<1>23. ASSUME NEW w \in Workers, Crash(w) PROVE SignOffInvariant'
  <2>1. \A q \in Procs : RunIsSound(q)'
    <3> SUFFICES ASSUME NEW q \in Procs PROVE RunIsSound(q)'
      OBVIOUS
    <3>1. run'[q] = run[q] \/ (run'[q].pc \in {"dead", "idle"} /\ run'[q].last = "none")
      BY <1>23, <1>b DEF Crash, AtRest, Run
    <3>2. signed' = signed
      BY <1>23 DEF Crash
    <3> QED
      BY <1>c, <3>1, <3>2 DEF RunIsSound
  <2>2. ASSUME NEW v \in Workers, NEW c \in Cases
        PROVE  NextIsSound(signed'[c], ckpt'[v][c].st, ckpt'[v][c].next)
    <3>1. ckpt'[v][c] = ckpt[v][c] \/ ckpt'[v][c] = NoCheckpoint
      BY <1>23 DEF Crash, TypeOK
    <3>2. NextIsSound(signed[c], ckpt[v][c].st, ckpt[v][c].next)
      BY DEF SignOffInvariant
    <3>3. NextIsSound(signed[c], NoCheckpoint.st, NoCheckpoint.next)
      BY DEF NextIsSound, NoCheckpoint
    <3>4. signed' = signed
      BY <1>23 DEF Crash
    <3> QED
      BY <3>1, <3>2, <3>3, <3>4
  <2>3. SignedPlansComply' /\ ApprovedWasSigned'
    BY <1>23 DEF Crash, SignOffInvariant, SignedPlansComply, ApprovedWasSigned
  <2> QED
    BY <2>1, <2>2, <2>3 DEF SignOffInvariant
<1>24. CASE UNCHANGED vars
  BY <1>24 DEF vars, SignOffInvariant, SignedPlansComply, ApprovedWasSigned, RunIsSound
<1> QED
  BY <1>1, <1>2, <1>3, <1>4, <1>5, <1>6, <1>7, <1>8, <1>9, <1>10, <1>11, <1>12,
     <1>13, <1>14, <1>15, <1>16, <1>17, <1>18, <1>19, <1>20, <1>21, <1>22, <1>23,
     <1>24 DEF Next, RunStep, Fault

\* SignOffInvariant holds of every reachable state.
THEOREM SignOffHolds == Spec => []SignOffInvariant
BY TypeCorrect, SignOffInit, SignOffNext, PTL DEF Spec

\* No officer's approval is ever consumed for a plan that did not pass the compliance
\* check (human_review and run_case, under any interleaving, crash or fault).
THEOREM SignedPlansAlwaysComply == Spec => []SignedPlansComply
<1>1. SignOffInvariant => SignedPlansComply
  BY DEF SignOffInvariant
<1> QED
  BY <1>1, SignOffHolds, PTL

\* No case is finalized or APPROVED without a consumed approval.
THEOREM ApprovedWasAlwaysSigned == Spec => []ApprovedWasSigned
<1>1. SignOffInvariant => ApprovedWasSigned
  BY DEF SignOffInvariant
<1> QED
  BY <1>1, SignOffHolds, PTL

\* Every redraft is given feedback, whichever run or resume executes it.
THEOREM RedraftAlwaysHasFeedback == Spec => []RedraftHasFeedback
<1>1. SignOffInvariant => RedraftHasFeedback
  BY DEF SignOffInvariant, RunIsSound, NextIsSound, RedraftHasFeedback, At
<1> QED
  BY <1>1, SignOffHolds, PTL
===============================================================================
