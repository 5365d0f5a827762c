------------------------ MODULE RemediationResume_proofs ------------------------
(***************************************************************************)
(* Proofs about RemediationWorkflow on dependable hosts, when no case is   *)
(* decided twice at the same time: a paused case is resumed where it was   *)
(* left, an approval approves it and a rejection does not, and the rows    *)
(* behave as CaseLifecycle says.  For every number of cases, requests and  *)
(* workers, any bounds and failing nodes.                                  *)
(***************************************************************************)
EXTENDS RemediationCases_proofs

USE PlansAssumption, MaxRevisionsAssumption, ProcsAssumption, EnvironmentAssumption

\* Neither hosts nor the database fail, and there is one store of checkpoints: the
\* shared one, or that of the only worker.  Retrieval and the LLM may raise.
Dependable ==
  /\ Faults \subseteq {"llm"}
  /\ SharedCheckpointer \/ \A v, w \in Workers : v = w

-----------------------------------------------------------------------------
(* The inductive invariant *)

\* The case is paused at human_review, in every store, at the plan and the revision
\* count of its row.
AtReview(c) ==
  \A w \in Workers : /\ ckpt[w][c].next = "human_review"
                     /\ ckpt[w][c].st.plan = row[c].plan
                     /\ ckpt[w][c].st.rev = row[c].rev

\* A run that approves goes from human_review straight to finalize with the plan of the
\* row; a run that does not never gets to finalize.
ApprovalFits(p) ==
  /\ run[p].decision = "approve" =>
       /\ run[p].pc \notin {"failing", "failcommit"}
       /\ run[p].pc = "stream" =>
            /\ \/ run[p].next = "human_review" /\ run[p].armed
               \/ run[p].next = "finalize"
            /\ run[p].st.plan = row[run[p].case].plan
       /\ run[p].pc \in Streamed =>
            /\ ~run[p].paused /\ run[p].last = "finalize"
            /\ run[p].st.plan = row[run[p].case].plan
       /\ run[p].pc = "refresh" => row[run[p].case].status = "APPROVED"
  /\ run[p].decision # "approve" =>
       /\ run[p].last # "finalize"
       /\ run[p].pc = "stream" => run[p].next # "finalize"

\* A decision is made of a paused case, and a run leaves the stream paused, finalized or
\* escalated.
ResumeFits(p) ==
  /\ p \in Reqs /\ run[p].pc = "starting" => AtReview(run[p].case)
  /\ run[p].pc \in Streamed =>
       /\ run[p].paused => run[p].next = "human_review"
       /\ run[p].paused \/ run[p].last \in {"finalize", "escalate"}
  /\ ApprovalFits(p)

\* The places of run_case from its stream on.
Underway == {"stream", "failing", "failcommit"} \union Streamed

\* Node n is in the audit trail of c, or will be, or its run has failed.
Accounted(c, n) ==
  \/ n \in audit[c].nodes
  \/ row[c].notes = "failed"
  \/ \E p \in Procs : /\ run[p].case = c
                      /\ \/ run[p].pc \in {"failing", "failcommit"}
                         \/ run[p].pc \in {"stream"} \union Streamed /\ n \in run[p].logs

\* A pending case has its run; a case under review is paused or being decided; the nodes
\* completed for it are accounted for; its checkpoints are one.
CaseFits(c) ==
  /\ row[c].status = "PENDING_CONTEXT" => Active(c)
  /\ row[c].status = "AWAITING_HUMAN_REVIEW" =>
       AtReview(c) \/ \E p \in Procs : run[p].case = c /\ run[p].pc \in Underway
  /\ \A n \in executed[c] : Accounted(c, n)
  /\ row[c].notes = "failed" => row[c].status = "ESCALATED"
  /\ \A v, w \in Workers : ckpt[v][c] = ckpt[w][c]
  /\ \A w \in Workers : ckpt[w][c].st.notes # "failed"

\* Between two decisions a case is paused as its row shows it, and only the run that
\* decides it moves it on.
ResumeInvariant ==
  /\ \A p \in Procs : ResumeFits(p)
  /\ \A c \in Cases : CaseFits(c)

\* A case that a step does not touch keeps fitting.
LEMMA CaseUntouched ==
  ASSUME TypeOK, FirstRunInvariant, NEW p \in Procs, NEW c \in Cases,
         \A q \in Procs \ {p} : run'[q] = run[q],
         CaseFits(c), row'[c] = row[c], audit'[c] = audit[c], executed'[c] = executed[c],
         \A w \in Workers : ckpt'[w][c] = ckpt[w][c],
         run[p].case # c \/ run[p].pc \notin Underway,
         p = c /\ row[c].status = "PENDING_CONTEXT" => Active(p)'
  PROVE  CaseFits(c)'
<1>1. AtReview(c) => AtReview(c)'
  BY DEF AtReview
<1>2. c \in Procs
  BY DEF Procs
<1>3. ASSUME NEW n, Accounted(c, n) PROVE Accounted(c, n)'
  <2>1. CASE n \in audit[c].nodes \/ row[c].notes = "failed"
    BY <2>1 DEF Accounted
  <2>2. ASSUME NEW q \in Procs, run[q].case = c,
               \/ run[q].pc \in {"failing", "failcommit"}
               \/ run[q].pc \in {"stream"} \union Streamed /\ n \in run[q].logs
        PROVE  Accounted(c, n)'
    <3>1. run[q].pc \in Underway
      BY <2>2 DEF Underway
    <3>2. run'[q] = run[q]
      BY <2>2, <3>1
    <3> QED
      BY <2>2, <3>2 DEF Accounted
  <2> QED
    BY <1>3, <2>1, <2>2 DEF Accounted
<1>4. row[c].status = "PENDING_CONTEXT" => Active(c)'
  <2>1. CASE p = c
    BY <2>1
  <2>2. CASE p # c
    BY <1>2, <2>2 DEF CaseFits, Active
  <2> QED
    BY <2>1, <2>2
<1>5. ASSUME NEW q \in Procs, run[q].case = c, run[q].pc \in Underway
      PROVE  run'[q].case = c /\ run'[q].pc \in Underway
  BY <1>5
<1> QED
  BY <1>1, <1>3, <1>4, <1>5 DEF CaseFits

\* It is enough that a step keeps its own process, and its case, fitting.
LEMMA ResumeFramed ==
  ASSUME TypeOK, FirstRunInvariant, DecisionsApart, ResumeInvariant,
         NEW p \in Procs, NEW c \in Cases, c = run[p].case, Frame(p),
         \/ Active(p)
         \/ row[c].status = "ABSENT" /\ c = p
         \/ UNCHANGED <<row, ckpt>>,
         ResumeFits(p)', CaseFits(c)'
  PROVE  ResumeInvariant'
<1>1. ASSUME NEW d \in Cases PROVE CaseFits(d)'
  <2>1. CASE d = c
    BY <2>1
  <2>2. CASE d # c
    <3>1. /\ row'[d] = row[d] /\ audit'[d] = audit[d] /\ executed'[d] = executed[d]
          /\ \A w \in Workers : ckpt'[w][d] = ckpt[w][d]
          /\ \A q \in Procs \ {p} : run'[q] = run[q]
      BY <2>2 DEF Frame
    <3>2. CaseFits(d) /\ p # d
      BY <2>2 DEF ResumeInvariant, FirstRunInvariant, FirstRunFits
    <3> QED
      BY <2>2, <3>1, <3>2, CaseUntouched
  <2> QED
    BY <2>1, <2>2
<1>2. ASSUME NEW q \in Procs, q # p PROVE ResumeFits(q)'
  <2>1. /\ run'[q] = run[q] /\ ResumeFits(q) /\ FirstRunFits(q) /\ run[q].case \in Cases
    BY <1>2, RunTyped DEF Frame, ResumeInvariant, FirstRunInvariant
  <2>2. ASSUME row'[run[q].case] = row[run[q].case],
               \A w \in Workers : ckpt'[w][run[q].case] = ckpt[w][run[q].case]
        PROVE  ResumeFits(q)'
    BY <2>1, <2>2 DEF ResumeFits, ApprovalFits, AtReview
  <2>3. CASE run[q].case # c
    BY <2>1, <2>2, <2>3 DEF Frame
  <2>4. CASE ~Active(q)
    BY <2>1, <2>4 DEF ResumeFits, ApprovalFits, Active, Streamed
  <2>5. CASE run[q].case = c /\ Active(q)
    <3>1. ~Active(p)
      BY <1>2, <2>5, Alone
    <3>2. ~(row[c].status = "ABSENT" /\ c = p)
      BY <1>2, <2>1, <2>5 DEF FirstRunFits, Active, Decidable, Closed, Procs
    <3> QED
      BY <2>2, <3>1, <3>2
  <2> QED
    BY <2>3, <2>4, <2>5
<1>3. ASSUME NEW q \in Procs PROVE ResumeFits(q)'
  BY <1>2
<1> QED
  BY <1>1, <1>3 DEF ResumeInvariant

\* A step of a process that is not under way and writes nothing.
LEMMA ResumeLocal ==
  ASSUME TypeOK, FirstRunInvariant, DecisionsApart, ResumeInvariant,
         NEW p \in Procs, Frame(p), UNCHANGED <<row, audit, ckpt, executed>>,
         run[p].pc \notin Underway, p \in Cases => Active(p)', ResumeFits(p)'
  PROVE  ResumeInvariant'
<1>1. PICK c \in Cases : c = run[p].case
  BY RunTyped
<1>2. CaseFits(c)'
  <2>1. CaseFits(c) /\ \A q \in Procs \ {p} : run'[q] = run[q]
    BY DEF ResumeInvariant, Frame
  <2> QED
    BY <2>1, CaseUntouched
<1> QED
  BY <1>1, <1>2, ResumeFramed

\* A step inside run_case: its stores stay one, and what it has completed stays in its
\* pending audit rows, unless it has failed.
LEMMA ResumeInside ==
  ASSUME TypeOK, FirstRunInvariant, DecisionsApart, ResumeInvariant,
         NEW p \in Procs, NEW c \in Cases, c = run[p].case, Frame(p), UNCHANGED <<row, audit>>,
         run[p].pc \in Underway \union {"starting"}, run'[p].pc \in Underway,
         run'[p].case = c,
         \/ run'[p].pc \in {"failing", "failcommit"}
         \/ /\ run[p].pc \notin {"failing", "failcommit"}
            /\ run[p].logs \subseteq run'[p].logs
            /\ executed'[c] \subseteq executed[c] \union run'[p].logs,
         \A v, w \in Workers : ckpt'[v][c] = ckpt'[w][c],
         \A w \in Workers : ckpt'[w][c].st.notes # "failed",
         ResumeFits(p)'
  PROVE  ResumeInvariant'
<1>1. Active(p) /\ Active(p)' /\ CaseFits(c) /\ c \in Procs
  BY DEF Active, Underway, Streamed, ResumeInvariant, Procs
<1>2. row[c].status = "PENDING_CONTEXT" => Active(c)'
  <2>1. CASE p = c
    BY <1>1, <2>1
  <2>2. CASE p # c
    BY <1>1, <2>2 DEF CaseFits, Active, Frame
  <2> QED
    BY <2>1, <2>2
<1>3. ASSUME NEW n \in executed'[c] PROVE Accounted(c, n)'
  <2>1. CASE run'[p].pc \in {"failing", "failcommit"}
    BY <2>1 DEF Accounted
  <2>2. CASE run'[p].pc \notin {"failing", "failcommit"} /\ n \in run'[p].logs
    BY <2>2 DEF Accounted, Underway
  <2>3. CASE /\ run'[p].pc \notin {"failing", "failcommit"} /\ n \notin run'[p].logs
             /\ n \in executed[c]
    <3>1. Accounted(c, n)
      BY <1>1, <2>3 DEF CaseFits
    <3>2. ASSUME NEW q \in Procs, run[q].case = c, Active(q)
          PROVE  q = p
      BY <1>1, <3>2, Alone
    <3>3. ~(\E q \in Procs : /\ run[q].case = c
                             /\ \/ run[q].pc \in {"failing", "failcommit"}
                                \/ run[q].pc \in {"stream"} \union Streamed /\ n \in run[q].logs)
      BY <2>3, <3>2 DEF Active, Streamed
    <3> QED
      BY <3>1, <3>3 DEF Accounted
  <2> QED
    BY <1>3, <2>1, <2>2, <2>3
<1>4. CaseFits(c)'
  BY <1>1, <1>2, <1>3 DEF CaseFits
<1> QED
  BY <1>1, <1>4, ResumeFramed

-----------------------------------------------------------------------------
(* The steps *)

\* The invariant holds of the empty tables.
LEMMA ResumeStarts == Init => ResumeInvariant
<1> SUFFICES ASSUME Init PROVE ResumeInvariant
  OBVIOUS
<1>1. ASSUME NEW p \in Procs PROVE ResumeFits(p)
  BY <1>1 DEF Init, ResumeFits, ApprovalFits, Streamed
<1>2. ASSUME NEW c \in Cases PROVE CaseFits(c)
  BY <1>2 DEF Init, CaseFits, NoRow, NoCheckpoint, InitialState
<1> QED
  BY <1>1, <1>2 DEF ResumeInvariant

\* A node's state does not say that the workflow failed: only the failure handler does.
LEMMA NodesDoNotFail ==
  ASSUME NEW st \in AgentState, st.notes # "failed"
  PROVE  /\ \A draft \in Plans : PlanRemediation(st, draft).notes # "failed"
         /\ ComplianceCheck(st).notes # "failed"
         /\ \A d \in Decisions : HumanReview(st, d).notes # "failed"
<1>1. st.rev >= MaxRevisions \/ st.rev < MaxRevisions
  BY DEF AgentState
<1>2. ComplianceCheck(st).notes # "failed"
  BY <1>1 DEF ComplianceCheck, AgentState
<1>3. \A draft \in Plans : PlanRemediation(st, draft).notes # "failed"
  BY DEF PlanRemediation, AgentState
<1>4. \A d \in Decisions : HumanReview(st, d).notes # "failed"
  BY DEF HumanReview, AgentState
<1> QED
  BY <1>2, <1>3, <1>4

\* compliance_check leads neither to finalize nor out of the graph.
LEMMA CheckRoutes ==
  ASSUME NEW st \in AgentState
  PROVE  RouteCompliance(ComplianceCheck(st)) \notin {"finalize", "END"}
<1>1. st.rev >= MaxRevisions \/ st.rev < MaxRevisions
  BY DEF AgentState
<1> QED
  BY <1>1 DEF ComplianceCheck, RouteCompliance, AgentState

\* The officer's decision: an approval leads to finalize with the plan as it is, anything
\* else back to plan_remediation.
LEMMA ReviewRoutes ==
  ASSUME NEW st \in AgentState, NEW d \in Decisions
  PROVE  LET reviewed == HumanReview(st, d)
         IN /\ d = "approve" => /\ RouteHumanDecision(reviewed) = "finalize"
                                /\ reviewed.plan = st.plan
            /\ d # "approve" => RouteHumanDecision(reviewed) = "plan_remediation"
BY DEF HumanReview, RouteHumanDecision, AgentState

\* A superstep: an approval goes on to finalize or ends there, and nothing else does.
LEMMA ResumeSuperstep ==
  ASSUME Dependable, TypeOK, FirstRunInvariant, DecisionsApart, ClosingInvariant,
         ResumeInvariant,
         NEW p \in Procs, Frame(p), run[p].pc = "stream",
         NEW node, NEW st, NEW next, Superstep(p, node, st, next),
         st.notes # "failed",
         next = "END" <=> node \in {"finalize", "escalate"},
         run[p].decision = "approve" =>
           /\ st.plan = run[p].st.plan
           /\ next = "finalize" \/ node = "finalize",
         run[p].decision # "approve" => next # "finalize" /\ node # "finalize"
  PROVE  ResumeInvariant'
<1>1. PICK c \in Cases : c = run[p].case
  BY RunTyped
<1>2. next = "END" => run'[p].pc = "snapshot"
  <2>1. ASSUME next = "END" PROVE run'[p].pc = "snapshot"
    BY <2>1, SuperstepMoves
  <2> QED
    BY <2>1
<1>3. next # "END" => run'[p].pc = "stream"
  BY SuperstepMoves
<1>4. run'[p].case = run[p].case /\ run'[p].decision = run[p].decision
  BY SuperstepMoves
<1>5. run'[p].st = st
  BY SuperstepMoves, Zenon
<1>6. run'[p].next = next
  BY SuperstepMoves
<1>7. run'[p].last = node
  BY SuperstepMoves
<1>8. run'[p].paused = run[p].paused
  BY SuperstepMoves
<1>9. run'[p].logs = run[p].logs \union {node}
  BY SuperstepMoves
<1>10. row' = row /\ audit' = audit
  BY SuperstepMoves
<1>11. executed'[c] = executed[c] \union {node}
  BY <1>1 DEF Superstep, TypeOK
<1>12. \A w \in Workers : ckpt'[w][c] = [st |-> st, next |-> next]
  <2>1. \A w \in Workers : SharedCheckpointer \/ w = run[p].worker
    BY RunTyped DEF Dependable
  <2>2. \A w \in Workers : SharedCheckpointer \/ w = run[p].worker =>
               ckpt'[w][run[p].case] = [st |-> st, next |-> next]
    BY SuperstepMoves
  <2> QED
    BY <1>1, <2>1, <2>2
<1>13. ~run[p].paused /\ ResumeFits(p)
  BY DEF ClosingInvariant, ClosingFits, ResumeInvariant
<1>14. ResumeFits(p)'
  <2>1. CASE next = "END"
    <3>1. ApprovalFits(p)'
      BY <1>2, <1>4, <1>5, <1>7, <1>8, <1>10, <1>13, <2>1 DEF ResumeFits, ApprovalFits, Streamed
    <3> QED
      BY <1>2, <1>7, <1>8, <1>13, <2>1, <3>1 DEF ResumeFits, Streamed
  <2>2. CASE next # "END"
    <3>1. ApprovalFits(p)'
      BY <1>3, <1>4, <1>5, <1>6, <1>7, <1>10, <1>13, <2>2 DEF ResumeFits, ApprovalFits, Streamed
    <3> QED
      BY <1>3, <2>2, <3>1 DEF ResumeFits, Streamed
  <2> QED
    BY <2>1, <2>2
<1>15. run'[p].pc \in {"stream", "snapshot"}
  BY <1>2, <1>3
<1>16. \A w \in Workers : ckpt'[w][c].st.notes # "failed"
  BY <1>12
<1>17. \A v, w \in Workers : ckpt'[v][c] = ckpt'[w][c]
  BY <1>12
<1>18. /\ run[p].logs \subseteq run'[p].logs
       /\ executed'[c] \subseteq executed[c] \union run'[p].logs
  BY <1>9, <1>11
<1> QED
  BY <1>1, <1>4, <1>10, <1>14, <1>15, <1>16, <1>17, <1>18, ResumeInside
     DEF Underway, Streamed

\* The nodes of the graph.
LEMMA ResumeNodes ==
  ASSUME Dependable, TypeOK, FirstRunInvariant, DecisionsApart, ClosingInvariant,
         ResumeInvariant, NEW p \in Procs, Frame(p),
         \/ RunRetrieveContext(p) \/ RunPlanRemediation(p) \/ RunComplianceCheck(p)
         \/ RunHumanReview(p) \/ RunFinalize(p) \/ RunEscalate(p)
  PROVE  ResumeInvariant'
<1>1. /\ run[p].case \in Cases /\ run[p].worker \in Workers
      /\ run[p].st \in AgentState /\ run[p].decision \in Decisions
  BY RunTyped
<1>2. run[p].pc = "stream"
  BY DEF RunRetrieveContext, RunPlanRemediation, RunComplianceCheck, RunHumanReview,
         RunFinalize, RunEscalate, At
<1>3. run[p].st.notes # "failed"
  <2>1. ckpt[run[p].worker][run[p].case] = [st |-> run[p].st, next |-> run[p].next]
    BY <1>2 DEF ClosingInvariant, ClosingFits
  <2>2. ckpt[run[p].worker][run[p].case].st.notes # "failed"
    BY <1>1 DEF ResumeInvariant, CaseFits
  <2> QED
    BY <2>1, <2>2
<1>4. /\ run[p].decision = "approve" => run[p].next \in {"human_review", "finalize"}
      /\ run[p].decision # "approve" => run[p].next # "finalize"
  BY <1>2 DEF ResumeInvariant, ResumeFits, ApprovalFits
<1>5. CASE RunRetrieveContext(p)
  <2>1. /\ Superstep(p, "retrieve_context", run[p].st, "plan_remediation")
        /\ run[p].decision # "approve"
    BY <1>4, <1>5 DEF RunRetrieveContext, At
  <2> QED
    BY <1>2, <1>3, <2>1, ResumeSuperstep
<1>6. CASE RunPlanRemediation(p)
  <2>1. PICK draft \in Plans : Superstep(p, "plan_remediation",
                                         PlanRemediation(run[p].st, draft), "compliance_check")
    BY <1>6 DEF RunPlanRemediation
  <2>2. /\ PlanRemediation(run[p].st, draft).notes # "failed"
        /\ run[p].decision # "approve"
    BY <1>1, <1>3, <1>4, <1>6, NodesDoNotFail DEF RunPlanRemediation, At
  <2> QED
    BY <1>2, <2>1, <2>2, ResumeSuperstep
<1>7. CASE RunComplianceCheck(p)
  <2> DEFINE st == ComplianceCheck(run[p].st)
  <2>1. /\ Superstep(p, "compliance_check", st, RouteCompliance(st))
        /\ run[p].decision # "approve"
    BY <1>4, <1>7 DEF RunComplianceCheck, At
  <2>2. st.notes # "failed" /\ RouteCompliance(st) \notin {"finalize", "END"}
    BY <1>1, <1>3, NodesDoNotFail, CheckRoutes
  <2> HIDE DEF st
  <2> QED
    BY <1>2, <2>1, <2>2, ResumeSuperstep
<1>8. CASE RunHumanReview(p)
  <2> DEFINE st == HumanReview(run[p].st, run[p].decision)
  <2>1. Superstep(p, "human_review", st, RouteHumanDecision(st))
    BY <1>8 DEF RunHumanReview
  <2>2. /\ st.notes # "failed"
        /\ run[p].decision = "approve" => /\ RouteHumanDecision(st) = "finalize"
                                          /\ st.plan = run[p].st.plan
        /\ run[p].decision # "approve" => RouteHumanDecision(st) = "plan_remediation"
    BY <1>1, <1>3, NodesDoNotFail, ReviewRoutes
  <2> HIDE DEF st
  <2>3. RouteHumanDecision(st) # "END"
    BY DEF RouteHumanDecision
  <2> QED
    BY <1>2, <2>1, <2>2, <2>3, ResumeSuperstep
<1>9. CASE RunFinalize(p)
  <2>1. Superstep(p, "finalize", run[p].st, "END") /\ run[p].decision = "approve"
    BY <1>4, <1>9 DEF RunFinalize, At
  <2> QED
    BY <1>2, <1>3, <2>1, ResumeSuperstep
<1>10. CASE RunEscalate(p)
  <2>1. Superstep(p, "escalate", run[p].st, "END") /\ run[p].decision # "approve"
    BY <1>4, <1>10 DEF RunEscalate, At
  <2> QED
    BY <1>2, <1>3, <2>1, ResumeSuperstep
<1> QED
  BY <1>5, <1>6, <1>7, <1>8, <1>9, <1>10

\* The steps of a run between its nodes and its transaction.
LEMMA ResumeMoves ==
  ASSUME Dependable, TypeOK, FirstRunInvariant, DecisionsApart, ClosingInvariant,
         ResumeInvariant, NEW p \in Procs, Frame(p),
         \/ StartFresh(p) \/ StartResume(p) \/ PauseForReview(p) \/ Snapshot(p)
         \/ LoadRow(p) \/ FailureLoad(p) \/ NodeRaises(p)
  PROVE  ResumeInvariant'
<1>1. PICK c \in Cases : c = run[p].case
  BY RunTyped
<1>2. ResumeFits(p) /\ ClosingFits(p) /\ FirstRunFits(p) /\ CaseFits(c) /\ run[p].worker \in Workers
  BY RunTyped DEF ResumeInvariant, ClosingInvariant, FirstRunInvariant
<1>3. ASSUME UNCHANGED <<row, audit, ckpt, executed>>, ResumeFits(p)',
             run[p].pc \in Underway \union {"starting"}, run'[p].pc \in Underway,
             run'[p].case = run[p].case,
             \/ run'[p].pc \in {"failing", "failcommit"}
             \/ run[p].pc \notin {"failing", "failcommit"} /\ run'[p].logs = run[p].logs
      PROVE  ResumeInvariant'
  <2>1. /\ \A v, w \in Workers : ckpt'[v][c] = ckpt'[w][c]
        /\ \A w \in Workers : ckpt'[w][c].st.notes # "failed"
    BY <1>2, <1>3 DEF CaseFits
  <2>2. /\ UNCHANGED <<row, audit>> /\ executed'[c] = executed[c] /\ run'[p].case = c
    BY <1>1, <1>3
  <2> QED
    BY <1>1, <1>3, <2>1, <2>2, ResumeInside
<1>4. CASE StartFresh(p)
  <2>1. /\ run'[p].pc = "stream" /\ run'[p].next = "retrieve_context" /\ run'[p].case = c
        /\ run'[p].decision = run[p].decision /\ run'[p].last = run[p].last
        /\ run'[p].logs = run[p].logs
    BY <1>1, <1>4, StartFreshMoves
  <2>2. /\ UNCHANGED <<row, audit>> /\ executed' = executed
        /\ run[p].pc = "starting" /\ run[p].decision = "none"
    BY <1>4 DEF StartFresh
  <2>3. \A w \in Workers : ckpt'[w][c] = [st |-> InitialState, next |-> "retrieve_context"]
    <3>1. \A w \in Workers : SharedCheckpointer \/ w = run[p].worker
      BY <1>2 DEF Dependable
    <3> QED
      BY <1>1, <1>4, <3>1, StartFreshMoves
  <2>4. /\ \A v, w \in Workers : ckpt'[v][c] = ckpt'[w][c]
        /\ \A w \in Workers : ckpt'[w][c].st.notes # "failed"
    BY <2>3 DEF InitialState
  <2>5. ResumeFits(p)'
    BY <1>2, <2>1, <2>2 DEF ResumeFits, ApprovalFits, Streamed
  <2> QED
    BY <1>1, <2>1, <2>2, <2>4, <2>5, ResumeInside DEF Underway
<1>5. CASE StartResume(p)
  <2>1. /\ UNCHANGED <<row, audit, ckpt, executed>>
        /\ run[p].pc = "starting" /\ run[p].decision # "none"
    BY <1>5 DEF StartResume
  <2>2. AtReview(c)
    BY <1>1, <1>2, <2>1 DEF ResumeFits, FirstRunFits, Procs
  <2>3. /\ ckpt[run[p].worker][run[p].case].next = "human_review"
        /\ ckpt[run[p].worker][run[p].case].st.plan = row[run[p].case].plan
    BY <1>1, <1>2, <2>2 DEF AtReview
  <2>4. run'[p].pc = "stream"
    BY <1>5, <2>3, StartResumeMoves
  <2>5. /\ run'[p].next = "human_review" /\ run'[p].armed = TRUE
        /\ run'[p].st.plan = row[run[p].case].plan
    BY <1>5, <2>3, StartResumeMoves
  <2>6. /\ run'[p].case = run[p].case /\ run'[p].decision = run[p].decision
        /\ run'[p].last = run[p].last /\ run'[p].logs = run[p].logs
    BY <1>5, StartResumeMoves
  <2>7. ResumeFits(p)'
    BY <1>2, <2>1, <2>4, <2>5, <2>6 DEF ResumeFits, ApprovalFits, Streamed
  <2> QED
    BY <1>3, <2>1, <2>4, <2>6, <2>7 DEF Underway
<1>6. CASE PauseForReview(p)
  <2>1. /\ UNCHANGED <<row, audit, ckpt, executed>>
        /\ run[p].pc = "stream" /\ run[p].next = "human_review" /\ ~run[p].armed
    BY <1>6 DEF PauseForReview, At
  <2>2. run[p].decision # "approve"
    BY <1>2, <2>1 DEF ResumeFits, ApprovalFits
  <2>3. ResumeFits(p)'
    BY <1>2, <1>6, <2>1, <2>2, PauseMoves DEF ResumeFits, ApprovalFits, Streamed
  <2> QED
    BY <1>3, <1>6, <2>1, <2>3, PauseMoves DEF Underway, Streamed
<1>7. CASE Snapshot(p)
  <2>1. UNCHANGED <<row, audit, ckpt, executed>> /\ run[p].pc = "snapshot"
    BY <1>7 DEF Snapshot
  <2>2. ckpt[run[p].worker][run[p].case] = [st |-> run[p].st, next |-> run[p].next]
    BY <1>2, <2>1 DEF ClosingFits, Streamed
  <2>3. /\ run'[p].pc = "load" /\ run'[p].st = run[p].st /\ run'[p].next = run[p].next
        /\ run'[p].case = run[p].case /\ run'[p].decision = run[p].decision
        /\ run'[p].last = run[p].last /\ run'[p].paused = run[p].paused
        /\ run'[p].logs = run[p].logs
    BY <1>7, <2>2, SnapshotMoves
  <2>4. ResumeFits(p)'
    BY <1>2, <2>1, <2>3 DEF ResumeFits, ApprovalFits, Streamed
  <2> QED
    BY <1>3, <2>1, <2>3, <2>4 DEF Underway, Streamed
<1>8. CASE LoadRow(p)
  <2>1. UNCHANGED <<row, audit, ckpt, executed>> /\ run[p].pc = "load"
    BY <1>8 DEF LoadRow
  <2>2. ResumeFits(p)'
    BY <1>2, <1>8, <2>1, LoadMoves DEF ResumeFits, ApprovalFits, Streamed
  <2> QED
    BY <1>3, <1>8, <2>1, <2>2, LoadMoves DEF Underway, Streamed
<1>9. CASE FailureLoad(p)
  <2>1. UNCHANGED <<row, audit, ckpt, executed>> /\ run[p].pc = "failing"
    BY <1>9 DEF FailureLoad
  <2>2. ResumeFits(p)'
    BY <1>2, <1>9, <2>1, FailureLoadMoves DEF ResumeFits, ApprovalFits, Streamed
  <2> QED
    BY <1>3, <1>9, <2>1, <2>2, FailureLoadMoves DEF Underway
<1>10. CASE NodeRaises(p)
  <2>1. /\ UNCHANGED <<row, audit, ckpt, executed>> /\ Goto(p, "failing")
        /\ run[p].pc = "stream" /\ run[p].next \in {"retrieve_context", "plan_remediation"}
    BY <1>10 DEF NodeRaises, At
  <2>2. run[p].decision # "approve"
    BY <1>2, <2>1 DEF ResumeFits, ApprovalFits
  <2>3. /\ run'[p].pc = "failing" /\ run'[p].case = run[p].case
        /\ run'[p].decision = run[p].decision /\ run'[p].last = run[p].last
    BY <2>1, GotoMoves
  <2>4. ResumeFits(p)'
    BY <1>2, <2>2, <2>3 DEF ResumeFits, ApprovalFits, Streamed
  <2> QED
    BY <1>3, <2>1, <2>3, <2>4 DEF Underway
<1> QED
  BY <1>4, <1>5, <1>6, <1>7, <1>8, <1>9, <1>10

\* Where nobody else writes, the UPDATE leaves the row as the object is.
LEMMA FlushedWhole ==
  ASSUME NEW current \in Row, NEW object \in Row
  PROVE  Flushed(current, current, object) = object
BY DEF Flushed, Row

\* The outcome of a run that its stream has left: paused, finalized or escalated.
LEMMA CommitWrites ==
  ASSUME TypeOK, ClosingInvariant, ResumeInvariant, NEW p \in Procs, Commit(p),
         NEW c \in Cases, c = run[p].case
  PROVE  /\ row'[c].plan = run[p].st.plan /\ row'[c].notes = run[p].st.notes
         /\ row'[c].rev = run[p].st.rev
         /\ run[p].paused => row'[c].status = "AWAITING_HUMAN_REVIEW"
         /\ ~run[p].paused => \/ run[p].last = "finalize" /\ row'[c].status = "APPROVED"
                              \/ run[p].last = "escalate" /\ row'[c].status = "ESCALATED"
         /\ audit'[c].nodes = audit[c].nodes \union run[p].logs
<1>1. /\ run[p].pc = "commit" /\ row[c] \in Row /\ Assigned(p) \in Row
      /\ ClosingFits(p) /\ ResumeFits(p)
  BY AssignedTyped DEF Commit, ClosingInvariant, ResumeInvariant, TypeOK
<1>2. run[p].seen = row[c]
  BY <1>1 DEF ClosingFits
<1>3. row'[c] = Flushed(row[c], run[p].seen, Assigned(p))
  BY DEF Commit, Persist, TypeOK
<1>4. row'[c] = Assigned(p)
  BY <1>1, <1>2, <1>3, FlushedWhole
<1>5. run[p].paused \/ run[p].last \in {"finalize", "escalate"}
  BY <1>1 DEF ResumeFits, Streamed
<1>6. Outcome(p) = Assigned(p).status
  BY DEF Assigned
<1>7. /\ run[p].paused => Outcome(p) = "AWAITING_HUMAN_REVIEW"
      /\ ~run[p].paused => \/ run[p].last = "finalize" /\ Outcome(p) = "APPROVED"
                           \/ run[p].last = "escalate" /\ Outcome(p) = "ESCALATED"
  BY <1>5 DEF Outcome
<1>8. audit'[c].nodes = audit[c].nodes \union run[p].logs
  BY DEF Commit, Persist, TypeOK, Audit
<1>9. /\ Assigned(p).plan = run[p].st.plan /\ Assigned(p).notes = run[p].st.notes
      /\ Assigned(p).rev = run[p].st.rev
  BY DEF Assigned
<1> QED
  BY <1>4, <1>6, <1>7, <1>8, <1>9

\* The failure handler keeps the plan of the row.
LEMMA FailureWrites ==
  ASSUME TypeOK, ClosingInvariant, NEW p \in Procs, FailureCommit(p),
         NEW c \in Cases, c = run[p].case
  PROVE  /\ row'[c].status = "ESCALATED" /\ row'[c].notes = "failed"
         /\ row'[c].plan = row[c].plan
<1> DEFINE object == [run[p].seen EXCEPT !.status = "ESCALATED", !.notes = "failed",
                                         !.resolved = TRUE]
<1>1. run[p].seen = row[c] /\ row[c] \in Row
  BY DEF FailureCommit, ClosingInvariant, ClosingFits, TypeOK
<1>2. /\ object \in Row /\ object.status = "ESCALATED" /\ object.notes = "failed"
      /\ object.plan = row[c].plan
  BY <1>1 DEF Row, Statuses, Notes
<1>3. row'[c] = Flushed(row[c], run[p].seen, object)
  BY DEF FailureCommit, TypeOK
<1> HIDE DEF object
<1>4. row'[c] = object
  BY <1>1, <1>2, <1>3, FlushedWhole
<1> QED
  BY <1>2, <1>4

\* The transactions that end a run.
LEMMA ResumeCommits ==
  ASSUME TypeOK, FirstRunInvariant, DecisionsApart, ClosingInvariant, ResumeInvariant,
         NEW p \in Procs, Frame(p), Commit(p) \/ FailureCommit(p)
  PROVE  ResumeInvariant'
<1>1. PICK c \in Cases : c = run[p].case
  BY RunTyped
<1>2. /\ run[p].pc \in {"commit", "failcommit"} /\ UNCHANGED <<ckpt, executed>> /\ Return(p)
  BY DEF Commit, FailureCommit
<1>3. ResumeFits(p) /\ ClosingFits(p) /\ CaseFits(c) /\ run[p].worker \in Workers /\ Active(p)
  BY <1>2, RunTyped DEF ResumeInvariant, ClosingInvariant, Active
<1>4. /\ run'[p].pc \in {"done", "refresh"} /\ run'[p].case = c
      /\ \/ run'[p].decision = "none" /\ run'[p].last = "none"
         \/ run'[p].decision = run[p].decision /\ run'[p].last = run[p].last
  BY <1>1, <1>2, ReturnMoves
<1>5. CASE Commit(p)
  <2>1. run[p].pc = "commit" /\ run[p].pc \in Streamed
    BY <1>5 DEF Commit, Streamed
  <2>2. /\ row'[c].plan = run[p].st.plan /\ row'[c].notes = run[p].st.notes
        /\ row'[c].rev = run[p].st.rev
        /\ run[p].paused => row'[c].status = "AWAITING_HUMAN_REVIEW"
        /\ ~run[p].paused => \/ run[p].last = "finalize" /\ row'[c].status = "APPROVED"
                             \/ run[p].last = "escalate" /\ row'[c].status = "ESCALATED"
        /\ audit'[c].nodes = audit[c].nodes \union run[p].logs
    BY <1>1, <1>5, CommitWrites
  <2>3. ckpt[run[p].worker][c] = [st |-> run[p].st, next |-> run[p].next]
    BY <1>1, <1>3, <2>1 DEF ClosingFits
  <2>4. \A w \in Workers : ckpt[w][c] = [st |-> run[p].st, next |-> run[p].next]
    BY <1>3, <2>3 DEF CaseFits
  <2>5. run[p].st.notes # "failed"
    BY <1>3, <2>3 DEF CaseFits
  <2>6. run[p].paused => AtReview(c)'
    BY <1>2, <1>3, <2>1, <2>2, <2>4 DEF AtReview, ResumeFits
  <2>7. ASSUME NEW n \in executed[c] PROVE n \in audit'[c].nodes
    <3>1. Accounted(c, n) /\ row[c].notes # "failed"
      BY <1>1, <1>2, <1>3, OpenAtWork DEF CaseFits, Inside
    <3>2. ASSUME NEW q \in Procs, run[q].case = c, Active(q) PROVE q = p
      BY <1>1, <1>3, <3>2, Alone
    <3>3. n \in audit[c].nodes \/ n \in run[p].logs
      BY <2>1, <3>1, <3>2 DEF Accounted, Active, Streamed
    <3> QED
      BY <2>2, <3>3
  <2>8. \A n \in executed'[c] : Accounted(c, n)'
    BY <1>2, <2>7 DEF Accounted
  <2>9. CaseFits(c)'
    BY <1>2, <1>3, <2>2, <2>5, <2>6, <2>8 DEF CaseFits
  <2>10. ResumeFits(p)'
    <3>1. run[p].decision = "approve" => row'[c].status = "APPROVED"
      BY <1>3, <2>1, <2>2 DEF ResumeFits, ApprovalFits
    <3>2. ApprovalFits(p)'
      BY <1>3, <1>4, <3>1 DEF ResumeFits, ApprovalFits, Streamed
    <3> QED
      BY <1>4, <3>2 DEF ResumeFits, Streamed
  <2> QED
    BY <1>1, <1>3, <2>9, <2>10, ResumeFramed
<1>6. CASE FailureCommit(p)
  <2>1. row'[c].status = "ESCALATED" /\ row'[c].notes = "failed"
    BY <1>1, <1>6, FailureWrites
  <2>2. run[p].decision # "approve"
    BY <1>3, <1>6 DEF FailureCommit, ResumeFits, ApprovalFits
  <2>3. CaseFits(c)'
    BY <1>2, <1>3, <2>1 DEF CaseFits, Accounted
  <2>4. ResumeFits(p)'
    <3>1. ApprovalFits(p)'
      BY <1>3, <1>4, <2>2 DEF ResumeFits, ApprovalFits, Streamed
    <3> QED
      BY <1>4, <3>1 DEF ResumeFits, Streamed
  <2> QED
    BY <1>1, <1>3, <2>3, <2>4, ResumeFramed
<1> QED
  BY <1>5, <1>6

\* A case that is opened has its run, and nothing else.
LEMMA ResumeOpens ==
  ASSUME TypeOK, FirstRunInvariant, DecisionsApart, ClosingInvariant, ResumeInvariant,
         NEW c \in Cases, NEW w \in Workers, OpenCase(c, w)
  PROVE  ResumeInvariant'
<1>1. /\ c \in Procs /\ FirstRunFits(c) /\ CaseFits(c)
      /\ run[c] \in Run /\ run \in [Procs -> Run] /\ row \in [Cases -> Row]
  BY DEF Procs, FirstRunInvariant, ResumeInvariant, TypeOK
<1>2. run[c].case = c /\ row[c].status = "ABSENT" /\ ~Active(c)
  BY <1>1 DEF FirstRunFits, OpenCase
<1>3. Frame(c)
  BY <1>1, <1>2 DEF OpenCase, Frame, TypeOK
<1>4. /\ run'[c].pc = "queued" /\ run'[c].decision = "none" /\ run'[c].last = "none"
  BY <1>1 DEF OpenCase, AtRest, Run
<1>5. /\ row'[c].status = "PENDING_CONTEXT" /\ row'[c].notes = row[c].notes
      /\ audit'[c].nodes = audit[c].nodes /\ executed' = executed /\ ckpt' = ckpt
  BY <1>1 DEF OpenCase, TypeOK, Audit, Row
<1>6. row[c].notes # "failed"
  BY <1>1, <1>2 DEF CaseFits
<1>7. ASSUME NEW n \in executed[c] PROVE Accounted(c, n)'
  <2>1. Accounted(c, n)
    BY <1>1 DEF CaseFits
  <2>2. CASE n \in audit[c].nodes
    BY <1>5, <2>2 DEF Accounted
  <2>3. ASSUME NEW q \in Procs, run[q].case = c,
               \/ run[q].pc \in {"failing", "failcommit"}
               \/ run[q].pc \in {"stream"} \union Streamed /\ n \in run[q].logs
        PROVE  Accounted(c, n)'
    <3>1. q # c
      BY <1>2, <2>3 DEF Active, Streamed
    <3>2. run'[q] = run[q]
      BY <1>3, <3>1 DEF Frame
    <3> QED
      BY <2>3, <3>2 DEF Accounted
  <2> QED
    BY <1>6, <2>1, <2>2, <2>3 DEF Accounted
<1>8. Active(c)'
  BY <1>4 DEF Active
<1>9. CaseFits(c)'
  BY <1>1, <1>5, <1>6, <1>7, <1>8 DEF CaseFits
<1>10. ResumeFits(c)'
  BY <1>4 DEF ResumeFits, ApprovalFits, Streamed
<1> QED
  BY <1>1, <1>2, <1>3, <1>9, <1>10, ResumeFramed

\* A decision is made of a case that nobody else is deciding, so it is paused.
LEMMA ResumeDecides ==
  ASSUME TypeOK, FirstRunInvariant, DecisionsApart, DecisionsApart', ClosingInvariant,
         ResumeInvariant,
         NEW r \in Reqs, NEW d \in {"approve", "reject"}, NEW w \in Workers, Decide(r, d, w)
  PROVE  ResumeInvariant'
<1>1. PICK c \in Cases : c = run[r].case
  BY RunTyped DEF Procs
<1>2. /\ r \in Procs /\ r \notin Cases /\ ResumeFits(r) /\ ClosingFits(r) /\ CaseFits(c)
      /\ run \in [Procs -> Run] /\ run[r] \in Run
  BY RunTyped DEF Procs, ResumeInvariant, ClosingInvariant
<1>3. UNCHANGED <<row, audit, ckpt, signed, executed>> /\ run[r].pc = "viewing"
  BY DEF Decide
<1>4. CASE row[c].status = "AWAITING_HUMAN_REVIEW"
  <2>1. /\ \A q \in Procs \ {r} : run'[q] = run[q]
        /\ run'[r].pc = "starting" /\ run'[r].case = c /\ run'[r].last = run[r].last
    BY <1>1, <1>2, <1>4 DEF Decide, Run
  <2>2. Frame(r)
    BY <1>3, <2>1 DEF Frame
  <2>3. AtReview(c)
    <3>1. ASSUME NEW q \in Procs, run[q].case = c, run[q].pc \in Underway PROVE FALSE
      <4>1. q \in Reqs
        BY <1>4, <3>1 DEF FirstRunInvariant, FirstRunFits, Active, Underway, Streamed, Procs
      <4>2. run'[q] = run[q] /\ q # r
        BY <1>3, <2>1, <3>1 DEF Underway, Streamed
      <4> QED
        BY <2>1, <3>1, <4>1, <4>2 DEF DecisionsApart, Active, Underway, Streamed
    <3> QED
      BY <1>2, <1>4, <3>1 DEF CaseFits
  <2>4. AtReview(c)'
    BY <1>3, <2>3 DEF AtReview
  <2>5. ResumeFits(r)'
    <3>1. run[r].last = "none"
      BY <1>2, <1>3 DEF ClosingFits
    <3> QED
      BY <2>1, <2>4, <3>1 DEF ResumeFits, ApprovalFits, Streamed
  <2> QED
    BY <1>2, <1>3, <2>2, <2>5, ResumeLocal DEF Underway, Streamed
<1>5. CASE row[c].status # "AWAITING_HUMAN_REVIEW"
  <2>1. Rest(r, "idle")
    BY <1>1, <1>5 DEF Decide
  <2>2. /\ \A q \in Procs \ {r} : run'[q] = run[q]
        /\ run'[r].pc = "idle" /\ run'[r].decision = "none" /\ run'[r].last = "none"
    BY <1>2, <2>1, RestMoves
  <2>3. Frame(r)
    BY <1>3, <2>2 DEF Frame
  <2>4. ResumeFits(r)'
    BY <2>2 DEF ResumeFits, ApprovalFits, Streamed
  <2> QED
    BY <1>2, <1>3, <2>3, <2>4, ResumeLocal DEF Underway, Streamed
<1> QED
  BY <1>4, <1>5

\* Every step keeps the invariant, on dependable hosts and if no case is decided twice at
\* the same time.
LEMMA ResumeKept ==
  ASSUME Dependable, TypeOK, FirstRunInvariant, ClosingInvariant, ResumeInvariant,
         DecisionsApart, DecisionsApart', [Next]_vars
  PROVE  ResumeInvariant'
<1>a. Cases \subseteq Procs /\ Reqs \subseteq Procs /\ Cases \intersect Reqs = {}
  BY DEF Procs
<1>b. \A p \in Procs : ResumeFits(p) /\ ClosingFits(p)
  BY DEF ResumeInvariant, ClosingInvariant
<1>1. ASSUME NEW c \in Cases, NEW w \in Workers, OpenCase(c, w) PROVE ResumeInvariant'
  BY <1>1, ResumeOpens
<1>2. ASSUME NEW c \in Cases, BuildInitialState(c) PROVE ResumeInvariant'
  <2>1. /\ \A q \in Procs \ {c} : run'[q] = run[q]
        /\ run'[c].pc = "starting" /\ run'[c].decision = run[c].decision
        /\ run'[c].last = run[c].last
    BY <1>2, <1>a, GotoMoves DEF BuildInitialState
  <2>2. /\ UNCHANGED <<row, audit, ckpt, signed, executed>> /\ run[c].pc = "queued"
        /\ ClosingFits(c) /\ c \notin Reqs
    BY <1>2, <1>a, <1>b DEF BuildInitialState
  <2>3. Frame(c)
    BY <2>1, <2>2 DEF Frame
  <2>4. ResumeFits(c)' /\ Active(c)'
    BY <2>1, <2>2 DEF ResumeFits, ApprovalFits, ClosingFits, Streamed, Active
  <2> QED
    BY <1>a, <2>2, <2>3, <2>4, ResumeLocal DEF Underway, Streamed
<1>3. ASSUME NEW r \in Reqs, NEW c \in Cases, GetCase(r, c) PROVE ResumeInvariant'
  <2>1. /\ \A q \in Procs \ {r} : run'[q] = run[q]
        /\ run'[r].pc = "viewing" /\ run'[r].last = run[r].last
    BY <1>3, <1>a, RunTyped DEF GetCase, Run
  <2>2. /\ UNCHANGED <<row, audit, ckpt, signed, executed>> /\ run[r].pc = "idle"
        /\ ClosingFits(r) /\ r \notin Cases
    BY <1>3, <1>a, <1>b DEF GetCase
  <2>3. Frame(r)
    BY <2>1, <2>2 DEF Frame
  <2>4. ResumeFits(r)'
    BY <2>1, <2>2 DEF ResumeFits, ApprovalFits, ClosingFits, Streamed
  <2> QED
    BY <1>a, <2>2, <2>3, <2>4, ResumeLocal DEF Underway, Streamed
<1>4. ASSUME NEW r \in Reqs, NEW d \in {"approve", "reject"}, NEW w \in Workers,
             Decide(r, d, w)
      PROVE  ResumeInvariant'
  BY <1>4, ResumeDecides
<1>5. ASSUME NEW p \in Procs, RunStep(p) PROVE ResumeInvariant'
  <2>1. Frame(p)
    BY <1>5, StepFramed
  <2>2. CASE StartFresh(p) \/ StartResume(p) \/ PauseForReview(p) \/ Snapshot(p)
               \/ LoadRow(p) \/ FailureLoad(p)
    BY <2>1, <2>2, ResumeMoves
  <2>3. CASE RunRetrieveContext(p) \/ RunPlanRemediation(p) \/ RunComplianceCheck(p)
               \/ RunHumanReview(p) \/ RunFinalize(p) \/ RunEscalate(p)
    BY <2>1, <2>3, ResumeNodes
  <2>4. CASE Commit(p) \/ FailureCommit(p)
    BY <2>1, <2>4, ResumeCommits
  <2> QED
    BY <1>5, <2>2, <2>3, <2>4 DEF RunStep
<1>6. ASSUME NEW r \in Reqs, Respond(r) PROVE ResumeInvariant'
  <2>1. /\ \A q \in Procs \ {r} : run'[q] = run[q]
        /\ run'[r].pc = "idle" /\ run'[r].decision = "none" /\ run'[r].last = "none"
    BY <1>6, <1>a, RestMoves DEF Respond
  <2>2. /\ UNCHANGED <<row, audit, ckpt, signed, executed>> /\ run[r].pc = "refresh"
        /\ r \notin Cases
    BY <1>6, <1>a DEF Respond
  <2>3. Frame(r)
    BY <2>1, <2>2 DEF Frame
  <2>4. ResumeFits(r)'
    BY <2>1 DEF ResumeFits, ApprovalFits, Streamed
  <2> QED
    BY <1>a, <2>2, <2>3, <2>4, ResumeLocal DEF Underway, Streamed
<1>7. ASSUME NEW p \in Procs, Fault(p) PROVE ResumeInvariant'
  <2>1. NodeRaises(p)
    BY <1>7 DEF Fault, CommitAckLost, DbFails, Dependable
  <2> QED
    BY <1>7, <2>1, StepFramed, ResumeMoves
<1>8. ~(\E w \in Workers : Crash(w))
  BY DEF Crash, Dependable
<1>9. CASE UNCHANGED vars
  <2>1. UNCHANGED <<row, audit, ckpt, run, executed>>
    BY <1>9 DEF vars
  <2>2. ASSUME NEW p \in Procs PROVE ResumeFits(p)'
    BY <1>b, <2>1 DEF ResumeFits, ApprovalFits, AtReview
  <2>3. ASSUME NEW c \in Cases PROVE CaseFits(c)'
    BY <2>1 DEF ResumeInvariant, CaseFits, Accounted, Active, AtReview
  <2> QED
    BY <2>2, <2>3 DEF ResumeInvariant
<1> QED
  BY <1>1, <1>2, <1>3, <1>4, <1>5, <1>6, <1>7, <1>8, <1>9 DEF Next

\* The cases are paused and resumed as ResumeInvariant says.
LEMMA ResumeHolds ==
  ASSUME Dependable
  PROVE  Spec /\ []DecisionsApart => []ResumeInvariant
<1>1. "ack" \notin Faults
  BY DEF Dependable
<1>2. /\ TypeOK /\ FirstRunInvariant /\ ClosingInvariant /\ ResumeInvariant
      /\ DecisionsApart /\ DecisionsApart' /\ [Next]_vars
      => ResumeInvariant'
  BY ResumeKept
<1>3. /\ Spec => []FirstRunInvariant
      /\ Spec /\ []DecisionsApart => []ClosingInvariant
  BY <1>1, FirstRunHolds, ClosingHolds
<1> QED
  BY <1>2, <1>3, ResumeStarts, TypeCorrect, PTL DEF Spec

-----------------------------------------------------------------------------
(* What the invariant says of the cases *)

\* The row that an approve request answers with is APPROVED: no worker resumes anything
\* else than the paused review, if no case is decided twice at the same time.
THEOREM ApprovalAlwaysFinalizes ==
  ASSUME Dependable
  PROVE  Spec /\ []DecisionsApart => []ApproveFinalizes
<1>1. ResumeInvariant => ApproveFinalizes
  BY DEF ResumeInvariant, ResumeFits, ApprovalFits, ApproveFinalizes, Procs
<1> QED
  BY <1>1, ResumeHolds, PTL

\* A case whose context is pending has its background run: on dependable hosts no failure
\* of a node leaves it pending for good.
THEOREM NeverSilentlyStuck ==
  ASSUME Dependable
  PROVE  Spec /\ []DecisionsApart => []NotSilentlyStuck
<1>1. FirstRunInvariant /\ ResumeInvariant => NotSilentlyStuck
  BY DEF FirstRunInvariant, FirstRunFits, ResumeInvariant, CaseFits, NotSilentlyStuck, Quiet,
         Active, Procs
<1>2. "ack" \notin Faults
  BY DEF Dependable
<1>3. Spec => []FirstRunInvariant
  BY <1>2, FirstRunHolds
<1> QED
  BY <1>1, <1>3, ResumeHolds, PTL

\* The audit trail of a case that is left alone names every node that was completed for
\* it, by whichever run, unless a run failed.
THEOREM NodesAlwaysAudited ==
  ASSUME Dependable
  PROVE  Spec /\ []DecisionsApart => []NodesAudited
<1>1. ASSUME ResumeInvariant PROVE NodesAudited
  <2> SUFFICES ASSUME NEW c \in Cases, Quiet(c), row[c].notes # "failed",
                      NEW n \in executed[c]
               PROVE  n \in audit[c].nodes
    BY DEF NodesAudited
  <2>1. Accounted(c, n)
    BY <1>1 DEF ResumeInvariant, CaseFits
  <2> QED
    BY <2>1 DEF Accounted, Quiet, Active, Streamed
<1> QED
  BY <1>1, ResumeHolds, PTL

\* A case under review that is left alone can be resumed by any worker, at the plan and
\* the revision count that its row shows to the officer.
THEOREM AwaitingAlwaysResumable ==
  ASSUME Dependable
  PROVE  Spec /\ []DecisionsApart => []AwaitingIsResumable
<1>1. ResumeInvariant => AwaitingIsResumable
  BY DEF ResumeInvariant, CaseFits, AtReview, AwaitingIsResumable, Quiet, Active, Underway,
         Streamed
<1> QED
  BY <1>1, ResumeHolds, PTL

\* The transaction of a rejection approves nothing.
LEMMA RejectionKept ==
  ASSUME Dependable, TypeOK, FirstRunInvariant, ClosingInvariant, ResumeInvariant,
         DecisionsApart, [Next]_vars,
         NEW r \in Reqs, NEW c \in Cases, c = run[r].case, run[r].pc = "commit",
         run[r].decision = "reject", row[c].status # "APPROVED"
  PROVE  row'[c].status # "APPROVED"
<1>a. r \in Procs /\ Active(r) /\ ResumeFits(r) /\ row \in [Cases -> Row]
  BY DEF Procs, Active, ResumeInvariant, TypeOK
<1>1. ASSUME NEW d \in Cases, NEW w \in Workers, OpenCase(d, w)
      PROVE  row'[c].status # "APPROVED"
  <2>1. row' = [row EXCEPT ![d].status = "PENDING_CONTEXT"]
    BY <1>1 DEF OpenCase
  <2>2. CASE d = c
    BY <1>a, <2>1, <2>2 DEF Row
  <2>3. CASE d # c
    BY <1>a, <2>1, <2>3
  <2> QED
    BY <2>2, <2>3
<1>2. ASSUME NEW p \in Procs, p # r, RunStep(p) \/ Fault(p) PROVE row'[c] = row[c]
  <2>1. CASE run[p].case # c
    BY <1>2, <2>1, StepFramed DEF Frame
  <2>2. CASE run[p].case = c
    <3>1. ~Active(p)
      BY <1>2, <1>a, <2>2, Alone
    <3>2. run[p].pc \notin {"commit", "failcommit"}
      BY <3>1 DEF Active
    <3> QED
      BY <1>2, <3>2, RowWritten
  <2> QED
    BY <2>1, <2>2
<1>3. ASSUME RunStep(r) \/ Fault(r) PROVE row'[c] = row[c] \/ Commit(r)
  BY <1>3 DEF RunStep, Fault, StartFresh, StartResume, RunRetrieveContext, RunPlanRemediation,
       RunComplianceCheck, PauseForReview, RunHumanReview, RunFinalize, RunEscalate, Snapshot,
       LoadRow, FailureLoad, FailureCommit, NodeRaises, CommitAckLost, DbFails, At, Dependable
<1>4. CASE Commit(r)
  <2>1. run[r].last # "finalize"
    BY <1>a DEF ResumeFits, ApprovalFits
  <2>2. /\ run[r].paused => row'[c].status = "AWAITING_HUMAN_REVIEW"
        /\ ~run[r].paused => \/ run[r].last = "finalize" /\ row'[c].status = "APPROVED"
                             \/ run[r].last = "escalate" /\ row'[c].status = "ESCALATED"
    BY <1>a, <1>4, CommitWrites
  <2> QED
    BY <2>1, <2>2
<1> QED
  BY <1>1, <1>2, <1>3, <1>4 DEF Next, vars, BuildInitialState, GetCase, Decide, Respond, Crash

\* A rejection never ends in an approval of its case: its run is back at the review, or
\* escalates, if no case is decided twice at the same time.
THEOREM RejectionNeverApproves ==
  ASSUME Dependable
  PROVE  Spec /\ []DecisionsApart => RejectNeverApproves
<1>1. "ack" \notin Faults
  BY DEF Dependable
<1>2. /\ Spec => []FirstRunInvariant
      /\ Spec /\ []DecisionsApart => []ClosingInvariant
  BY <1>1, FirstRunHolds, ClosingHolds
<1>3. ASSUME TypeOK, FirstRunInvariant, ClosingInvariant, ResumeInvariant, DecisionsApart,
             [Next]_vars, NEW r \in Reqs, run[r].pc = "commit", run[r].decision = "reject",
             row[run[r].case].status # "APPROVED"
      PROVE  row'[run[r].case].status # "APPROVED"
  <2>1. PICK c \in Cases : c = run[r].case
    BY <1>3, RunTyped DEF Procs
  <2> QED
    BY <1>3, <2>1, RejectionKept
<1>4. TypeOK /\ FirstRunInvariant /\ ClosingInvariant /\ ResumeInvariant /\ DecisionsApart
        /\ [Next]_vars
      => [\A r \in Reqs :
            LET c == run[r].case
            IN run[r].pc = "commit" /\ run[r].decision = "reject" /\ row[c].status # "APPROVED"
                 => row'[c].status # "APPROVED"]_vars
  BY <1>3
<1> QED
  BY <1>2, <1>4, TypeCorrect, ResumeHolds, PTL DEF Spec, RejectNeverApproves

-----------------------------------------------------------------------------
(* What the officer has seen *)

\* From the moment a case is read until its approval is consumed, the client's plan is
\* the plan of the row.
ShownFits(p) ==
  \/ run[p].pc \in {"viewing", "starting"} /\ p \in Reqs
  \/ run[p].pc = "stream" /\ run[p].decision = "approve"
  => run[p].shown = row[run[p].case].plan

ShownInvariant == \A p \in Procs : ShownFits(p)

\* The invariant holds of the empty tables.
LEMMA ShownStarts == Init => ShownInvariant
BY DEF Init, ShownInvariant, ShownFits

\* It is enough that a step keeps its own process fitting, if it writes no row while
\* somebody else has the case in hand.
LEMMA ShownFramed ==
  ASSUME TypeOK, FirstRunInvariant, OfficersApart, ShownInvariant,
         NEW p \in Procs, Frame(p), ShownFits(p)',
         \/ row' = row
         \/ run[p].pc \in {"commit", "failcommit"}
         \/ row[run[p].case].status = "ABSENT"
  PROVE  ShownInvariant'
<1>1. ASSUME NEW q \in Procs, q # p PROVE ShownFits(q)'
  <2>1. /\ run'[q] = run[q] /\ ShownFits(q) /\ FirstRunFits(q) /\ FirstRunFits(p)
        /\ run[q].case \in Cases
    BY <1>1, RunTyped DEF Frame, ShownInvariant, FirstRunInvariant
  <2>2. CASE row'[run[q].case] = row[run[q].case]
    BY <2>1, <2>2 DEF ShownFits
  <2>3. CASE q \in Cases
    BY <2>1, <2>3 DEF FirstRunFits, ShownFits, Procs
  <2>4. CASE q \in Reqs /\ run[q].pc = "idle"
    BY <2>1, <2>4 DEF ShownFits
  <2>5. CASE q \in Reqs /\ run[q].pc # "idle" /\ row'[run[q].case] # row[run[q].case]
    <3>1. run[p].case = run[q].case
      BY <2>1, <2>5 DEF Frame
    <3>2. run[p].pc \in {"commit", "failcommit"}
      BY <2>1, <2>5, <3>1 DEF FirstRunFits, Decidable, Closed
    <3>3. p \notin Reqs
      BY <1>1, <2>5, <3>1, <3>2 DEF OfficersApart
    <3>4. p \in Cases /\ Active(p)
      BY <3>2, <3>3 DEF Procs, Active
    <3> QED
      BY <2>1, <2>5, <3>1, <3>4 DEF FirstRunFits, Decidable, Closed
  <2> QED
    BY <2>2, <2>3, <2>4, <2>5 DEF Procs
<1>2. ASSUME NEW q \in Procs PROVE ShownFits(q)'
  BY <1>1
<1> QED
  BY <1>2 DEF ShownInvariant

\* Every step keeps it, if commits are acknowledged and no two officers have the same
\* case in hand.
LEMMA ShownKept ==
  ASSUME "ack" \notin Faults, TypeOK, FirstRunInvariant, ShownInvariant, OfficersApart,
         [Next]_vars
  PROVE  ShownInvariant'
<1>a. Cases \subseteq Procs /\ Reqs \subseteq Procs
  BY DEF Procs
<1>b. \A p \in Procs : ShownFits(p) /\ FirstRunFits(p)
  BY DEF ShownInvariant, FirstRunInvariant
<1>1. ASSUME NEW c \in Cases, NEW w \in Workers, OpenCase(c, w) PROVE ShownInvariant'
  <2>1. /\ run[c].case = c /\ run[c] \in Run /\ run \in [Procs -> Run]
        /\ row[c].status = "ABSENT"
    BY <1>1, <1>a, <1>b, RunTyped DEF FirstRunFits, OpenCase
  <2>2. Frame(c)
    BY <1>1, <2>1 DEF OpenCase, Frame, TypeOK
  <2>3. run'[c].pc = "queued"
    BY <1>1, <1>a, <2>1 DEF OpenCase, AtRest, Run
  <2> QED
    BY <1>a, <2>1, <2>2, <2>3, ShownFramed DEF ShownFits
<1>2. ASSUME NEW c \in Cases, BuildInitialState(c) PROVE ShownInvariant'
  <2>1. (\A q \in Procs \ {c} : run'[q] = run[q]) /\ run'[c].pc = "starting" /\ c \notin Reqs
    BY <1>2, <1>a, GotoMoves DEF BuildInitialState
  <2>2. Frame(c) /\ row' = row
    BY <1>2, <2>1 DEF Frame, BuildInitialState
  <2> QED
    BY <1>a, <2>1, <2>2, ShownFramed DEF ShownFits
<1>3. ASSUME NEW r \in Reqs, NEW c \in Cases, GetCase(r, c) PROVE ShownInvariant'
  <2>1. /\ \A q \in Procs \ {r} : run'[q] = run[q]
        /\ run'[r].pc = "viewing" /\ run'[r].case = c /\ run'[r].shown = row[c].plan
    BY <1>3, <1>a, RunTyped DEF GetCase, Run
  <2>2. Frame(r) /\ row' = row
    BY <1>3, <2>1 DEF Frame, GetCase
  <2> QED
    BY <1>a, <2>1, <2>2, ShownFramed DEF ShownFits
<1>4. ASSUME NEW r \in Reqs, NEW d \in {"approve", "reject"}, NEW w \in Workers,
             Decide(r, d, w)
      PROVE  ShownInvariant'
  <2>1. UNCHANGED <<row, audit, ckpt, signed, executed>> /\ run[r].pc = "viewing" /\ ShownFits(r)
    BY <1>4, <1>a, <1>b DEF Decide
  <2>2. CASE row[run[r].case].status = "AWAITING_HUMAN_REVIEW"
    <3>1. /\ \A q \in Procs \ {r} : run'[q] = run[q]
          /\ run'[r].pc = "starting" /\ run'[r].case = run[r].case
          /\ run'[r].shown = run[r].shown
      BY <1>4, <1>a, <2>2, RunTyped DEF Decide, Run
    <3>2. Frame(r)
      BY <2>1, <3>1 DEF Frame
    <3> QED
      BY <1>a, <2>1, <3>1, <3>2, ShownFramed DEF ShownFits
  <2>3. CASE row[run[r].case].status # "AWAITING_HUMAN_REVIEW"
    <3>1. Rest(r, "idle")
      BY <1>4, <2>3 DEF Decide
    <3>2. (\A q \in Procs \ {r} : run'[q] = run[q]) /\ run'[r].pc = "idle"
      BY <1>a, <3>1, RestMoves
    <3>3. Frame(r)
      BY <2>1, <3>2 DEF Frame
    <3> QED
      BY <1>a, <2>1, <3>2, <3>3, ShownFramed DEF ShownFits
  <2> QED
    BY <2>2, <2>3
<1>5. ASSUME NEW p \in Procs, RunStep(p) \/ Fault(p) PROVE ShownInvariant'
  <2>1. Frame(p) /\ (row' = row \/ run[p].pc \in {"commit", "failcommit"})
    BY <1>5, StepFramed, RowWritten
  <2>2. ASSUME run'[p].pc \notin {"viewing", "starting", "stream"} PROVE ShownInvariant'
    BY <2>1, <2>2, ShownFramed DEF ShownFits
  <2>3. ASSUME run'[p].shown = run[p].shown, run'[p].case = run[p].case,
               run'[p].decision = run[p].decision, row' = row, run'[p].pc = "stream",
               \/ run[p].pc = "stream"
               \/ run[p].pc = "starting" /\ (p \in Reqs \/ run[p].decision # "approve")
        PROVE  ShownInvariant'
    BY <1>b, <2>1, <2>3, ShownFramed DEF ShownFits
  <2>4. CASE StartFresh(p)
    BY <2>3, <2>4, StartFreshMoves DEF StartFresh
  <2>5. CASE StartResume(p)
    <3>1. /\ run'[p].pc \in {"failing", "snapshot", "stream"} /\ run'[p].shown = run[p].shown
          /\ run'[p].case = run[p].case /\ run'[p].decision = run[p].decision
      BY <2>5, StartResumeMoves
    <3>2. row' = row /\ run[p].pc = "starting" /\ p \in Reqs
      BY <1>b, <2>5 DEF StartResume, FirstRunFits, Procs
    <3> QED
      BY <2>2, <2>3, <3>1, <3>2
  <2>6. ASSUME NEW node, NEW st, NEW next, Superstep(p, node, st, next), run[p].pc = "stream"
        PROVE  ShownInvariant'
    <3>1. /\ run'[p].shown = run[p].shown /\ run'[p].case = run[p].case
          /\ run'[p].decision = run[p].decision /\ row' = row
      BY <2>6, SuperstepMoves
    <3>2. run'[p].pc \in {"stream", "snapshot"}
      BY <2>6, SuperstepMoves
    <3> QED
      BY <2>2, <2>3, <2>6, <3>1, <3>2
  <2>7. CASE RunRetrieveContext(p) \/ RunPlanRemediation(p) \/ RunComplianceCheck(p)
             \/ RunHumanReview(p) \/ RunFinalize(p) \/ RunEscalate(p)
    BY <2>6, <2>7 DEF RunRetrieveContext, RunPlanRemediation, RunComplianceCheck,
                      RunHumanReview, RunFinalize, RunEscalate, At
  <2>8. CASE PauseForReview(p) \/ Snapshot(p) \/ LoadRow(p) \/ FailureLoad(p)
    BY <2>2, <2>8, PauseMoves, SnapshotMoves, LoadMoves, FailureLoadMoves
  <2>9. CASE Commit(p) \/ FailureCommit(p)
    BY <2>2, <2>9, ReturnMoves DEF Commit, FailureCommit
  <2>10. CASE Fault(p)
    <3>1. Goto(p, "failing") \/ \E pc \in {"idle", "dead"} : Rest(p, pc)
      BY <2>10 DEF Fault, NodeRaises, CommitAckLost, DbFails, Raise
    <3>2. run'[p].pc \in {"failing", "idle", "dead"}
      BY <3>1, GotoMoves, RestMoves
    <3> QED
      BY <2>2, <3>2
  <2> QED
    BY <1>5, <2>4, <2>5, <2>7, <2>8, <2>9, <2>10 DEF RunStep
<1>6. ASSUME NEW r \in Reqs, Respond(r) PROVE ShownInvariant'
  <2>1. (\A q \in Procs \ {r} : run'[q] = run[q]) /\ run'[r].pc = "idle"
    BY <1>6, <1>a, RestMoves DEF Respond
  <2>2. Frame(r) /\ row' = row
    BY <1>6, <2>1 DEF Frame, Respond
  <2> QED
    BY <1>a, <2>1, <2>2, ShownFramed DEF ShownFits
<1>7. ASSUME NEW w \in Workers, Crash(w) PROVE ShownInvariant'
  <2> SUFFICES ASSUME NEW p \in Procs PROVE ShownFits(p)'
    BY DEF ShownInvariant
  <2>1. row' = row
    BY <1>7 DEF Crash
  <2>2. CASE run'[p] = run[p]
    BY <1>b, <2>1, <2>2 DEF ShownFits
  <2>3. CASE run'[p] = AtRest(p, IF p \in Cases THEN "dead" ELSE "idle")
    <3>1. PICK pc \in {"dead", "idle"} : run'[p] = AtRest(p, pc)
      BY <2>3
    <3>2. run'[p].pc \in {"dead", "idle"}
      BY <3>1, RunTyped DEF AtRest, Run
    <3> QED
      BY <3>2 DEF ShownFits
  <2> QED
    BY <1>7, <2>2, <2>3 DEF Crash
<1>8. CASE UNCHANGED vars
  BY <1>8 DEF vars, ShownInvariant, ShownFits
<1> QED
  BY <1>1, <1>2, <1>3, <1>4, <1>5, <1>6, <1>7, <1>8 DEF Next

\* The plan that human_review has just signed is the plan the officer was shown, if no
\* two officers have the same case in hand.
THEOREM SignedPlanWasAlwaysShown ==
  ASSUME Dependable
  PROVE  Spec /\ []OfficersApart => []SignedPlanWasShown
<1>1. "ack" \notin Faults
  BY DEF Dependable
<1>2. Spec => []FirstRunInvariant
  BY <1>1, FirstRunHolds
<1>3. OfficersApart => DecisionsApart
  BY DEF OfficersApart, DecisionsApart, Active
<1>4. TypeOK /\ FirstRunInvariant /\ ShownInvariant /\ OfficersApart /\ [Next]_vars
        => ShownInvariant'
  BY <1>1, ShownKept
<1>5. ResumeInvariant /\ ShownInvariant => SignedPlanWasShown
  BY DEF ResumeInvariant, ResumeFits, ApprovalFits, ShownInvariant, ShownFits,
         SignedPlanWasShown, At, Procs
<1> QED
  BY <1>2, <1>3, <1>4, <1>5, ShownStarts, TypeCorrect, ResumeHolds, PTL DEF Spec

-----------------------------------------------------------------------------
(* The rows implement CaseLifecycle *)

\* Where one row changes, the abstract statuses and plans change at that case.
LEMMA RowMapped ==
  ASSUME row \in [Cases -> Row], row' \in [Cases -> Row], NEW c \in Cases,
         \A d \in Cases \ {c} : row'[d] = row[d]
  PROVE  /\ [d \in Cases |-> row'[d].status]
              = [[d \in Cases |-> row[d].status] EXCEPT ![c] = row'[c].status]
         /\ [d \in Cases |-> row'[d].plan]
              = [[d \in Cases |-> row[d].plan] EXCEPT ![c] = row'[c].plan]
         /\ row'[c].plan = row[c].plan =>
              [d \in Cases |-> row'[d].plan] = [d \in Cases |-> row[d].plan]
OBVIOUS

\* The transaction of a run is a review, an approval or an escalation of its case.
LEMMA CommitMapped ==
  ASSUME TypeOK, TypeOK', SignOffInvariant, FirstRunInvariant, ClosingInvariant,
         ResumeInvariant, NEW p \in Procs, Frame(p), Commit(p) \/ FailureCommit(p)
  PROVE  Lifecycle!Next
<1>1. PICK c \in Cases : c = run[p].case
  BY RunTyped
<1>2. /\ row \in [Cases -> Row] /\ row' \in [Cases -> Row]
      /\ \A d \in Cases \ {c} : row'[d] = row[d]
  BY <1>1 DEF TypeOK, Frame
<1>3. /\ [d \in Cases |-> row'[d].status]
           = [[d \in Cases |-> row[d].status] EXCEPT ![c] = row'[c].status]
      /\ [d \in Cases |-> row'[d].plan]
           = [[d \in Cases |-> row[d].plan] EXCEPT ![c] = row'[c].plan]
      /\ row'[c].plan = row[c].plan =>
           [d \in Cases |-> row'[d].plan] = [d \in Cases |-> row[d].plan]
  BY <1>2, RowMapped
<1>4. row[c].status \in {"PENDING_CONTEXT", "AWAITING_HUMAN_REVIEW"}
  BY <1>1, OpenAtWork DEF Commit, FailureCommit, Inside
<1>5. /\ run[p].worker \in Workers /\ run[p].st \in AgentState
      /\ ResumeFits(p) /\ ClosingFits(p) /\ FirstRunFits(p)
  BY RunTyped DEF ResumeInvariant, ClosingInvariant, FirstRunInvariant
<1>6. CASE Commit(p)
  <2>1. run[p].pc = "commit" /\ run[p].pc \in Streamed
    BY <1>6 DEF Commit, Streamed
  <2>2. /\ row'[c].plan = run[p].st.plan
        /\ run[p].paused => row'[c].status = "AWAITING_HUMAN_REVIEW"
        /\ ~run[p].paused => \/ run[p].last = "finalize" /\ row'[c].status = "APPROVED"
                             \/ run[p].last = "escalate" /\ row'[c].status = "ESCALATED"
    BY <1>1, <1>6, CommitWrites
  <2>3. CASE run[p].paused
    <3>1. ckpt[run[p].worker][c] = [st |-> run[p].st, next |-> "human_review"]
      BY <1>1, <1>5, <2>1, <2>3 DEF ResumeFits, ClosingFits
    <3>2. run[p].st.plan \in CompliantPlans
      BY <1>5, <3>1 DEF SignOffInvariant, NextIsSound
    <3>3. Lifecycle!Review(c)
      BY <1>3, <1>4, <2>2, <2>3, <3>2 DEF Lifecycle!Review
    <3> QED
      BY <3>3 DEF Lifecycle!Next
  <2>4. CASE ~run[p].paused /\ run[p].last = "finalize"
    <3>1. run[p].decision = "approve"
      BY <1>5, <2>4 DEF ResumeFits, ApprovalFits
    <3>2. row'[c].plan = row[c].plan
      BY <1>1, <1>5, <2>1, <2>2, <3>1 DEF ResumeFits, ApprovalFits
    <3>3. row[c].status = "AWAITING_HUMAN_REVIEW"
      BY <1>1, <1>5, <2>1, <3>1 DEF FirstRunFits, ClosingFits, Inside, Procs
    <3>4. Lifecycle!Approve(c)
      BY <1>3, <2>2, <2>4, <3>2, <3>3 DEF Lifecycle!Approve
    <3> QED
      BY <3>4 DEF Lifecycle!Next
  <2>5. CASE ~run[p].paused /\ run[p].last = "escalate"
    <3>1. run[p].st.plan \in Plans \union {NoPlan}
      BY <1>5 DEF AgentState
    <3>2. Lifecycle!Escalate(c)
      BY <1>3, <1>4, <2>2, <2>5, <3>1 DEF Lifecycle!Escalate
    <3> QED
      BY <3>2 DEF Lifecycle!Next
  <2> QED
    BY <2>2, <2>3, <2>4, <2>5
<1>7. CASE FailureCommit(p)
  <2>1. row'[c].status = "ESCALATED" /\ row'[c].plan = row[c].plan
    BY <1>1, <1>7, FailureWrites
  <2>2. row[c].plan \in Plans \union {NoPlan}
    BY <1>2 DEF Row
  <2>3. Lifecycle!Escalate(c)
    BY <1>3, <1>4, <2>1, <2>2 DEF Lifecycle!Escalate
  <2> QED
    BY <2>3 DEF Lifecycle!Next
<1> QED
  BY <1>6, <1>7

\* Every step of the workflow is a step of the case's life, or none.
LEMMA StepMapped ==
  ASSUME Dependable, TypeOK, TypeOK', SignOffInvariant, FirstRunInvariant, ClosingInvariant,
         ResumeInvariant, [Next]_vars
  PROVE  [Lifecycle!Next]_(Lifecycle!vars)
<1>1. CASE row' = row
  BY <1>1 DEF Lifecycle!vars
<1>2. ASSUME NEW c \in Cases, NEW w \in Workers, OpenCase(c, w) PROVE Lifecycle!Next
  <2>1. /\ row \in [Cases -> Row] /\ row' \in [Cases -> Row] /\ row[c] \in Row
        /\ row[c].status = "ABSENT" /\ row' = [row EXCEPT ![c].status = "PENDING_CONTEXT"]
    BY <1>2 DEF TypeOK, OpenCase
  <2>2. row'[c].status = "PENDING_CONTEXT" /\ row'[c].plan = row[c].plan
    BY <2>1 DEF Row
  <2>3. \A d \in Cases \ {c} : row'[d] = row[d]
    BY <2>1
  <2>4. Lifecycle!Open(c)
    BY <2>1, <2>2, <2>3, RowMapped DEF Lifecycle!Open
  <2> QED
    BY <2>4 DEF Lifecycle!Next
<1>3. ASSUME NEW p \in Procs, RunStep(p) \/ Fault(p), row' # row PROVE Lifecycle!Next
  <2>1. run[p].pc \in {"commit", "failcommit"}
    BY <1>3, RowWritten
  <2>2. Commit(p) \/ FailureCommit(p)
    BY <1>3, <2>1 DEF RunStep, Fault, StartFresh, StartResume, RunRetrieveContext,
       RunPlanRemediation, RunComplianceCheck, PauseForReview, RunHumanReview, RunFinalize,
       RunEscalate, Snapshot, LoadRow, FailureLoad, NodeRaises, CommitAckLost, DbFails, At,
       Dependable
  <2> QED
    BY <1>3, <2>2, StepFramed, CommitMapped
<1> QED
  BY <1>1, <1>2, <1>3 DEF Next, vars, BuildInitialState, GetCase, Decide, Respond, Crash

\* The rows of remediation_cases change only as CaseLifecycle says: a compliant plan is put
\* up for review, the plan under review and no other is approved, and what is closed is
\* not touched again.
THEOREM RowsFollowLifecycle ==
  ASSUME Dependable
  PROVE  Spec /\ []DecisionsApart => Lifecycle!Safety
<1>1. "ack" \notin Faults
  BY DEF Dependable
<1>2. /\ Spec => []FirstRunInvariant
      /\ Spec /\ []DecisionsApart => []ClosingInvariant
  BY <1>1, FirstRunHolds, ClosingHolds
<1>3. Init => Lifecycle!Init
  BY DEF Init, NoRow, Lifecycle!Init
<1>4. TypeOK /\ TypeOK' /\ SignOffInvariant /\ FirstRunInvariant /\ ClosingInvariant
        /\ ResumeInvariant /\ [Next]_vars => [Lifecycle!Next]_(Lifecycle!vars)
  BY StepMapped
<1> QED
  BY <1>2, <1>3, <1>4, TypeCorrect, SignOffHolds, ResumeHolds, PTL DEF Spec, Lifecycle!Safety
===============================================================================
