------------------------ MODULE RemediationCases_proofs ------------------------
(***************************************************************************)
(* Proofs about RemediationWorkflow when commits are acknowledged: how the *)
(* runs of a case follow each other and, if no case is decided twice at    *)
(* the same time, how cases are closed.  For every number of cases,        *)
(* requests and workers, either checkpointer, any bounds, failing nodes,   *)
(* failing database calls and dying workers.                               *)
(***************************************************************************)
EXTENDS RemediationWorkflow_proofs

USE PlansAssumption, MaxRevisionsAssumption, ProcsAssumption, EnvironmentAssumption

-----------------------------------------------------------------------------
(* What a step of one process leaves alone *)

\* Nothing but the run of p and the tables of the case it is about changes.
Frame(p) ==
  LET c == run[p].case
  IN /\ \A q \in Procs \ {p} : run'[q] = run[q]
     /\ \A d \in Cases \ {c} :
          /\ row'[d] = row[d] /\ audit'[d] = audit[d]
          /\ signed'[d] = signed[d] /\ executed'[d] = executed[d]
          /\ \A w \in Workers : ckpt'[w][d] = ckpt[w][d]

\* What the fields of a process are.
LEMMA RunTyped ==
  ASSUME TypeOK, NEW p \in Procs
  PROVE  /\ run \in [Procs -> Run] /\ run[p] \in Run /\ run[p].case \in Cases
         /\ run[p].worker \in Workers /\ run[p].st \in AgentState
         /\ run[p].decision \in Decisions /\ run[p].seen \in Row
         /\ run[p].paused \in BOOLEAN /\ run[p].next \in NextNodes
BY DEF TypeOK, Run

\* A process that moves on changes its place only.
LEMMA GotoMoves ==
  ASSUME TypeOK, NEW p \in Procs, NEW pc, Goto(p, pc)
  PROVE  /\ \A q \in Procs \ {p} : run'[q] = run[q]
         /\ run'[p].pc = pc
         /\ run'[p].case = run[p].case /\ run'[p].worker = run[p].worker
         /\ run'[p].decision = run[p].decision /\ run'[p].armed = run[p].armed
         /\ run'[p].shown = run[p].shown /\ run'[p].st = run[p].st
         /\ run'[p].next = run[p].next /\ run'[p].last = run[p].last
         /\ run'[p].paused = run[p].paused /\ run'[p].logs = run[p].logs
         /\ run'[p].seen = run[p].seen
BY RunTyped DEF Goto, Run

\* A process that ends keeps nothing but its case.
LEMMA RestMoves ==
  ASSUME TypeOK, NEW p \in Procs, NEW pc, Rest(p, pc)
  PROVE  /\ \A q \in Procs \ {p} : run'[q] = run[q]
         /\ run'[p].pc = pc /\ run'[p].case = run[p].case
         /\ run'[p].decision = "none" /\ run'[p].last = "none" /\ run'[p].paused = FALSE
BY RunTyped DEF Rest, AtRest, Run

\* run_case returns to a request, or its background task ends.
LEMMA ReturnMoves ==
  ASSUME TypeOK, NEW p \in Procs, Return(p)
  PROVE  /\ \A q \in Procs \ {p} : run'[q] = run[q]
         /\ p \in Cases => /\ run'[p].pc = "done"
                          /\ run'[p].decision = "none" /\ run'[p].last = "none"
         /\ p \notin Cases => /\ run'[p].pc = "refresh"
                             /\ run'[p].decision = run[p].decision
                             /\ run'[p].last = run[p].last
         /\ run'[p].case = run[p].case
<1>1. CASE p \in Cases
  BY <1>1, RestMoves DEF Return
<1>2. CASE p \notin Cases
  BY <1>2, GotoMoves DEF Return
<1> QED
  BY <1>1, <1>2

\* A superstep of p writes its new state to the run and to the checkpoint.
LEMMA SuperstepMoves ==
  ASSUME TypeOK, NEW p \in Procs, NEW node, NEW st, NEW next, Superstep(p, node, st, next)
  PROVE  /\ \A q \in Procs \ {p} : run'[q] = run[q]
         /\ next = "END" => run'[p].pc = "snapshot"
         /\ next # "END" => run'[p].pc = "stream"
         /\ run'[p].case = run[p].case /\ run'[p].worker = run[p].worker
         /\ run'[p].decision = run[p].decision /\ ~run'[p].armed
         /\ run'[p].shown = run[p].shown /\ run'[p].st = st
         /\ run'[p].next = next /\ run'[p].last = node
         /\ run'[p].paused = run[p].paused /\ run'[p].logs = run[p].logs \union {node}
         /\ run'[p].seen = run[p].seen
         /\ row' = row /\ audit' = audit
         /\ \A w \in Workers, d \in Cases :
              \/ ckpt'[w][d] = ckpt[w][d] /\ (d # run[p].case \/ w # run[p].worker)
              \/ ckpt'[w][d] = [st |-> st, next |-> next] /\ d = run[p].case
         /\ \A w \in Workers : SharedCheckpointer \/ w = run[p].worker =>
              ckpt'[w][run[p].case] = [st |-> st, next |-> next]
         /\ executed' = [executed EXCEPT ![run[p].case] = @ \union {node}]
<1>1. run[p] \in Run /\ run \in [Procs -> Run] /\ run[p].case \in Cases /\ run[p].worker \in Workers
  BY RunTyped
<1>2. ckpt \in [Workers -> [Cases -> Checkpoint]]
  BY DEF TypeOK
<1>3. run' = [run EXCEPT ![p] = [run[p] EXCEPT
               !.pc = IF next = "END" THEN "snapshot" ELSE "stream",
               !.armed = FALSE, !.st = st, !.next = next,
               !.last = node, !.logs = @ \union {node}]]
  BY <1>1 DEF Superstep
<1>4. /\ \A w \in Workers, d \in Cases :
              \/ ckpt'[w][d] = ckpt[w][d] /\ (d # run[p].case \/ w # run[p].worker)
              \/ ckpt'[w][d] = [st |-> st, next |-> next] /\ d = run[p].case
      /\ \A w \in Workers : SharedCheckpointer \/ w = run[p].worker =>
              ckpt'[w][run[p].case] = [st |-> st, next |-> next]
  BY <1>1, <1>2 DEF Superstep, Put
<1>5. row' = row /\ audit' = audit
      /\ executed' = [executed EXCEPT ![run[p].case] = @ \union {node}]
  BY DEF Superstep
<1>6. \A q \in Procs \ {p} : run'[q] = run[q]
  BY <1>1, <1>3
<1>7. run'[p] = [run[p] EXCEPT
               !.pc = IF next = "END" THEN "snapshot" ELSE "stream",
               !.armed = FALSE, !.st = st, !.next = next,
               !.last = node, !.logs = @ \union {node}]
  BY <1>1, <1>3
<1> QED
  BY <1>1, <1>4, <1>5, <1>6, <1>7 DEF Run

\* A pause keeps everything but the place.
LEMMA PauseMoves ==
  ASSUME TypeOK, NEW p \in Procs, PauseForReview(p)
  PROVE  /\ \A q \in Procs \ {p} : run'[q] = run[q]
         /\ run'[p].pc = "snapshot"
         /\ run'[p].paused = TRUE
         /\ run'[p].case = run[p].case /\ run'[p].worker = run[p].worker
         /\ run'[p].decision = run[p].decision /\ run'[p].armed = run[p].armed
         /\ run'[p].shown = run[p].shown /\ run'[p].st = run[p].st
         /\ run'[p].next = run[p].next /\ run'[p].last = run[p].last
         /\ run'[p].logs = run[p].logs /\ run'[p].seen = run[p].seen
BY RunTyped DEF PauseForReview, Run

\* aget_state reads the checkpoint.
LEMMA SnapshotMoves ==
  ASSUME TypeOK, NEW p \in Procs, Snapshot(p)
  PROVE  /\ \A q \in Procs \ {p} : run'[q] = run[q]
         /\ run'[p].pc = "load"
         /\ run'[p].st = ckpt[run[p].worker][run[p].case].st
         /\ run'[p].case = run[p].case /\ run'[p].worker = run[p].worker
         /\ run'[p].decision = run[p].decision /\ run'[p].armed = run[p].armed
         /\ run'[p].shown = run[p].shown /\ run'[p].next = run[p].next
         /\ run'[p].last = run[p].last /\ run'[p].paused = run[p].paused
         /\ run'[p].logs = run[p].logs /\ run'[p].seen = run[p].seen
BY RunTyped DEF Snapshot, Run

\* session.get reads the row.
LEMMA LoadMoves ==
  ASSUME TypeOK, NEW p \in Procs, LoadRow(p)
  PROVE  /\ \A q \in Procs \ {p} : run'[q] = run[q]
         /\ run'[p].pc = "commit"
         /\ run'[p].seen = row[run[p].case]
         /\ run'[p].case = run[p].case /\ run'[p].worker = run[p].worker
         /\ run'[p].decision = run[p].decision /\ run'[p].armed = run[p].armed
         /\ run'[p].shown = run[p].shown /\ run'[p].st = run[p].st
         /\ run'[p].next = run[p].next /\ run'[p].last = run[p].last
         /\ run'[p].paused = run[p].paused /\ run'[p].logs = run[p].logs
BY RunTyped DEF LoadRow, Run

\* The except branch reads the row anew.
LEMMA FailureLoadMoves ==
  ASSUME TypeOK, NEW p \in Procs, FailureLoad(p)
  PROVE  /\ \A q \in Procs \ {p} : run'[q] = run[q]
         /\ run'[p].pc = "failcommit"
         /\ run'[p].seen = row[run[p].case]
         /\ run'[p].logs = {}
         /\ run'[p].case = run[p].case /\ run'[p].worker = run[p].worker
         /\ run'[p].decision = run[p].decision /\ run'[p].armed = run[p].armed
         /\ run'[p].shown = run[p].shown /\ run'[p].st = run[p].st
         /\ run'[p].next = run[p].next /\ run'[p].last = run[p].last
         /\ run'[p].paused = run[p].paused
BY RunTyped DEF FailureLoad, Run

\* A fresh run starts at retrieve_context, and checkpoints that.
LEMMA StartFreshMoves ==
  ASSUME TypeOK, NEW p \in Procs, StartFresh(p)
  PROVE  /\ \A q \in Procs \ {p} : run'[q] = run[q]
         /\ run'[p].pc = "stream"
         /\ run'[p].st = InitialState
         /\ run'[p].next = "retrieve_context"
         /\ run'[p].case = run[p].case /\ run'[p].worker = run[p].worker
         /\ run'[p].decision = run[p].decision /\ run'[p].armed = run[p].armed
         /\ run'[p].shown = run[p].shown /\ run'[p].last = run[p].last
         /\ run'[p].paused = run[p].paused /\ run'[p].logs = run[p].logs
         /\ run'[p].seen = run[p].seen
         /\ \A w \in Workers, d \in Cases :
              \/ ckpt'[w][d] = ckpt[w][d] /\ (d # run[p].case \/ w # run[p].worker)
              \/ /\ ckpt'[w][d] = [st |-> InitialState, next |-> "retrieve_context"]
                 /\ d = run[p].case
         /\ \A w \in Workers : SharedCheckpointer \/ w = run[p].worker =>
              ckpt'[w][run[p].case] = [st |-> InitialState, next |-> "retrieve_context"]
<1>1. run[p] \in Run /\ run \in [Procs -> Run] /\ run[p].case \in Cases /\ run[p].worker \in Workers
  BY RunTyped
<1>2. ckpt \in [Workers -> [Cases -> Checkpoint]]
  BY DEF TypeOK
<1>3. /\ \A w \in Workers, d \in Cases :
           \/ ckpt'[w][d] = ckpt[w][d] /\ (d # run[p].case \/ w # run[p].worker)
           \/ /\ ckpt'[w][d] = [st |-> InitialState, next |-> "retrieve_context"]
              /\ d = run[p].case
      /\ \A w \in Workers : SharedCheckpointer \/ w = run[p].worker =>
           ckpt'[w][run[p].case] = [st |-> InitialState, next |-> "retrieve_context"]
  BY <1>1, <1>2 DEF StartFresh, Put
<1>4. \A q \in Procs \ {p} : run'[q] = run[q]
  BY <1>1 DEF StartFresh
<1>5. run'[p] = [run[p] EXCEPT !.pc = "stream", !.st = InitialState,
                               !.next = "retrieve_context"]
  BY <1>1 DEF StartFresh
<1> QED
  BY <1>1, <1>3, <1>4, <1>5 DEF Run

\* A resumed run goes on where the checkpoint says.
LEMMA StartResumeMoves ==
  ASSUME TypeOK, NEW p \in Procs, StartResume(p)
  PROVE  /\ \A q \in Procs \ {p} : run'[q] = run[q]
         /\ run'[p].pc = 
             CASE ckpt[run[p].worker][run[p].case].next = "none" -> "failing"
               [] ckpt[run[p].worker][run[p].case].next = "END"  -> "snapshot"
               [] OTHER                                          -> "stream"
         /\ run'[p].armed = TRUE
         /\ run'[p].st = ckpt[run[p].worker][run[p].case].st
         /\ run'[p].next = ckpt[run[p].worker][run[p].case].next
         /\ run'[p].case = run[p].case /\ run'[p].worker = run[p].worker
         /\ run'[p].decision = run[p].decision /\ run'[p].shown = run[p].shown
         /\ run'[p].last = run[p].last /\ run'[p].paused = run[p].paused
         /\ run'[p].logs = run[p].logs /\ run'[p].seen = run[p].seen
<1> DEFINE saved == ckpt[run[p].worker][run[p].case]
           place == CASE saved.next = "none" -> "failing"
                      [] saved.next = "END"  -> "snapshot"
                      [] OTHER               -> "stream"
<1>1. run' = [run EXCEPT ![p].pc = place, ![p].armed = TRUE, ![p].st = saved.st,
                         ![p].next = saved.next]
  BY DEF StartResume
<1>2. run'[p].pc = place /\ \A q \in Procs \ {p} : run'[q] = run[q]
  <2> HIDE DEF place
  <2> QED
    BY <1>1, RunTyped DEF Run
<1>3. /\ run'[p].case = run[p].case /\ run'[p].worker = run[p].worker
      /\ run'[p].decision = run[p].decision /\ run'[p].armed = TRUE
      /\ run'[p].shown = run[p].shown /\ run'[p].st = saved.st
      /\ run'[p].next = saved.next /\ run'[p].last = run[p].last
      /\ run'[p].paused = run[p].paused /\ run'[p].logs = run[p].logs
      /\ run'[p].seen = run[p].seen
  <2> HIDE DEF place, saved
  <2> QED
    BY <1>1, RunTyped DEF Run
<1> QED
  BY <1>2, <1>3

\* A step of run_case, or a failure in it, is framed.
LEMMA StepFramed ==
  ASSUME TypeOK, NEW p \in Procs, RunStep(p) \/ Fault(p)
  PROVE  Frame(p)
<1>1. ASSUME NEW node, NEW st, NEW next, Superstep(p, node, st, next),
             \A d \in Cases \ {run[p].case} : signed'[d] = signed[d]
      PROVE  Frame(p)
  <2>1. /\ \A q \in Procs \ {p} : run'[q] = run[q]
        /\ row' = row /\ audit' = audit
    BY <1>1, SuperstepMoves
  <2>2. \A d \in Cases \ {run[p].case} : executed'[d] = executed[d]
    BY <1>1 DEF Superstep, TypeOK
  <2>3. \A d \in Cases \ {run[p].case} : \A w \in Workers : ckpt'[w][d] = ckpt[w][d]
    BY <1>1 DEF Superstep, Put, TypeOK
  <2> QED
    BY <1>1, <2>1, <2>2, <2>3 DEF Frame
<1>2. ASSUME NEW pc, Goto(p, pc) \/ Rest(p, pc),
             UNCHANGED <<ckpt, signed, executed>>, UNCHANGED <<row, audit>> \/ Persist(p)
      PROVE  Frame(p)
  <2>1. \A q \in Procs \ {p} : run'[q] = run[q]
    BY <1>2, GotoMoves, RestMoves
  <2>2. \A d \in Cases \ {run[p].case} : row'[d] = row[d] /\ audit'[d] = audit[d]
    BY <1>2 DEF Persist, TypeOK
  <2> QED
    BY <1>2, <2>1, <2>2 DEF Frame
<1>3. CASE StartFresh(p)
  <2>1. \A d \in Cases \ {run[p].case} : \A w \in Workers : ckpt'[w][d] = ckpt[w][d]
    BY <1>3 DEF StartFresh, Put, TypeOK
  <2>2. \A q \in Procs \ {p} : run'[q] = run[q]
    BY <1>3, StartFreshMoves
  <2> QED
    BY <1>3, <2>1, <2>2 DEF Frame, StartFresh
<1>4. CASE StartResume(p)
  BY <1>4, StartResumeMoves DEF Frame, StartResume
<1>5. CASE RunRetrieveContext(p) \/ RunPlanRemediation(p) \/ RunComplianceCheck(p)
           \/ RunFinalize(p) \/ RunEscalate(p)
  BY <1>1, <1>5 DEF RunRetrieveContext, RunPlanRemediation, RunComplianceCheck, RunFinalize,
                    RunEscalate
<1>6. CASE RunHumanReview(p)
  BY <1>1, <1>6 DEF RunHumanReview, TypeOK
<1>7. CASE PauseForReview(p) \/ Snapshot(p) \/ LoadRow(p) \/ FailureLoad(p)
  BY <1>7, PauseMoves, SnapshotMoves, LoadMoves, FailureLoadMoves
     DEF Frame, PauseForReview, Snapshot, LoadRow, FailureLoad
<1>8. CASE Commit(p) \/ CommitAckLost(p)
  BY <1>2, <1>8 DEF Commit, CommitAckLost, Return
<1>9. CASE FailureCommit(p)
  <2>1. \A q \in Procs \ {p} : run'[q] = run[q]
    BY <1>9, GotoMoves, RestMoves DEF FailureCommit, Return
  <2> QED
    BY <1>9, <2>1 DEF Frame, FailureCommit, TypeOK
<1>10. CASE NodeRaises(p) \/ DbFails(p)
  BY <1>2, <1>10 DEF NodeRaises, DbFails, Raise
<1> QED
  BY <1>3, <1>4, <1>5, <1>6, <1>7, <1>8, <1>9, <1>10 DEF RunStep, Fault

\* Only the transactions of run_case write rows.
LEMMA RowWritten ==
  ASSUME NEW p \in Procs, RunStep(p) \/ Fault(p), run[p].pc \notin {"commit", "failcommit"}
  PROVE  row' = row
BY DEF RunStep, Fault, StartFresh, StartResume, RunRetrieveContext, RunPlanRemediation,
       RunComplianceCheck, PauseForReview, RunHumanReview, RunFinalize, RunEscalate, Snapshot,
       LoadRow, Commit, FailureLoad, FailureCommit, NodeRaises, CommitAckLost, DbFails, Superstep

-----------------------------------------------------------------------------
(* The runs of a case *)

\* The statuses of a case that can be read and decided.
Decidable == Closed \union {"AWAITING_HUMAN_REVIEW"}

\* The places of run_case, its except branch included.
Inside == {"starting", "stream", "snapshot", "load", "commit", "failing", "failcommit"}

\* The background run of a case is under way while its context is pending; a request
\* is about a case that is past that, and so is the row it has loaded.
FirstRunFits(p) ==
  /\ p \in Cases =>
       /\ run[p].case = p /\ run[p].decision = "none"
       /\ run[p].pc \notin {"viewing", "refresh"}
       /\ Active(p) => row[p].status = "PENDING_CONTEXT"
  /\ p \in Reqs =>
       /\ run[p].pc \notin {"queued", "done", "dead"}
       /\ run[p].pc # "idle" => row[run[p].case].status \in Decidable
       /\ run[p].pc \in {"commit", "failcommit"} => run[p].seen.status \in Decidable
       /\ run[p].pc \notin {"idle", "viewing"} => run[p].decision \in {"approve", "reject"}

FirstRunInvariant == \A p \in Procs : FirstRunFits(p)

\* It is enough that a step leaves its own process fitting, if it writes a status only
\* for a case with no decision to be made, or one that can be decided.
LEMMA FirstRunFramed ==
  ASSUME TypeOK, FirstRunInvariant, NEW p \in Procs, Frame(p), FirstRunFits(p)',
         LET c == run[p].case
         IN \/ row'[c].status = row[c].status
            \/ p = c /\ row[c].status \notin Decidable
            \/ p \in Reqs /\ run[p].pc # "idle" /\ row'[c].status \in Decidable
  PROVE  FirstRunInvariant'
<1> SUFFICES ASSUME NEW q \in Procs, q # p PROVE FirstRunFits(q)'
  BY DEF FirstRunInvariant
<1>1. run'[q] = run[q] /\ FirstRunFits(q) /\ FirstRunFits(p)
  BY DEF Frame, FirstRunInvariant
<1>2. run[p].case \in Cases /\ run[q].case \in Cases
  BY RunTyped
<1>3. Active(q)' <=> Active(q)
  BY <1>1 DEF Active
<1>4. CASE run[q].case # run[p].case
  <2>1. row'[run[q].case] = row[run[q].case]
    BY <1>2, <1>4 DEF Frame
  <2> QED
    BY <1>1, <1>3, <2>1 DEF FirstRunFits
<1>5. CASE run[q].case = run[p].case /\ q \in Cases
  <2>1. p \in Reqs
    BY <1>1, <1>5 DEF FirstRunFits, Procs
  <2>2. p \notin Cases /\ q = run[p].case
    BY <1>1, <1>5, <2>1 DEF FirstRunFits
  <2>3. Active(q) => row'[q].status = row[q].status
    BY <1>1, <1>5, <2>1, <2>2 DEF FirstRunFits, Decidable, Closed
  <2> QED
    BY <1>1, <1>3, <1>5, <2>3 DEF FirstRunFits, Procs
<1>6. CASE run[q].case = run[p].case /\ q \in Reqs
  <2>1. run[q].pc # "idle" => row'[run[q].case].status \in Decidable
    BY <1>1, <1>6 DEF FirstRunFits
  <2> QED
    BY <1>1, <1>6, <2>1 DEF FirstRunFits
<1> QED
  BY <1>4, <1>5, <1>6 DEF Procs

\* A step inside run_case that writes no row.
LEMMA FirstRunInside ==
  ASSUME TypeOK, FirstRunInvariant, NEW p \in Procs, Frame(p), row' = row,
         run[p].pc \in Inside, run'[p].pc \in Inside,
         run'[p].case = run[p].case, run'[p].decision = run[p].decision,
         \/ run'[p].pc \notin {"commit", "failcommit"}
         \/ run'[p].seen = row[run[p].case]
  PROVE  FirstRunInvariant'
<1>1. FirstRunFits(p)
  BY DEF FirstRunInvariant
<1>2. Active(p)
  BY DEF Active, Inside
<1>3. FirstRunFits(p)'
  BY <1>1, <1>2 DEF FirstRunFits, Inside, Active
<1> QED
  BY <1>3, FirstRunFramed

\* A process that comes to rest.
LEMMA FirstRunRests ==
  ASSUME TypeOK, FirstRunInvariant, NEW p \in Procs, Frame(p),
         NEW pc, Rest(p, pc), p \in Cases => pc \in {"done", "dead"}, p \in Reqs => pc = "idle",
         \/ row'[run[p].case].status = row[run[p].case].status
         \/ p \in Cases /\ Active(p)
         \/ p \in Reqs /\ run[p].pc # "idle" /\ row'[run[p].case].status \in Decidable
  PROVE  FirstRunInvariant'
<1>1. FirstRunFits(p)
  BY DEF FirstRunInvariant
<1>2. run'[p].pc = pc /\ run'[p].case = run[p].case /\ run'[p].decision = "none"
  BY RestMoves
<1>3. FirstRunFits(p)'
  BY <1>1, <1>2 DEF FirstRunFits, Active
<1>4. p \in Cases /\ Active(p) => p = run[p].case /\ row[run[p].case].status \notin Decidable
  BY <1>1 DEF FirstRunFits, Decidable, Closed
<1> QED
  BY <1>3, <1>4, FirstRunFramed

\* run_case returns, having written a status that can be decided.
LEMMA FirstRunReturns ==
  ASSUME TypeOK, FirstRunInvariant, NEW p \in Procs, Frame(p), Return(p),
         run[p].pc \in Inside,
         p \in Reqs => row'[run[p].case].status \in Decidable
  PROVE  FirstRunInvariant'
<1>1. FirstRunFits(p) /\ Active(p)
  BY DEF FirstRunInvariant, Active, Inside
<1>2. CASE p \in Cases
  BY <1>1, <1>2, FirstRunRests DEF Return
<1>3. CASE p \in Reqs
  <2>1. /\ run'[p].pc = "refresh" /\ run'[p].case = run[p].case
        /\ run'[p].decision = run[p].decision
    BY <1>3, GotoMoves DEF Return
  <2>2. FirstRunFits(p)'
    BY <1>1, <1>3, <2>1 DEF FirstRunFits, Inside
  <2> QED
    BY <1>3, <2>2, FirstRunFramed DEF Inside
<1> QED
  BY <1>2, <1>3 DEF Procs

\* The invariant holds of the empty tables.
LEMMA FirstRunStarts == Init => FirstRunInvariant
BY DEF Init, FirstRunInvariant, FirstRunFits, Active

\* Every step keeps it, if commits are acknowledged.
LEMMA FirstRunKept ==
  ASSUME "ack" \notin Faults, TypeOK, FirstRunInvariant, [Next]_vars
  PROVE  FirstRunInvariant'
<1>a. Cases \subseteq Procs /\ Reqs \subseteq Procs
  BY DEF Procs
<1>b. \A p \in Procs : FirstRunFits(p)
  BY DEF FirstRunInvariant
<1>1. ASSUME NEW c \in Cases, NEW w \in Workers, OpenCase(c, w) PROVE FirstRunInvariant'
  <2>1. run[c].case = c /\ run[c] \in Run /\ run \in [Procs -> Run] /\ row \in [Cases -> Row]
    BY <1>a, <1>b, RunTyped DEF FirstRunFits, TypeOK
  <2>2. Frame(c)
    BY <1>1, <2>1 DEF OpenCase, Frame, TypeOK
  <2>3. /\ run'[c].case = c /\ run'[c].pc = "queued" /\ run'[c].decision = "none"
        /\ row'[c].status = "PENDING_CONTEXT"
    BY <1>1, <1>a, <2>1 DEF OpenCase, AtRest, Run, Row
  <2>4. FirstRunFits(c)'
    BY <2>3 DEF FirstRunFits
  <2> QED
    BY <1>1, <1>a, <2>1, <2>2, <2>4, FirstRunFramed DEF OpenCase, Decidable, Closed
<1>2. ASSUME NEW c \in Cases, BuildInitialState(c) PROVE FirstRunInvariant'
  <2>1. /\ \A q \in Procs \ {c} : run'[q] = run[q]
        /\ run'[c].pc = "starting" /\ run'[c].case = run[c].case
        /\ run'[c].decision = run[c].decision
    BY <1>2, <1>a, GotoMoves DEF BuildInitialState
  <2>2. Frame(c)
    BY <1>2, <2>1 DEF BuildInitialState, Frame
  <2>3. FirstRunFits(c)'
    BY <1>2, <1>a, <1>b, <2>1 DEF FirstRunFits, BuildInitialState, Active
  <2> QED
    BY <1>2, <1>a, <2>2, <2>3, FirstRunFramed DEF BuildInitialState
<1>3. ASSUME NEW r \in Reqs, NEW c \in Cases, GetCase(r, c) PROVE FirstRunInvariant'
  <2>1. /\ \A q \in Procs \ {r} : run'[q] = run[q]
        /\ run'[r].pc = "viewing" /\ run'[r].case = c
    BY <1>3, <1>a, RunTyped DEF GetCase, Run
  <2>2. Frame(r)
    BY <1>3, <2>1 DEF GetCase, Frame
  <2>3. FirstRunFits(r)'
    BY <1>3, <2>1 DEF FirstRunFits, GetCase, Decidable
  <2> QED
    BY <1>3, <1>a, <2>2, <2>3, FirstRunFramed DEF GetCase
<1>4. ASSUME NEW r \in Reqs, NEW d \in {"approve", "reject"}, NEW w \in Workers,
             Decide(r, d, w)
      PROVE  FirstRunInvariant'
  <2>1. CASE row[run[r].case].status = "AWAITING_HUMAN_REVIEW"
    <3>1. /\ \A q \in Procs \ {r} : run'[q] = run[q]
          /\ run'[r].pc = "starting" /\ run'[r].case = run[r].case /\ run'[r].decision = d
      BY <1>4, <1>a, <2>1, RunTyped DEF Decide, Run
    <3>2. Frame(r)
      BY <1>4, <3>1 DEF Decide, Frame
    <3>3. FirstRunFits(r)'
      BY <1>4, <2>1, <3>1 DEF FirstRunFits, Decide, Decidable
    <3> QED
      BY <1>4, <1>a, <3>2, <3>3, FirstRunFramed DEF Decide
  <2>2. CASE row[run[r].case].status # "AWAITING_HUMAN_REVIEW"
    <3>1. Rest(r, "idle") /\ UNCHANGED <<row, audit, ckpt, signed, executed>>
      BY <1>4, <2>2 DEF Decide
    <3>2. Frame(r)
      BY <1>a, <3>1, RestMoves DEF Frame
    <3> QED
      BY <1>a, <3>1, <3>2, FirstRunRests
  <2> QED
    BY <2>1, <2>2
<1>5. ASSUME NEW p \in Procs, RunStep(p) \/ Fault(p) PROVE FirstRunInvariant'
  <2>0. Frame(p) /\ FirstRunFits(p) /\ run[p] \in Run
    BY <1>5, <1>b, StepFramed, RunTyped
  <2>1. CASE StartFresh(p)
    BY <2>0, <2>1, StartFreshMoves, FirstRunInside DEF StartFresh, Inside
  <2>2. CASE StartResume(p)
    <3>1. run'[p].pc \in {"failing", "snapshot", "stream"}
      BY <2>2, StartResumeMoves
    <3>2. run'[p].case = run[p].case /\ run'[p].decision = run[p].decision
      BY <2>2, StartResumeMoves
    <3> QED
      BY <2>0, <2>2, <3>1, <3>2, FirstRunInside DEF StartResume, Inside
  <2>3. ASSUME NEW node, NEW st, NEW next, Superstep(p, node, st, next), run[p].pc = "stream"
        PROVE  FirstRunInvariant'
    BY <2>0, <2>3, SuperstepMoves, FirstRunInside DEF Inside
  <2>4. CASE RunRetrieveContext(p) \/ RunPlanRemediation(p) \/ RunComplianceCheck(p)
             \/ RunHumanReview(p) \/ RunFinalize(p) \/ RunEscalate(p)
    BY <2>3, <2>4 DEF RunRetrieveContext, RunPlanRemediation, RunComplianceCheck,
                      RunHumanReview, RunFinalize, RunEscalate, At
  <2>5. CASE PauseForReview(p)
    BY <2>0, <2>5, PauseMoves, FirstRunInside DEF PauseForReview, At, Inside
  <2>6. CASE Snapshot(p)
    BY <2>0, <2>6, SnapshotMoves, FirstRunInside DEF Snapshot, Inside
  <2>7. CASE LoadRow(p)
    BY <2>0, <2>7, LoadMoves, FirstRunInside DEF LoadRow, Inside
  <2>8. CASE FailureLoad(p)
    BY <2>0, <2>8, FailureLoadMoves, FirstRunInside DEF FailureLoad, Inside
  <2>9. CASE Commit(p)
    <3>1. p \in Reqs => row'[run[p].case].status \in Decidable
      <4> SUFFICES ASSUME p \in Reqs PROVE row'[run[p].case].status \in Decidable
        OBVIOUS
      <4>1. run[p].seen.status \in Decidable /\ row[run[p].case].status \in Decidable
        BY <2>0, <2>9 DEF FirstRunFits, Commit
      <4>2. Assigned(p).status \in Decidable
        BY <4>1 DEF Assigned, Outcome, Decidable, Closed
      <4>3. row'[run[p].case] = Flushed(row[run[p].case], run[p].seen, Assigned(p))
        BY <2>9, RunTyped DEF Commit, Persist, TypeOK
      <4> QED
        BY <4>1, <4>2, <4>3 DEF Flushed
    <3> QED
      BY <2>0, <2>9, <3>1, FirstRunReturns DEF Commit, Inside
  <2>10. CASE FailureCommit(p)
    <3> DEFINE object == [run[p].seen EXCEPT !.status = "ESCALATED", !.notes = "failed",
                                             !.resolved = TRUE]
    <3>1. p \in Reqs => row'[run[p].case].status \in Decidable
      <4> SUFFICES ASSUME p \in Reqs PROVE row'[run[p].case].status \in Decidable
        OBVIOUS
      <4>1. run[p].seen.status \in Decidable /\ row[run[p].case].status \in Decidable
        BY <2>0, <2>10 DEF FirstRunFits, FailureCommit
      <4>2. object.status \in Decidable
        BY RunTyped DEF Row, Decidable, Closed
      <4>3. row'[run[p].case] = Flushed(row[run[p].case], run[p].seen, object)
        BY <2>10, RunTyped DEF FailureCommit, TypeOK
      <4> QED
        BY <4>1, <4>2, <4>3 DEF Flushed
    <3> QED
      BY <2>0, <2>10, <3>1, FirstRunReturns DEF FailureCommit, Inside
  <2>11. CASE NodeRaises(p)
    BY <2>0, <2>11, GotoMoves, FirstRunInside DEF NodeRaises, At, Inside
  <2>12. CASE DbFails(p)
    <3>1. CASE Goto(p, "failing") /\ run[p].pc \in {"load", "commit", "starting", "stream", "snapshot"}
      BY <2>0, <2>12, <3>1, GotoMoves, FirstRunInside DEF DbFails, Inside
    <3>2. CASE Rest(p, "idle") /\ run[p].pc \in {"viewing", "refresh"}
      <4>1. p \in Reqs
        BY <2>0, <3>2 DEF FirstRunFits, Procs
      <4> QED
        BY <2>0, <2>12, <3>2, <4>1, FirstRunRests DEF DbFails
    <3>3. CASE Raise(p)
      BY <2>0, <2>12, <3>3, FirstRunRests DEF DbFails, Raise
    <3> QED
      BY <2>12, <3>1, <3>2, <3>3 DEF DbFails
  <2>13. ~CommitAckLost(p)
    BY DEF CommitAckLost
  <2> QED
    BY <1>5, <2>1, <2>2, <2>4, <2>5, <2>6, <2>7, <2>8, <2>9, <2>10, <2>11, <2>12, <2>13
       DEF RunStep, Fault
<1>6. ASSUME NEW r \in Reqs, Respond(r) PROVE FirstRunInvariant'
  <2>1. Frame(r)
    BY <1>6, <1>a, RestMoves DEF Respond, Frame
  <2> QED
    BY <1>6, <1>a, <2>1, FirstRunRests DEF Respond
<1>7. ASSUME NEW w \in Workers, Crash(w) PROVE FirstRunInvariant'
  <2> SUFFICES ASSUME NEW p \in Procs PROVE FirstRunFits(p)'
    BY DEF FirstRunInvariant
  <2>1. \/ run'[p] = run[p]
        \/ run'[p] = AtRest(p, IF p \in Cases THEN "dead" ELSE "idle")
    BY <1>7 DEF Crash
  <2>2. \/ run'[p] = run[p]
        \/ /\ run'[p].pc = (IF p \in Cases THEN "dead" ELSE "idle")
           /\ run'[p].case = run[p].case /\ run'[p].decision = "none"
    <3>1. ASSUME NEW pc, run'[p] = AtRest(p, pc)
          PROVE  /\ run'[p].pc = pc /\ run'[p].case = run[p].case
                 /\ run'[p].decision = "none"
      BY <3>1, RunTyped DEF AtRest, Run
    <3> QED
      BY <2>1, <3>1
  <2> QED
    BY <1>7, <1>b, <2>2 DEF Crash, FirstRunFits, Active
<1>8. CASE UNCHANGED vars
  BY <1>8 DEF vars, FirstRunInvariant, FirstRunFits, Active
<1> QED
  BY <1>1, <1>2, <1>3, <1>4, <1>5, <1>6, <1>7, <1>8 DEF Next

\* The runs of a case follow each other as FirstRunInvariant says.
LEMMA FirstRunHolds ==
  ASSUME "ack" \notin Faults
  PROVE  Spec => []FirstRunInvariant
<1>1. TypeOK /\ FirstRunInvariant /\ [Next]_vars => FirstRunInvariant'
  BY FirstRunKept
<1> QED
  BY <1>1, FirstRunStarts, TypeCorrect, PTL DEF Spec

\* Whatever officers do at the same time, the background run of a case overlaps no
\* decision run of it, unless a commit goes unacknowledged.
THEOREM FirstRunAlwaysAlone ==
  ASSUME "ack" \notin Faults
  PROVE  Spec => []FirstRunIsAlone
<1>1. FirstRunInvariant => FirstRunIsAlone
  BY DEF FirstRunInvariant, FirstRunFits, FirstRunIsAlone, Active, Decidable, Closed, Procs
<1> QED
  BY <1>1, FirstRunHolds, PTL

-----------------------------------------------------------------------------
(* How a case is closed *)

\* What a row says of its case: whether it is resolved, what was audited last, which
\* plan was approved, why it was escalated.
RowFits(c) ==
  /\ row[c].resolved <=> row[c].status \in Closed
  /\ audit[c].last = row[c].status
  /\ row[c].status = "APPROVED" => row[c].plan \in signed[c]
  /\ row[c].status = "ESCALATED" => row[c].notes \in {"exhausted", "failed"}

\* Only exhausted revisions are escalated by the graph.
CheckpointFits(w, c) ==
  ckpt[w][c].next = "escalate" => ckpt[w][c].st.notes = "exhausted"

\* The places between the end of the stream and the commit.
Streamed == {"snapshot", "load", "commit"}

\* A decision is made of a case under review, and the row that a run has loaded is the
\* row as it is; the run's state is the one in its checkpoint, until it is saved.
ClosingFits(p) ==
  /\ p \in Reqs /\ run[p].pc \in Inside => row[run[p].case].status = "AWAITING_HUMAN_REVIEW"
  /\ run[p].pc \in {"commit", "failcommit"} => run[p].seen = row[run[p].case]
  /\ run[p].pc \in {"stream"} \union Streamed =>
       ckpt[run[p].worker][run[p].case] = [st |-> run[p].st, next |-> run[p].next]
  /\ run[p].pc \in {"idle", "viewing", "queued", "starting"} =>
       run[p].last = "none" /\ run[p].paused = FALSE
  /\ run[p].pc = "stream" =>
       run[p].paused = FALSE /\ run[p].last \notin {"finalize", "escalate"}
  /\ run[p].pc \in Streamed =>
       /\ run[p].last = "finalize" => run[p].st.plan \in signed[run[p].case]
       /\ run[p].last = "escalate" => run[p].st.notes = "exhausted"

\* A row is closed by the one run that works on its case, and that run has the row and
\* the checkpoint as they are.
ClosingInvariant ==
  /\ \A c \in Cases : RowFits(c)
  /\ \A w \in Workers, c \in Cases : CheckpointFits(w, c)
  /\ \A p \in Procs : ClosingFits(p)

\* No two processes are at work on the same case.
LEMMA Alone ==
  ASSUME TypeOK, FirstRunInvariant, DecisionsApart,
         NEW p \in Procs, NEW q \in Procs, p # q, Active(p), Active(q)
  PROVE  run[p].case # run[q].case
<1>1. FirstRunFits(p) /\ FirstRunFits(q)
  BY DEF FirstRunInvariant
<1>2. CASE p \in Reqs /\ q \in Reqs
  BY <1>2 DEF DecisionsApart
<1>3. CASE p \in Cases /\ q \in Cases
  BY <1>1, <1>3 DEF FirstRunFits
<1>4. CASE p \in Cases /\ q \in Reqs
  BY <1>1, <1>4 DEF FirstRunFits, Active, Decidable, Closed
<1>5. CASE p \in Reqs /\ q \in Cases
  BY <1>1, <1>5 DEF FirstRunFits, Active, Decidable, Closed
<1> QED
  BY <1>2, <1>3, <1>4, <1>5 DEF Procs

\* It is enough that a step keeps its own process, and its case, fitting.
LEMMA ClosingFramed ==
  ASSUME TypeOK, FirstRunInvariant, DecisionsApart, ClosingInvariant,
         NEW p \in Procs, NEW c \in Cases, c = run[p].case, Frame(p),
         \/ Active(p)
         \/ row[c].status = "ABSENT" /\ c = p
         \/ UNCHANGED <<row, ckpt, signed>>,
         ClosingFits(p)', RowFits(c)', \A w \in Workers : CheckpointFits(w, c)'
  PROVE  ClosingInvariant'
<1>1. ASSUME NEW d \in Cases PROVE RowFits(d)'
  <2>1. CASE d = c
    BY <2>1
  <2>2. CASE d # c
    BY <2>2 DEF ClosingInvariant, RowFits, Frame
  <2> QED
    BY <2>1, <2>2
<1>2. ASSUME NEW w \in Workers, NEW d \in Cases PROVE CheckpointFits(w, d)'
  <2>1. CASE d = c
    BY <2>1
  <2>2. CASE d # c
    BY <2>2 DEF ClosingInvariant, CheckpointFits, Frame
  <2> QED
    BY <2>1, <2>2
<1>3. ASSUME NEW q \in Procs, q # p PROVE ClosingFits(q)'
  <2>1. /\ run'[q] = run[q] /\ ClosingFits(q) /\ FirstRunFits(q)
        /\ run[q].case \in Cases /\ run[q].worker \in Workers
    BY <1>3, RunTyped DEF Frame, ClosingInvariant, FirstRunInvariant
  <2>2. CASE run[q].case # c
    <3>1. /\ row'[run[q].case] = row[run[q].case] /\ signed'[run[q].case] = signed[run[q].case]
          /\ ckpt'[run[q].worker][run[q].case] = ckpt[run[q].worker][run[q].case]
      BY <2>1, <2>2 DEF Frame
    <3> QED
      BY <2>1, <3>1 DEF ClosingFits
  <2>3. CASE run[q].case = c /\ ~Active(q)
    BY <2>1, <2>3 DEF ClosingFits, Active, Inside, Streamed
  <2>4. CASE run[q].case = c /\ Active(q)
    <3>1. ~Active(p)
      BY <1>3, <2>4, Alone
    <3>2. ~(row[c].status = "ABSENT" /\ c = p)
      BY <1>3, <2>1, <2>4 DEF FirstRunFits, Active, Decidable, Closed, Procs
    <3>3. UNCHANGED <<row, ckpt, signed>>
      BY <3>1, <3>2
    <3> QED
      BY <2>1, <3>3 DEF ClosingFits
  <2> QED
    BY <2>2, <2>3, <2>4
<1>4. ASSUME NEW q \in Procs PROVE ClosingFits(q)'
  BY <1>3
<1> QED
  BY <1>1, <1>2, <1>4 DEF ClosingInvariant

\* A step that writes neither a row nor a checkpoint.
LEMMA ClosingLocal ==
  ASSUME TypeOK, FirstRunInvariant, DecisionsApart, ClosingInvariant,
         NEW p \in Procs, Frame(p), UNCHANGED <<row, audit, ckpt, signed>>, ClosingFits(p)'
  PROVE  ClosingInvariant'
<1>1. PICK c \in Cases : c = run[p].case
  BY RunTyped
<1>2. RowFits(c)'
  BY DEF ClosingInvariant, RowFits
<1>3. \A w \in Workers : CheckpointFits(w, c)'
  BY DEF ClosingInvariant, CheckpointFits
<1> QED
  BY <1>1, <1>2, <1>3, ClosingFramed

\* A superstep.
LEMMA ClosingSuperstep ==
  ASSUME TypeOK, FirstRunInvariant, DecisionsApart, ClosingInvariant,
         NEW p \in Procs, Frame(p), run[p].pc = "stream",
         NEW node, NEW st, NEW next, Superstep(p, node, st, next),
         signed[run[p].case] \subseteq signed'[run[p].case],
         next = "escalate" => st.notes = "exhausted",
         next = "END" <=> node \in {"finalize", "escalate"},
         node = "finalize" => st.plan \in signed[run[p].case],
         node = "escalate" => st.notes = "exhausted"
  PROVE  ClosingInvariant'
<1>1. PICK c \in Cases : c = run[p].case
  BY RunTyped
<1>2. run[p].worker \in Workers /\ Active(p)
  BY RunTyped DEF Active
<1>3. /\ next = "END" => run'[p].pc = "snapshot"
      /\ next # "END" => run'[p].pc = "stream"
      /\ run'[p].case = run[p].case /\ run'[p].worker = run[p].worker
      /\ run'[p].st = st /\ run'[p].next = next /\ run'[p].last = node
      /\ run'[p].paused = run[p].paused /\ row' = row /\ audit' = audit
  <2>1. next = "END" => run'[p].pc = "snapshot"
    BY SuperstepMoves
  <2>2. next # "END" => run'[p].pc = "stream"
    BY SuperstepMoves
  <2>3. run'[p].case = run[p].case /\ run'[p].worker = run[p].worker
    BY SuperstepMoves
  <2>4. run'[p].st = st
    BY SuperstepMoves, Zenon
  <2>8. run'[p].next = next
    BY SuperstepMoves
  <2>5. run'[p].last = node
    BY SuperstepMoves
  <2>6. run'[p].paused = run[p].paused
    BY SuperstepMoves
  <2>7. row' = row /\ audit' = audit
    BY SuperstepMoves
  <2> QED
    BY <2>1, <2>2, <2>3, <2>4, <2>5, <2>6, <2>7, <2>8
<1>4. /\ \A w \in Workers : \/ ckpt'[w][c] = ckpt[w][c]
                            \/ ckpt'[w][c] = [st |-> st, next |-> next]
      /\ ckpt'[run[p].worker][c] = [st |-> st, next |-> next]
  <2>1. /\ \A w \in Workers, d \in Cases :
             \/ ckpt'[w][d] = ckpt[w][d] /\ (d # run[p].case \/ w # run[p].worker)
             \/ ckpt'[w][d] = [st |-> st, next |-> next] /\ d = run[p].case
        /\ \A w \in Workers : SharedCheckpointer \/ w = run[p].worker =>
             ckpt'[w][run[p].case] = [st |-> st, next |-> next]
    BY SuperstepMoves
  <2> QED
    BY <1>1, <1>2, <2>1
<1>5. RowFits(c)'
  BY <1>1, <1>3 DEF ClosingInvariant, RowFits
<1>6. ASSUME NEW w \in Workers PROVE CheckpointFits(w, c)'
  BY <1>4 DEF ClosingInvariant, CheckpointFits
<1>7. ClosingFits(p)'
  <2>1. ClosingFits(p) /\ signed[c] \subseteq signed'[c]
    BY <1>1 DEF ClosingInvariant
  <2>2. CASE next = "END"
    BY <1>1, <1>3, <1>4, <2>1, <2>2 DEF ClosingFits, Inside, Streamed
  <2>3. CASE next # "END"
    BY <1>1, <1>3, <1>4, <2>1, <2>3 DEF ClosingFits, Inside, Streamed
  <2> QED
    BY <2>2, <2>3
<1> QED
  BY <1>1, <1>2, <1>5, <1>6, <1>7, ClosingFramed

\* A transaction that writes the object the run has, over the row the run has loaded.
LEMMA ClosingWrites ==
  ASSUME TypeOK, FirstRunInvariant, DecisionsApart, ClosingInvariant,
         NEW p \in Procs, NEW c \in Cases, c = run[p].case, Frame(p),
         run[p].pc \in {"commit", "failcommit"},
         UNCHANGED <<ckpt, signed>>, Return(p),
         NEW object \in Row, row'[c] = Flushed(row[c], run[p].seen, object),
         audit'[c].last = object.status,
         object.resolved <=> object.status \in Closed,
         object.status = "APPROVED" => object.plan \in signed[c],
         object.status = "ESCALATED" => object.notes \in {"exhausted", "failed"}
  PROVE  ClosingInvariant' /\ row'[c] = object
<1>1. Active(p) /\ row[c] \in Row
  BY DEF Active, TypeOK
<1>2. run[p].seen = row[c]
  BY DEF ClosingInvariant, ClosingFits
<1>3. row'[c] = object
  BY <1>1, <1>2 DEF Flushed, Row
<1>4. RowFits(c)'
  BY <1>3 DEF RowFits
<1>5. \A w \in Workers : CheckpointFits(w, c)'
  BY DEF ClosingInvariant, CheckpointFits
<1>6. ClosingFits(p)'
  <2>1. run'[p].pc = "done" \/ run'[p].pc = "refresh"
    BY ReturnMoves
  <2> QED
    BY <2>1 DEF ClosingFits, Inside, Streamed
<1> QED
  BY <1>1, <1>3, <1>4, <1>5, <1>6, ClosingFramed

\* A process that comes to rest, or goes to the except branch, having written nothing.
LEMMA ClosingLeaves ==
  ASSUME TypeOK, FirstRunInvariant, DecisionsApart, ClosingInvariant,
         NEW p \in Procs, UNCHANGED <<row, audit, ckpt, signed, executed>>,
         \/ \E pc \in {"idle", "done", "dead"} : Rest(p, pc)
         \/ Goto(p, "failing") /\ run[p].pc \in Inside
  PROVE  ClosingInvariant'
<1>1. \A q \in Procs \ {p} : run'[q] = run[q]
  BY GotoMoves, RestMoves
<1>2. Frame(p)
  BY <1>1 DEF Frame
<1>3. ClosingFits(p)
  BY DEF ClosingInvariant
<1>4. CASE \E pc \in {"idle", "done", "dead"} : Rest(p, pc)
  <2>1. /\ run'[p].pc \in {"idle", "done", "dead"}
        /\ run'[p].last = "none" /\ run'[p].paused = FALSE
    BY <1>4, RestMoves
  <2>2. ClosingFits(p)'
    BY <2>1 DEF ClosingFits, Inside, Streamed
  <2> QED
    BY <1>2, <2>2, ClosingLocal
<1>5. CASE Goto(p, "failing") /\ run[p].pc \in Inside
  <2>1. run'[p].pc = "failing" /\ run'[p].case = run[p].case
    BY <1>5, GotoMoves
  <2>2. ClosingFits(p)'
    BY <1>3, <1>5, <2>1 DEF ClosingFits, Inside, Streamed
  <2> QED
    BY <1>2, <2>2, ClosingLocal
<1> QED
  BY <1>4, <1>5

\* The invariant holds of the empty tables.
LEMMA ClosingStarts == Init => ClosingInvariant
<1> SUFFICES ASSUME Init PROVE ClosingInvariant
  OBVIOUS
<1>1. \A c \in Cases : RowFits(c)
  BY DEF Init, RowFits, NoRow, Closed
<1>2. \A w \in Workers, c \in Cases : CheckpointFits(w, c)
  BY DEF Init, CheckpointFits, NoCheckpoint
<1>3. \A p \in Procs : ClosingFits(p)
  BY DEF Init, ClosingFits, Inside, Streamed
<1> QED
  BY <1>1, <1>2, <1>3 DEF ClosingInvariant

\* compliance_check escalates exhausted revisions only, and never ends the graph.
LEMMA CheckEscalates ==
  ASSUME NEW st \in AgentState
  PROVE  LET checked == ComplianceCheck(st)
         IN /\ RouteCompliance(checked) = "escalate" => checked.notes = "exhausted"
            /\ RouteCompliance(checked) # "END"
<1>1. st.rev >= MaxRevisions \/ st.rev < MaxRevisions
  BY DEF AgentState
<1>2. CASE st.plan \in CompliantPlans
  BY <1>2 DEF ComplianceCheck, RouteCompliance, AgentState
<1>3. CASE st.plan \notin CompliantPlans
  BY <1>1, <1>3 DEF ComplianceCheck, RouteCompliance, AgentState
<1> QED
  BY <1>2, <1>3

\* The supersteps of the graph.
LEMMA ClosingNodes ==
  ASSUME TypeOK, SignOffInvariant, FirstRunInvariant, DecisionsApart, ClosingInvariant,
         NEW p \in Procs, Frame(p),
         \/ RunRetrieveContext(p) \/ RunPlanRemediation(p) \/ RunComplianceCheck(p)
         \/ RunHumanReview(p) \/ RunFinalize(p) \/ RunEscalate(p)
  PROVE  ClosingInvariant'
<1>a. run[p].case \in Cases /\ run[p].worker \in Workers /\ run[p].st \in AgentState
  BY RunTyped
<1>b. run[p].pc = "stream"
  BY DEF RunRetrieveContext, RunPlanRemediation, RunComplianceCheck, RunHumanReview,
         RunFinalize, RunEscalate, At
<1>1. CASE RunRetrieveContext(p)
  BY <1>1, <1>b, ClosingSuperstep DEF RunRetrieveContext
<1>2. CASE RunPlanRemediation(p)
  BY <1>2, <1>b, ClosingSuperstep DEF RunPlanRemediation
<1>3. CASE RunComplianceCheck(p)
  <2> DEFINE st == ComplianceCheck(run[p].st)
  <2>1. /\ RouteCompliance(st) = "escalate" => st.notes = "exhausted"
        /\ RouteCompliance(st) # "END"
    BY <1>a, CheckEscalates
  <2>2. Superstep(p, "compliance_check", st, RouteCompliance(st)) /\ signed' = signed
    BY <1>3 DEF RunComplianceCheck
  <2> HIDE DEF st
  <2> QED
    BY <1>b, <2>1, <2>2, ClosingSuperstep
<1>4. CASE RunHumanReview(p)
  <2> DEFINE st == HumanReview(run[p].st, run[p].decision)
  <2>1. RouteHumanDecision(st) \in {"finalize", "plan_remediation"}
    BY DEF RouteHumanDecision
  <2>2. Superstep(p, "human_review", st, RouteHumanDecision(st))
    BY <1>4 DEF RunHumanReview
  <2>3. signed[run[p].case] \subseteq signed'[run[p].case]
    BY <1>4, <1>a DEF RunHumanReview, TypeOK
  <2> HIDE DEF st
  <2> QED
    BY <1>b, <2>1, <2>2, <2>3, ClosingSuperstep
<1>5. CASE RunFinalize(p)
  <2>1. run[p].st.plan \in signed[run[p].case]
    BY <1>5 DEF RunFinalize, At, SignOffInvariant, RunIsSound, NextIsSound
  <2>2. Superstep(p, "finalize", run[p].st, "END") /\ signed' = signed
    BY <1>5 DEF RunFinalize
  <2> QED
    BY <1>b, <2>1, <2>2, ClosingSuperstep
<1>6. CASE RunEscalate(p)
  <2>1. ckpt[run[p].worker][run[p].case] = [st |-> run[p].st, next |-> "escalate"]
    BY <1>6 DEF RunEscalate, At, ClosingInvariant, ClosingFits
  <2>2. run[p].st.notes = "exhausted"
    BY <1>a, <2>1 DEF ClosingInvariant, CheckpointFits
  <2>3. Superstep(p, "escalate", run[p].st, "END") /\ signed' = signed
    BY <1>6 DEF RunEscalate
  <2> QED
    BY <1>b, <2>2, <2>3, ClosingSuperstep
<1> QED
  BY <1>1, <1>2, <1>3, <1>4, <1>5, <1>6

\* A case with a run at work on it is open.
LEMMA OpenAtWork ==
  ASSUME TypeOK, FirstRunInvariant, ClosingInvariant, NEW p \in Procs, run[p].pc \in Inside
  PROVE  row[run[p].case].status \in {"PENDING_CONTEXT", "AWAITING_HUMAN_REVIEW"}
<1>1. FirstRunFits(p) /\ ClosingFits(p) /\ Active(p)
  BY DEF FirstRunInvariant, ClosingInvariant, Active, Inside
<1> QED
  BY <1>1 DEF FirstRunFits, ClosingFits, Procs

\* The transactions that end a run.
LEMMA ClosingCommits ==
  ASSUME TypeOK, FirstRunInvariant, DecisionsApart, ClosingInvariant,
         NEW p \in Procs, Frame(p), Commit(p) \/ FailureCommit(p)
  PROVE  ClosingInvariant'
<1>1. PICK c \in Cases : c = run[p].case
  BY RunTyped
<1>2. /\ run[p].pc \in {"commit", "failcommit"}
      /\ UNCHANGED <<ckpt, signed>> /\ Return(p)
  BY DEF Commit, FailureCommit
<1>3. ClosingFits(p) /\ RowFits(c) /\ run[p].seen = row[c] /\ run[p].seen \in Row
  BY <1>1, <1>2, RunTyped DEF ClosingInvariant, ClosingFits
<1>4. row[c].status \notin Closed
  BY <1>1, <1>2, OpenAtWork DEF Inside, Closed
<1>5. ~run[p].seen.resolved
  BY <1>3, <1>4 DEF RowFits
<1>6. CASE Commit(p)
  <2>1. Assigned(p) \in Row
    BY AssignedTyped
  <2>2. row'[c] = Flushed(row[c], run[p].seen, Assigned(p)) /\ audit'[c].last = Assigned(p).status
    BY <1>1, <1>6 DEF Commit, Persist, TypeOK, Audit
  <2>3. Assigned(p).resolved <=> Assigned(p).status \in Closed
    BY <1>3, <1>4, <1>5 DEF Assigned, Outcome, Resolved, Closed
  <2>4. run[p].pc \in Streamed
    BY <1>6 DEF Commit, Streamed
  <2>5. Assigned(p).status = "APPROVED" => Assigned(p).plan \in signed[c]
    BY <1>1, <1>3, <1>4, <2>4 DEF Assigned, Outcome, Closed, ClosingFits
  <2>6. Assigned(p).status = "ESCALATED" => Assigned(p).notes \in {"exhausted", "failed"}
    BY <1>1, <1>3, <1>4, <2>4 DEF Assigned, Outcome, Closed, ClosingFits
  <2> QED
    BY <1>1, <1>2, <2>1, <2>2, <2>3, <2>5, <2>6, ClosingWrites
<1>7. CASE FailureCommit(p)
  <2> DEFINE object == [run[p].seen EXCEPT !.status = "ESCALATED", !.notes = "failed",
                                           !.resolved = TRUE]
  <2>1. object \in Row /\ object.status = "ESCALATED" /\ object.notes = "failed" /\ object.resolved
    BY <1>3 DEF Row, Statuses, Notes
  <2>2. row'[c] = Flushed(row[c], run[p].seen, object) /\ audit'[c].last = "ESCALATED"
    BY <1>1, <1>7 DEF FailureCommit, TypeOK, Audit
  <2> HIDE DEF object
  <2>3. "ESCALATED" \in Closed /\ "ESCALATED" # "APPROVED"
    BY DEF Closed
  <2> QED
    BY <1>1, <1>2, <2>1, <2>2, <2>3, ClosingWrites
<1> QED
  BY <1>6, <1>7

\* The steps of a run between its nodes and its transaction.
LEMMA ClosingMoves ==
  ASSUME TypeOK, FirstRunInvariant, DecisionsApart, ClosingInvariant,
         NEW p \in Procs, Frame(p),
         \/ StartFresh(p) \/ StartResume(p) \/ PauseForReview(p) \/ Snapshot(p)
         \/ LoadRow(p) \/ FailureLoad(p)
  PROVE  ClosingInvariant'
<1>1. PICK c \in Cases : c = run[p].case
  BY RunTyped
<1>2. ClosingFits(p) /\ run[p].worker \in Workers
  BY RunTyped DEF ClosingInvariant
<1>3. CASE StartFresh(p)
  <2>1. /\ run'[p].pc = "stream" /\ run'[p].st = InitialState
        /\ run'[p].next = "retrieve_context" /\ run'[p].case = c
        /\ run'[p].worker = run[p].worker /\ run'[p].last = run[p].last
        /\ run'[p].paused = run[p].paused
    BY <1>1, <1>3, StartFreshMoves
  <2>2. /\ \A w \in Workers :
             \/ ckpt'[w][c] = ckpt[w][c]
             \/ ckpt'[w][c] = [st |-> InitialState, next |-> "retrieve_context"]
        /\ ckpt'[run[p].worker][c] = [st |-> InitialState, next |-> "retrieve_context"]
    BY <1>1, <1>2, <1>3, StartFreshMoves
  <2>3. UNCHANGED <<row, audit, signed>> /\ run[p].pc = "starting" /\ Active(p)
    BY <1>3 DEF StartFresh, Active
  <2>4. RowFits(c)'
    BY <2>3 DEF ClosingInvariant, RowFits
  <2>5. ASSUME NEW w \in Workers PROVE CheckpointFits(w, c)'
    BY <2>2 DEF ClosingInvariant, CheckpointFits
  <2>6. ClosingFits(p)'
    BY <1>1, <1>2, <2>1, <2>2, <2>3 DEF ClosingFits, Inside, Streamed
  <2> QED
    BY <1>1, <2>3, <2>4, <2>5, <2>6, ClosingFramed
<1>4. CASE StartResume(p)
  <2>1. /\ run'[p].pc \in {"failing", "snapshot", "stream"}
        /\ run'[p].st = ckpt[run[p].worker][c].st
        /\ run'[p].next = ckpt[run[p].worker][c].next /\ run'[p].case = c
        /\ run'[p].worker = run[p].worker /\ run'[p].last = run[p].last
        /\ run'[p].paused = run[p].paused
    BY <1>1, <1>4, StartResumeMoves
  <2>2. ckpt[run[p].worker][c] \in Checkpoint
    BY <1>2 DEF TypeOK
  <2>3. UNCHANGED <<row, audit, ckpt, signed>> /\ run[p].pc = "starting"
    BY <1>4 DEF StartResume
  <2>4. ckpt[run[p].worker][c] = [st |-> run'[p].st, next |-> run'[p].next]
    BY <2>1, <2>2 DEF Checkpoint
  <2>5. ClosingFits(p)'
    BY <1>1, <1>2, <2>1, <2>3, <2>4 DEF ClosingFits, Inside, Streamed
  <2> QED
    BY <2>3, <2>5, ClosingLocal
<1>5. CASE PauseForReview(p)
  <2>1. UNCHANGED <<row, audit, ckpt, signed>> /\ run[p].pc = "stream"
    BY <1>5 DEF PauseForReview, At
  <2>2. ClosingFits(p)'
    BY <1>2, <1>5, <2>1, PauseMoves DEF ClosingFits, Inside, Streamed
  <2> QED
    BY <2>1, <2>2, ClosingLocal
<1>6. CASE Snapshot(p)
  <2>1. UNCHANGED <<row, audit, ckpt, signed>> /\ run[p].pc = "snapshot"
    BY <1>6 DEF Snapshot
  <2>2. ckpt[run[p].worker][run[p].case] = [st |-> run[p].st, next |-> run[p].next]
    BY <1>2, <2>1 DEF ClosingFits, Streamed
  <2>3. /\ run'[p].pc = "load" /\ run'[p].st = run[p].st /\ run'[p].next = run[p].next
        /\ run'[p].case = run[p].case /\ run'[p].worker = run[p].worker
        /\ run'[p].last = run[p].last /\ run'[p].paused = run[p].paused
    BY <1>6, <2>2, SnapshotMoves
  <2>4. ClosingFits(p)'
    BY <1>2, <2>1, <2>3 DEF ClosingFits, Inside, Streamed
  <2> QED
    BY <2>1, <2>4, ClosingLocal
<1>7. CASE LoadRow(p)
  <2>1. UNCHANGED <<row, audit, ckpt, signed>> /\ run[p].pc = "load"
    BY <1>7 DEF LoadRow
  <2>2. ClosingFits(p)'
    BY <1>2, <1>7, <2>1, LoadMoves DEF ClosingFits, Inside, Streamed
  <2> QED
    BY <2>1, <2>2, ClosingLocal
<1>8. CASE FailureLoad(p)
  <2>1. UNCHANGED <<row, audit, ckpt, signed>> /\ run[p].pc = "failing"
    BY <1>8 DEF FailureLoad
  <2>2. ClosingFits(p)'
    BY <1>2, <1>8, <2>1, FailureLoadMoves DEF ClosingFits, Inside, Streamed
  <2> QED
    BY <2>1, <2>2, ClosingLocal
<1> QED
  BY <1>3, <1>4, <1>5, <1>6, <1>7, <1>8

\* A worker that dies takes its runs and its own store with it.
LEMMA ClosingCrash ==
  ASSUME TypeOK, ClosingInvariant, NEW w \in Workers, Crash(w)
  PROVE  ClosingInvariant'
<1>1. UNCHANGED <<row, audit, signed>>
  BY DEF Crash
<1>2. \A c \in Cases : RowFits(c)'
  BY <1>1 DEF ClosingInvariant, RowFits
<1>3. ASSUME NEW v \in Workers, NEW c \in Cases
      PROVE  ckpt'[v][c] = ckpt[v][c] \/ (v = w /\ ckpt'[v][c] = NoCheckpoint)
  BY DEF Crash, TypeOK
<1>4. ASSUME NEW v \in Workers, NEW c \in Cases PROVE CheckpointFits(v, c)'
  BY <1>3 DEF ClosingInvariant, CheckpointFits, NoCheckpoint
<1>5. ASSUME NEW p \in Procs PROVE ClosingFits(p)'
  <2>1. ClosingFits(p) /\ run[p].worker \in Workers /\ run[p].case \in Cases
    BY RunTyped DEF ClosingInvariant
  <2>2. CASE run'[p] = run[p] /\ (~Active(p) \/ run[p].worker # w)
    <3>1. Active(p) => ckpt'[run[p].worker][run[p].case] = ckpt[run[p].worker][run[p].case]
      BY <1>3, <2>1, <2>2
    <3> QED
      BY <1>1, <2>1, <2>2, <3>1 DEF ClosingFits, Active, Streamed, Inside
  <2>3. CASE run'[p] = AtRest(p, IF p \in Cases THEN "dead" ELSE "idle")
    <3>1. PICK pc \in {"dead", "idle"} : run'[p] = AtRest(p, pc)
      BY <2>3
    <3>2. run'[p].pc \in {"dead", "idle"} /\ run'[p].last = "none" /\ run'[p].paused = FALSE
      BY <3>1, RunTyped DEF AtRest, Run
    <3> QED
      BY <3>2 DEF ClosingFits, Inside, Streamed
  <2> QED
    BY <2>2, <2>3 DEF Crash
<1> QED
  BY <1>2, <1>4, <1>5 DEF ClosingInvariant

\* Every step keeps the invariant, if commits are acknowledged and no case is decided
\* twice at the same time.
LEMMA ClosingKept ==
  ASSUME "ack" \notin Faults, TypeOK, SignOffInvariant, FirstRunInvariant, ClosingInvariant,
         DecisionsApart, [Next]_vars
  PROVE  ClosingInvariant'
<1>a. Cases \subseteq Procs /\ Reqs \subseteq Procs
  BY DEF Procs
<1>1. ASSUME NEW c \in Cases, NEW w \in Workers, OpenCase(c, w) PROVE ClosingInvariant'
  <2>1. run[c].case = c /\ run[c] \in Run /\ run \in [Procs -> Run]
    BY <1>a, RunTyped DEF FirstRunInvariant, FirstRunFits
  <2>2. row \in [Cases -> Row] /\ row[c] \in Row /\ row[c].status = "ABSENT" /\ RowFits(c)
    BY <1>1 DEF OpenCase, ClosingInvariant, TypeOK
  <2>3. Frame(c)
    BY <1>1, <2>1 DEF OpenCase, Frame, TypeOK
  <2>4. /\ run'[c].pc = "queued" /\ run'[c].last = "none" /\ run'[c].paused = FALSE
    BY <1>1, <1>a, <2>1 DEF OpenCase, AtRest, Run
  <2>5. /\ row'[c].status = "PENDING_CONTEXT" /\ row'[c].resolved = row[c].resolved
        /\ audit'[c].last = "PENDING_CONTEXT"
    BY <1>1, <2>2 DEF OpenCase, TypeOK, Audit, Row
  <2>6. RowFits(c)'
    BY <2>2, <2>5 DEF RowFits, Closed
  <2>7. \A v \in Workers : CheckpointFits(v, c)'
    BY <1>1 DEF OpenCase, ClosingInvariant, CheckpointFits
  <2>8. ClosingFits(c)'
    BY <2>4 DEF ClosingFits, Inside, Streamed
  <2> QED
    BY <1>a, <2>1, <2>2, <2>3, <2>6, <2>7, <2>8, ClosingFramed
<1>2. ASSUME NEW c \in Cases, BuildInitialState(c) PROVE ClosingInvariant'
  <2>1. /\ \A q \in Procs \ {c} : run'[q] = run[q]
        /\ run'[c].pc = "starting" /\ run'[c].last = run[c].last
        /\ run'[c].paused = run[c].paused
    BY <1>2, <1>a, GotoMoves DEF BuildInitialState
  <2>2. /\ UNCHANGED <<row, audit, ckpt, signed, executed>> /\ run[c].pc = "queued"
        /\ ClosingFits(c) /\ c \notin Reqs
    BY <1>2, <1>a DEF BuildInitialState, ClosingInvariant
  <2>3. Frame(c)
    BY <2>1, <2>2 DEF Frame
  <2>4. ClosingFits(c)'
    BY <2>1, <2>2 DEF ClosingFits, Streamed
  <2> QED
    BY <1>a, <2>2, <2>3, <2>4, ClosingLocal
<1>3. ASSUME NEW r \in Reqs, NEW c \in Cases, GetCase(r, c) PROVE ClosingInvariant'
  <2>1. /\ \A q \in Procs \ {r} : run'[q] = run[q]
        /\ run'[r].pc = "viewing" /\ run'[r].last = run[r].last
        /\ run'[r].paused = run[r].paused
    BY <1>3, <1>a, RunTyped DEF GetCase, Run
  <2>2. /\ UNCHANGED <<row, audit, ckpt, signed, executed>> /\ run[r].pc = "idle"
        /\ ClosingFits(r)
    BY <1>3, <1>a DEF GetCase, ClosingInvariant
  <2>3. Frame(r)
    BY <2>1, <2>2 DEF Frame
  <2>4. ClosingFits(r)'
    BY <2>1, <2>2 DEF ClosingFits, Inside, Streamed
  <2> QED
    BY <1>a, <2>2, <2>3, <2>4, ClosingLocal
<1>4. ASSUME NEW r \in Reqs, NEW d \in {"approve", "reject"}, NEW w \in Workers,
             Decide(r, d, w)
      PROVE  ClosingInvariant'
  <2>1. UNCHANGED <<row, audit, ckpt, signed, executed>> /\ run[r].pc = "viewing" /\ ClosingFits(r)
    BY <1>4, <1>a DEF Decide, ClosingInvariant
  <2>2. CASE row[run[r].case].status = "AWAITING_HUMAN_REVIEW"
    <3>1. /\ \A q \in Procs \ {r} : run'[q] = run[q]
          /\ run'[r].pc = "starting" /\ run'[r].case = run[r].case
          /\ run'[r].last = run[r].last /\ run'[r].paused = run[r].paused
      BY <1>4, <1>a, <2>2, RunTyped DEF Decide, Run
    <3>2. Frame(r)
      BY <2>1, <3>1 DEF Frame
    <3>3. ClosingFits(r)'
      BY <2>1, <2>2, <3>1 DEF ClosingFits, Streamed
    <3> QED
      BY <1>a, <2>1, <3>2, <3>3, ClosingLocal
  <2>3. CASE row[run[r].case].status # "AWAITING_HUMAN_REVIEW"
    <3>1. Rest(r, "idle")
      BY <1>4, <2>3 DEF Decide
    <3> QED
      BY <1>a, <2>1, <3>1, ClosingLeaves
  <2> QED
    BY <2>2, <2>3
<1>5. ASSUME NEW p \in Procs, RunStep(p) PROVE ClosingInvariant'
  <2>1. Frame(p)
    BY <1>5, StepFramed
  <2>2. CASE StartFresh(p) \/ StartResume(p) \/ PauseForReview(p) \/ Snapshot(p)
               \/ LoadRow(p) \/ FailureLoad(p)
    BY <2>1, <2>2, ClosingMoves
  <2>3. CASE RunRetrieveContext(p) \/ RunPlanRemediation(p) \/ RunComplianceCheck(p)
               \/ RunHumanReview(p) \/ RunFinalize(p) \/ RunEscalate(p)
    BY <2>1, <2>3, ClosingNodes
  <2>4. CASE Commit(p) \/ FailureCommit(p)
    BY <2>1, <2>4, ClosingCommits
  <2> QED
    BY <1>5, <2>2, <2>3, <2>4 DEF RunStep
<1>6. ASSUME NEW r \in Reqs, Respond(r) PROVE ClosingInvariant'
  BY <1>6, <1>a, ClosingLeaves DEF Respond
<1>7. ASSUME NEW p \in Procs, Fault(p) PROVE ClosingInvariant'
  <2>1. CASE NodeRaises(p)
    BY <2>1, ClosingLeaves DEF NodeRaises, At, Inside
  <2>2. CASE DbFails(p)
    <3>1. UNCHANGED <<row, audit, ckpt, signed, executed>>
      BY <2>2 DEF DbFails
    <3>2. \/ \E pc \in {"idle", "done", "dead"} : Rest(p, pc)
          \/ Goto(p, "failing") /\ run[p].pc \in Inside
      BY <2>2 DEF DbFails, Raise, Inside
    <3> QED
      BY <3>1, <3>2, ClosingLeaves
  <2> QED
    BY <1>7, <2>1, <2>2 DEF Fault, CommitAckLost
<1>8. ASSUME NEW w \in Workers, Crash(w) PROVE ClosingInvariant'
  BY <1>8, ClosingCrash
<1>9. CASE UNCHANGED vars
  BY <1>9 DEF vars, ClosingInvariant, RowFits, CheckpointFits, ClosingFits
<1> QED
  BY <1>1, <1>2, <1>3, <1>4, <1>5, <1>6, <1>7, <1>8, <1>9 DEF Next

-----------------------------------------------------------------------------
(* What the invariant says of the cases *)

\* The runs that close a case have its row as it is, as ClosingInvariant says.
LEMMA ClosingHolds ==
  ASSUME "ack" \notin Faults
  PROVE  Spec /\ []DecisionsApart => []ClosingInvariant
<1>1. TypeOK /\ SignOffInvariant /\ FirstRunInvariant /\ ClosingInvariant /\ DecisionsApart
        /\ [Next]_vars => ClosingInvariant'
  BY ClosingKept
<1> QED
  BY <1>1, ClosingStarts, TypeCorrect, SignOffHolds, FirstRunHolds, PTL DEF Spec

\* resolved_at is set exactly when the case is closed, whatever fails between the two
\* assignments and their commit, if the decisions of a case do not overlap.
THEOREM ResolvedExactlyWhenClosed ==
  ASSUME "ack" \notin Faults
  PROVE  Spec /\ []DecisionsApart => []ResolvedIffClosed
<1>1. ClosingInvariant => ResolvedIffClosed
  BY DEF ClosingInvariant, RowFits, ResolvedIffClosed
<1> QED
  BY <1>1, ClosingHolds, PTL

\* The audit trail of a case ends with the status the case has, if the decisions of a
\* case do not overlap.
THEOREM AuditAlwaysMatches ==
  ASSUME "ack" \notin Faults
  PROVE  Spec /\ []DecisionsApart => []AuditMatchesStatus
<1>1. ClosingInvariant => AuditMatchesStatus
  BY DEF ClosingInvariant, RowFits, AuditMatchesStatus
<1> QED
  BY <1>1, ClosingHolds, PTL

\* An APPROVED row holds a plan that an officer's approval was consumed for, also when
\* the approval resumes a checkpoint that another worker left behind, if the decisions
\* of a case do not overlap.
THEOREM ApprovedPlanWasSigned ==
  ASSUME "ack" \notin Faults
  PROVE  Spec /\ []DecisionsApart => []ApprovedPlanSignedOff
<1>1. ClosingInvariant => ApprovedPlanSignedOff
  BY DEF ClosingInvariant, RowFits, ApprovedPlanSignedOff
<1> QED
  BY <1>1, ClosingHolds, PTL

\* An ESCALATED row says why, if the decisions of a case do not overlap.
THEOREM EscalationAlwaysHasReason ==
  ASSUME "ack" \notin Faults
  PROVE  Spec /\ []DecisionsApart => []EscalationHasReason
<1>1. ClosingInvariant => EscalationHasReason
  BY DEF ClosingInvariant, RowFits, EscalationHasReason
<1> QED
  BY <1>1, ClosingHolds, PTL

\* No step writes the row of a closed case.
LEMMA ClosedStays ==
  ASSUME "ack" \notin Faults, TypeOK, FirstRunInvariant, ClosingInvariant, [Next]_vars,
         NEW c \in Cases, row[c].status \in Closed
  PROVE  row'[c] = row[c]
<1>1. ASSUME NEW d \in Cases, NEW w \in Workers, OpenCase(d, w) PROVE row'[c] = row[c]
  <2>1. d # c
    BY <1>1 DEF OpenCase, Closed
  <2> QED
    BY <1>1, <2>1 DEF OpenCase, TypeOK
<1>2. ASSUME NEW p \in Procs, RunStep(p) \/ Fault(p) PROVE row'[c] = row[c]
  <2>1. CASE run[p].case # c
    BY <1>2, <2>1, StepFramed DEF Frame
  <2>2. CASE run[p].case = c
    <3>1. run[p].pc \notin {"commit", "failcommit"}
      BY <2>2, OpenAtWork DEF Inside, Closed
    <3>2. row' = row
      BY <1>2, <3>1, RowWritten
    <3> QED
      BY <3>2
  <2> QED
    BY <2>1, <2>2
<1> QED
  BY <1>1, <1>2 DEF Next, vars, BuildInitialState, GetCase, Decide, Respond, Crash

\* A closed case stays as it was closed: no late run, retry or failure handler writes its
\* row again, if the decisions of a case do not overlap.
THEOREM ClosedStaysClosed ==
  ASSUME "ack" \notin Faults
  PROVE  Spec /\ []DecisionsApart => ClosedIsFinal
<1>1. TypeOK /\ FirstRunInvariant /\ ClosingInvariant /\ [Next]_vars
        => [\A c \in Cases : row[c].status \in Closed => row'[c] = row[c]]_vars
  BY ClosedStays
<1> QED
  BY <1>1, TypeCorrect, FirstRunHolds, ClosingHolds, PTL DEF Spec, ClosedIsFinal
===============================================================================
