-------------------------- MODULE RemediationWorkflow --------------------------
(***************************************************************************)
(* The remediation workflow: run_case (src/app/agent/graph.py) driven by   *)
(* the background task that create_risk_assessment queues for a new case   *)
(* and by the approve and reject endpoints (src/app/api/remediation.py).   *)
(*                                                                         *)
(* A process is either the background task of a case c (process c itself)  *)
(* or one of the request slots in Reqs, a client of the approve/reject     *)
(* endpoints.  Each action is what happens between two awaits of           *)
(* run_case, so every interleaving of the awaits is a behaviour.  Requests *)
(* are served by uvicorn worker processes; the checkpointer is one store   *)
(* for all of them (postgres) or one in each (MemorySaver).                *)
(***************************************************************************)
EXTENDS AgentNodes, FiniteSets

CONSTANTS Cases, Reqs, Workers,
          SharedCheckpointer,   \* TRUE: checkpointer_backend == "postgres"
          Faults,               \* the failures the environment may inject
          RevBound              \* bound: no rejection once the agent's revision count reaches it

ASSUME ProcsAssumption == Cases # {} /\ Workers # {} /\ Cases \intersect Reqs = {}

ASSUME EnvironmentAssumption ==
  /\ SharedCheckpointer \in BOOLEAN
  /\ Faults \subseteq {"llm", "db", "ack", "crash"}
  /\ RevBound \in Nat

VARIABLES
  row,       \* remediation_cases: the committed row of each case
  audit,     \* audit_logs of each case: the nodes logged, the status last logged
  ckpt,      \* ckpt[w][c]: the latest checkpoint of thread c in worker w's saver
  run,       \* the local state of each process
  signed,    \* history: the plans for which an approval was consumed
  executed   \* history: the nodes completed for the case

vars == <<row, audit, ckpt, run, signed, executed>>

Procs == Cases \union Reqs

Statuses == {"PENDING_CONTEXT", "AWAITING_HUMAN_REVIEW", "APPROVED", "ESCALATED"}

Closed == {"APPROVED", "ESCALATED"}

\* "ABSENT": not inserted yet.
Row == [status : Statuses \union {"ABSENT"}, plan : Plans \union {NoPlan},
        notes : Notes, rev : Nat, resolved : BOOLEAN]

NoRow == [status |-> "ABSENT", plan |-> NoPlan, notes |-> "none",
          rev |-> 0, resolved |-> FALSE]

Audit == [nodes : SUBSET Nodes, last : Statuses \union {"ABSENT"}]

\* A checkpoint is the state and the node to execute next ("none": no checkpoint).
NextNodes == Nodes \union {"none", "END"}

Checkpoint == [st : AgentState, next : NextNodes]

NoCheckpoint == [st |-> InitialState, next |-> "none"]

\* idle: no request, or a request answered; viewing: the client has read the
\* case; queued: behind the response of create_risk_assessment; starting: before
\* astream; stream: inside it; snapshot: before aget_state; load: before
\* session.get; commit: before session.commit; failing, failcommit: the except
\* branch, before and after its session.get; refresh: before the response;
\* done, dead: the background task has ended, or was lost.
PCs == {"idle", "viewing", "queued", "starting", "stream", "snapshot", "load",
        "commit", "failing", "failcommit", "refresh", "done", "dead"}

Decisions == {"none", "approve", "reject"}

Run == [pc : PCs, case : Cases, worker : Workers,
        decision : Decisions,             \* "none": a fresh run
        armed : BOOLEAN,                  \* the resume value is not yet delivered
        shown : Plans \union {NoPlan},    \* the plan the client saw
        st : AgentState, next : NextNodes,
        last : Nodes \union {"none"},     \* last_node
        paused : BOOLEAN,                 \* interrupted
        logs : SUBSET Nodes,              \* audit rows pending in the session
        seen : Row]                       \* the row as session.get loaded it

TypeOK ==
  /\ row \in [Cases -> Row]
  /\ audit \in [Cases -> Audit]
  /\ ckpt \in [Workers -> [Cases -> Checkpoint]]
  /\ run \in [Procs -> Run]
  /\ signed \in [Cases -> SUBSET (Plans \union {NoPlan})]
  /\ executed \in [Cases -> SUBSET Nodes]

-----------------------------------------------------------------------------
(* Processes *)

Active(p) == run[p].pc \notin {"idle", "viewing", "done", "dead"}

Quiet(c) == \A p \in Procs : Active(p) => run[p].case # c

\* The local state of a process that is not running; its worker no longer matters.
AtRest(p, pc) ==
  [run[p] EXCEPT !.pc = pc, !.worker = CHOOSE w \in Workers : TRUE,
                 !.decision = "none", !.armed = FALSE, !.shown = NoPlan,
                 !.st = InitialState, !.next = "none", !.last = "none",
                 !.paused = FALSE, !.logs = {}, !.seen = NoRow]

Rest(p, pc) == run' = [run EXCEPT ![p] = AtRest(p, pc)]

Goto(p, pc) == run' = [run EXCEPT ![p].pc = pc]

\* After run_case returns: the background task ends, a request goes on to refresh.
Return(p) ==
  IF p \in Cases THEN Rest(p, "done") ELSE Goto(p, "refresh")

\* After run_case raises: nobody hears of a background task, a client gets a 500.
Raise(p) == IF p \in Cases THEN Rest(p, "dead") ELSE Rest(p, "idle")

-----------------------------------------------------------------------------
(* Opening a case and starting a run *)

\* create_risk_assessment: the case and its AGENT_TRIGGERED audit row are
\* committed, then the background task is queued on the same worker.
OpenCase(c, w) ==
  /\ row[c].status = "ABSENT"
  /\ row' = [row EXCEPT ![c].status = "PENDING_CONTEXT"]
  /\ audit' = [audit EXCEPT ![c].last = "PENDING_CONTEXT"]
  /\ run' = [run EXCEPT ![c] = [AtRest(c, "queued") EXCEPT !.worker = w]]
  /\ UNCHANGED <<ckpt, signed, executed>>

\* _build_initial_state reads the case, the assessment and the customer.
BuildInitialState(c) ==
  /\ run[c].pc = "queued"
  /\ Goto(c, "starting")
  /\ UNCHANGED <<row, audit, ckpt, signed, executed>>

\* The client reads a case, and may decide it.  Assumed of the client: it decides no
\* case that it read before there was a plan to decide on.
GetCase(r, c) ==
  /\ run[r].pc = "idle"
  /\ row[c].status \in Closed \union {"AWAITING_HUMAN_REVIEW"}
  /\ run' = [run EXCEPT ![r].pc = "viewing", ![r].case = c,
                        ![r].shown = row[c].plan]
  /\ UNCHANGED <<row, audit, ckpt, signed, executed>>

\* Mutant of Decide: without the status check.
DecideUnchecked(r, decision, w) ==
  /\ run[r].pc = "viewing"
  /\ decision = "reject" => ckpt[w][run[r].case].st.rev < RevBound
  /\ run' = [run EXCEPT ![r].pc = "starting", ![r].decision = decision, ![r].worker = w]
  /\ UNCHANGED <<row, audit, ckpt, signed, executed>>

\* approve / reject, up to the call of run_case: the status check in the
\* request's session, with its 409.
Decide(r, decision, w) ==
  /\ run[r].pc = "viewing"
  /\ decision = "reject" => ckpt[w][run[r].case].st.rev < RevBound
  /\ IF row[run[r].case].status = "AWAITING_HUMAN_REVIEW"
     THEN run' = [run EXCEPT ![r].pc = "starting", ![r].decision = decision,
                             ![r].worker = w]
     ELSE Rest(r, "idle")
  /\ UNCHANGED <<row, audit, ckpt, signed, executed>>

\* Mutant of Put: the state that waits for the officer is not saved.
PutBeforeReview(w, c, st, next) ==
  ckpt' = [v \in Workers |-> IF (SharedCheckpointer \/ v = w) /\ next # "human_review"
                             THEN [ckpt[v] EXCEPT ![c] = [st |-> st, next |-> next]]
                             ELSE ckpt[v]]

\* A checkpoint written by worker w is seen by the workers that share its store.
Put(w, c, st, next) ==
  ckpt' = [v \in Workers |-> IF SharedCheckpointer \/ v = w
                             THEN [ckpt[v] EXCEPT ![c] = [st |-> st, next |-> next]]
                             ELSE ckpt[v]]

\* astream(initial state): the input is checkpointed.
StartFresh(p) ==
  /\ run[p].pc = "starting" /\ run[p].decision = "none"
  /\ run' = [run EXCEPT ![p].pc = "stream", ![p].st = InitialState,
                        ![p].next = "retrieve_context"]
  /\ Put(run[p].worker, run[p].case, InitialState, "retrieve_context")
  /\ UNCHANGED <<row, audit, signed, executed>>

\* astream(Command(resume=...)): goes on from the latest checkpoint, wherever
\* that is; without a checkpoint it raises.
StartResume(p) ==
  LET saved == ckpt[run[p].worker][run[p].case]
  IN /\ run[p].pc = "starting" /\ run[p].decision # "none"
     /\ run' = [run EXCEPT
          ![p].pc = CASE saved.next = "none" -> "failing"
                      [] saved.next = "END"  -> "snapshot"
                      [] OTHER               -> "stream",
          ![p].armed = TRUE, ![p].st = saved.st, ![p].next = saved.next]
     /\ UNCHANGED <<row, audit, ckpt, signed, executed>>

-----------------------------------------------------------------------------
(* The graph, one superstep per action *)

\* A completed node: its update reaches run_case's loop (which adds an audit row
\* to the session), a resume value not consumed by it is gone, and the new state
\* is checkpointed.
Superstep(p, node, st, next) ==
  /\ run' = [run EXCEPT ![p].pc = IF next = "END" THEN "snapshot" ELSE "stream",
                        ![p].armed = FALSE, ![p].st = st, ![p].next = next,
                        ![p].last = node, ![p].logs = @ \union {node}]
  /\ Put(run[p].worker, run[p].case, st, next)
  /\ executed' = [executed EXCEPT ![run[p].case] = @ \union {node}]
  /\ UNCHANGED <<row, audit>>

At(p, node) == run[p].pc = "stream" /\ run[p].next = node

RunRetrieveContext(p) ==
  /\ At(p, "retrieve_context")
  /\ Superstep(p, "retrieve_context", run[p].st, "plan_remediation")
  /\ UNCHANGED signed

RunPlanRemediation(p) ==
  /\ At(p, "plan_remediation")
  /\ \E draft \in Plans :
       Superstep(p, "plan_remediation", PlanRemediation(run[p].st, draft),
                 "compliance_check")
  /\ UNCHANGED signed

RunComplianceCheck(p) ==
  LET st == ComplianceCheck(run[p].st)
  IN /\ At(p, "compliance_check")
     /\ Superstep(p, "compliance_check", st, RouteCompliance(st))
     /\ UNCHANGED signed

\* Mutants of PauseForReview: the row is put under review before the run's transaction ...
PauseForReviewEagerly(p) ==
  /\ At(p, "human_review") /\ ~run[p].armed
  /\ run' = [run EXCEPT ![p].pc = "snapshot", ![p].paused = TRUE]
  /\ row' = [row EXCEPT ![run[p].case].status = "AWAITING_HUMAN_REVIEW"]
  /\ UNCHANGED <<audit, ckpt, signed, executed>>

\* ... or the audit rows are added only when the run does not pause.
PauseForReviewUnlogged(p) ==
  /\ At(p, "human_review") /\ ~run[p].armed
  /\ run' = [run EXCEPT ![p].pc = "snapshot", ![p].paused = TRUE, ![p].logs = {}]
  /\ UNCHANGED <<row, audit, ckpt, signed, executed>>

\* human_review without a resume value: interrupt() ends the run; nothing is
\* checkpointed and no update is yielded.
PauseForReview(p) ==
  /\ At(p, "human_review") /\ ~run[p].armed
  /\ run' = [run EXCEPT ![p].pc = "snapshot", ![p].paused = TRUE]
  /\ UNCHANGED <<row, audit, ckpt, signed, executed>>

\* human_review resumed: interrupt() returns the officer's decision.
RunHumanReview(p) ==
  LET st == HumanReview(run[p].st, run[p].decision)
  IN /\ At(p, "human_review") /\ run[p].armed
     /\ Superstep(p, "human_review", st, RouteHumanDecision(st))
     /\ signed' = IF st.approved
                  THEN [signed EXCEPT ![run[p].case] = @ \union {st.plan}]
                  ELSE signed

RunFinalize(p) ==
  /\ At(p, "finalize")
  /\ Superstep(p, "finalize", run[p].st, "END")
  /\ UNCHANGED signed

RunEscalate(p) ==
  /\ At(p, "escalate")
  /\ Superstep(p, "escalate", run[p].st, "END")
  /\ UNCHANGED signed

\* Retrieval raises out of its node, or the LLM does (it declines, or fails in the retry
\* too), into run_case's except branch.
NodeRaises(p) ==
  /\ "llm" \in Faults
  /\ At(p, "retrieve_context") \/ At(p, "plan_remediation")
  /\ Goto(p, "failing")
  /\ UNCHANGED <<row, audit, ckpt, signed, executed>>

-----------------------------------------------------------------------------
(* Persisting the outcome *)

\* aget_state: the latest checkpoint of the thread, whoever wrote it.
Snapshot(p) ==
  /\ run[p].pc = "snapshot"
  /\ run' = [run EXCEPT ![p].pc = "load",
                        ![p].st = ckpt[run[p].worker][run[p].case].st]
  /\ UNCHANGED <<row, audit, ckpt, signed, executed>>

LoadRow(p) ==
  /\ run[p].pc = "load"
  /\ run' = [run EXCEPT ![p].pc = "commit", ![p].seen = row[run[p].case]]
  /\ UNCHANGED <<row, audit, ckpt, signed, executed>>

\* The status run_case gives the case: its own when the run has done nothing.
Outcome(p) ==
  CASE run[p].paused -> "AWAITING_HUMAN_REVIEW"
    [] ~run[p].paused /\ run[p].last = "finalize" -> "APPROVED"
    [] ~run[p].paused /\ run[p].last = "escalate" -> "ESCALATED"
    [] OTHER -> run[p].seen.status

Resolved(p) ==
  run[p].seen.resolved \/ (~run[p].paused /\ run[p].last \in {"finalize", "escalate"})

\* Mutants of Assigned: the plan is not assigned, ...
AssignedWithoutPlan(p) ==
  [run[p].seen EXCEPT !.status = Outcome(p), !.notes = run[p].st.notes,
                      !.rev = run[p].st.rev, !.resolved = Resolved(p)]

\* ... or the first time only, ...
AssignedFirstPlan(p) ==
  [AssignedWithoutPlan(p) EXCEPT !.plan = IF @ = NoPlan THEN run[p].st.plan ELSE @]

\* ... or the status is only that of a pause or an escalation, ...
AssignedNoApproval(p) ==
  [AssignedWithoutPlan(p) EXCEPT
     !.plan = run[p].st.plan, !.status = IF @ = "APPROVED" THEN run[p].seen.status ELSE @]

\* ... or resolved_at is forgotten.
AssignedUnresolved(p) ==
  [AssignedWithoutPlan(p) EXCEPT !.plan = run[p].st.plan, !.resolved = run[p].seen.resolved]

\* The case object after run_case's assignments.
Assigned(p) ==
  [status |-> Outcome(p), plan |-> run[p].st.plan, notes |-> run[p].st.notes,
   rev |-> run[p].st.rev, resolved |-> Resolved(p)]

\* The UPDATE that the unit of work emits: the columns whose value differs from
\* the one loaded, over whatever the row holds by then.
Flushed(current, seen, object) ==
  [status   |-> IF object.status = seen.status THEN current.status ELSE object.status,
   plan     |-> IF object.plan = seen.plan THEN current.plan ELSE object.plan,
   notes    |-> IF object.notes = seen.notes THEN current.notes ELSE object.notes,
   rev      |-> IF object.rev = seen.rev THEN current.rev ELSE object.rev,
   resolved |-> IF object.resolved = seen.resolved THEN current.resolved ELSE object.resolved]

\* The transaction: the row, the audit rows of the nodes and STATUS_<status>.
Persist(p) ==
  LET c == run[p].case
  IN /\ row' = [row EXCEPT ![c] = Flushed(@, run[p].seen, Assigned(p))]
     /\ audit' = [audit EXCEPT ![c].nodes = @ \union run[p].logs,
                               ![c].last = Assigned(p).status]

Commit(p) ==
  /\ run[p].pc = "commit"
  /\ Persist(p)
  /\ Return(p)
  /\ UNCHANGED <<ckpt, signed, executed>>

\* The transaction commits but its acknowledgement is lost: run_case sees an error.
CommitAckLost(p) ==
  /\ "ack" \in Faults
  /\ run[p].pc = "commit"
  /\ Persist(p)
  /\ Goto(p, "failing")
  /\ UNCHANGED <<ckpt, signed, executed>>

\* except Exception: rollback drops the pending audit rows; a second session
\* loads the case ...
FailureLoad(p) ==
  /\ run[p].pc = "failing"
  /\ run' = [run EXCEPT ![p].pc = "failcommit", ![p].seen = row[run[p].case],
                        ![p].logs = {}]
  /\ UNCHANGED <<row, audit, ckpt, signed, executed>>

\* Mutants of FailureCommit: nothing is saved, ...
FailureCommitUnsaved(p) ==
  /\ run[p].pc = "failcommit"
  /\ Return(p)
  /\ UNCHANGED <<row, audit, ckpt, signed, executed>>

\* ... a status the column does not allow is, ...
FailureCommitFailed(p) ==
  /\ run[p].pc = "failcommit"
  /\ row' = [row EXCEPT ![run[p].case].status = "FAILED", ![run[p].case].resolved = TRUE]
  /\ Return(p)
  /\ UNCHANGED <<audit, ckpt, signed, executed>>

\* ... the notes stay as they were, or the audit row is missing.
FailureCommitSilent(p) ==
  /\ run[p].pc = "failcommit"
  /\ row' = [row EXCEPT ![run[p].case].status = "ESCALATED", ![run[p].case].resolved = TRUE]
  /\ Return(p)
  /\ UNCHANGED <<audit, ckpt, signed, executed>>

\* ... and escalates it, with a WORKFLOW_FAILED audit row.
FailureCommit(p) ==
  LET c == run[p].case
      object == [run[p].seen EXCEPT !.status = "ESCALATED", !.notes = "failed",
                                    !.resolved = TRUE]
  IN /\ run[p].pc = "failcommit"
     /\ row' = [row EXCEPT ![c] = Flushed(@, run[p].seen, object)]
     /\ audit' = [audit EXCEPT ![c].last = "ESCALATED"]
     /\ Return(p)
     /\ UNCHANGED <<ckpt, signed, executed>>

\* session.refresh and the response: the row as it is now.
Respond(r) ==
  /\ run[r].pc = "refresh"
  /\ Rest(r, "idle")
  /\ UNCHANGED <<row, audit, ckpt, signed, executed>>

-----------------------------------------------------------------------------
(* Failures of the environment *)

\* A database call raises.  Outside run_case's try it leaves run_case; inside, it
\* goes to the except branch; in the except branch it leaves run_case as well.  The
\* stream reads and writes the database only when that is where checkpoints are.
DbFails(p) ==
  /\ "db" \in Faults
  /\ CASE run[p].pc \in {"viewing", "refresh"}        -> Rest(p, "idle")
       [] run[p].pc \in {"queued", "failing", "failcommit"} -> Raise(p)
       [] run[p].pc \in {"load", "commit"}             -> Goto(p, "failing")
       [] run[p].pc \in {"starting", "stream", "snapshot"} ->
            SharedCheckpointer /\ Goto(p, "failing")
       [] OTHER                                        -> FALSE
  /\ UNCHANGED <<row, audit, ckpt, signed, executed>>

\* A worker process dies and restarts: its runs are gone, its memory store too.
Crash(w) ==
  LET lost == {p \in Procs : Active(p) /\ run[p].worker = w}
  IN /\ "crash" \in Faults
     /\ lost # {} \/ ~SharedCheckpointer
     /\ run' = [p \in Procs |->
                  IF p \notin lost THEN run[p]
                  ELSE AtRest(p, IF p \in Cases THEN "dead" ELSE "idle")]
     /\ ckpt' = IF SharedCheckpointer THEN ckpt
                ELSE [ckpt EXCEPT ![w] = [c \in Cases |-> NoCheckpoint]]
     /\ UNCHANGED <<row, audit, signed, executed>>

-----------------------------------------------------------------------------

Init ==
  /\ row = [c \in Cases |-> NoRow]
  /\ audit = [c \in Cases |-> [nodes |-> {}, last |-> "ABSENT"]]
  /\ ckpt = [w \in Workers |-> [c \in Cases |-> NoCheckpoint]]
  /\ run = [p \in Procs |->
              [pc |-> "idle",
               case |-> IF p \in Cases THEN p ELSE CHOOSE c \in Cases : TRUE,
               worker |-> CHOOSE w \in Workers : TRUE,
               decision |-> "none", armed |-> FALSE, shown |-> NoPlan,
               st |-> InitialState, next |-> "none", last |-> "none",
               paused |-> FALSE, logs |-> {}, seen |-> NoRow]]
  /\ signed = [c \in Cases |-> {}]
  /\ executed = [c \in Cases |-> {}]

\* What run_case does next when nothing fails.
RunStep(p) ==
  \/ StartFresh(p) \/ StartResume(p)
  \/ RunRetrieveContext(p) \/ RunPlanRemediation(p) \/ RunComplianceCheck(p)
  \/ PauseForReview(p) \/ RunHumanReview(p) \/ RunFinalize(p) \/ RunEscalate(p)
  \/ Snapshot(p) \/ LoadRow(p) \/ Commit(p)
  \/ FailureLoad(p) \/ FailureCommit(p)

Fault(p) == NodeRaises(p) \/ CommitAckLost(p) \/ DbFails(p)

Next ==
  \/ \E c \in Cases, w \in Workers : OpenCase(c, w)
  \/ \E c \in Cases : BuildInitialState(c)
  \/ \E r \in Reqs, c \in Cases : GetCase(r, c)
  \/ \E r \in Reqs, d \in {"approve", "reject"}, w \in Workers : Decide(r, d, w)
  \/ \E p \in Procs : RunStep(p)
  \/ \E r \in Reqs : Respond(r)
  \/ \E p \in Procs : Fault(p)
  \/ \E w \in Workers : Crash(w)

Spec == Init /\ [][Next]_vars

\* The event loop keeps running the coroutines it has; nothing makes a customer
\* be scored or an officer decide.
Fairness ==
  /\ \A c \in Cases : WF_vars(BuildInitialState(c))
  /\ \A p \in Procs : WF_vars(RunStep(p))
  /\ \A r \in Reqs : WF_vars(Respond(r))

FairSpec == Spec /\ Fairness

-----------------------------------------------------------------------------
(* Sign-off: what holds however requests, workers and failures interleave *)

\* Nothing is signed off that the compliance check did not pass: no order of runs,
\* crashes and resumes makes human_review consume an approval for another plan.
SignedPlansComply == \A c \in Cases : signed[c] \subseteq CompliantPlans

\* No run finalizes, and no row is APPROVED, unless an officer's approval was
\* consumed for the case.
ApprovedWasSigned ==
  \A c \in Cases : (row[c].status = "APPROVED" \/ "finalize" \in executed[c])
                     => signed[c] # {}

\* An LLM revision always carries feedback: the draft is redrafted with the issues
\* of the compliance check or with the officer's notes, also when a resume lands on
\* a checkpoint another run left half-way.
RedraftHasFeedback ==
  \A p \in Procs : At(p, "plan_remediation") /\ run[p].st.plan # NoPlan
                     => run[p].st.notes \in {"issues", "officer"}

\* What the next node relies on, whichever run executes it; plans are those signed.
NextIsSound(plans, st, next) ==
  /\ next = "retrieve_context" => st.plan = NoPlan
  /\ next = "plan_remediation" /\ st.plan # NoPlan => st.notes \in {"issues", "officer"}
  /\ next = "human_review" => st.plan \in CompliantPlans
  /\ next = "finalize" => st.plan \in plans

RunIsSound(p) ==
  /\ run[p].pc = "stream" => NextIsSound(signed[run[p].case], run[p].st, run[p].next)
  /\ run[p].last = "finalize" => signed[run[p].case] # {}
  /\ run[p].pc \in {"idle", "viewing", "queued", "starting"} => run[p].last = "none"

\* The inductive invariant behind the three properties above: every checkpoint and
\* every running state is sound for its next node, so that it does not matter which
\* run continues which checkpoint; a run that finalized acted on a signature.
SignOffInvariant ==
  /\ SignedPlansComply
  /\ ApprovedWasSigned
  /\ \A w \in Workers, c \in Cases :
       NextIsSound(signed[c], ckpt[w][c].st, ckpt[w][c].next)
  /\ \A p \in Procs : RunIsSound(p)

\* The background run of a case never overlaps a decision run: the case is open for
\* decisions only once that run has committed.
FirstRunIsAlone ==
  \A c \in Cases, r \in Reqs :
    Active(c) /\ Active(r) => run[r].case # c

(* What officers who keep out of each other's way can rely on *)

\* No case is decided twice at the same time.
DecisionsApart ==
  \A r, s \in Reqs : r # s /\ Active(r) /\ Active(s) => run[r].case # run[s].case

\* No officer has a case in hand, read or decided, that another has in hand.
OfficersApart ==
  \A r, s \in Reqs :
    r # s /\ run[r].pc # "idle" /\ run[s].pc # "idle" => run[r].case # run[s].case

\* The plan of an APPROVED case is one that was signed off.
ApprovedPlanSignedOff ==
  \A c \in Cases : row[c].status = "APPROVED" => row[c].plan \in signed[c]

\* The plan human_review has just signed is the plan the officer was shown.
SignedPlanWasShown ==
  \A r \in Reqs : At(r, "finalize") /\ "human_review" \in run[r].logs
                    => run[r].st.plan = run[r].shown

\* resolved_at is set exactly when the case is closed.
ResolvedIffClosed ==
  \A c \in Cases : row[c].resolved <=> row[c].status \in Closed

\* The last status in the audit trail is the status of the case.
AuditMatchesStatus == \A c \in Cases : audit[c].last = row[c].status

\* Approving finalizes the case: the row an approve request answers with is APPROVED.
ApproveFinalizes ==
  \A r \in Reqs : run[r].pc = "refresh" /\ run[r].decision = "approve"
                    => row[run[r].case].status = "APPROVED"

\* An ESCALATED case says why: its revisions are exhausted, or the workflow failed.
EscalationHasReason ==
  \A c \in Cases : row[c].status = "ESCALATED" => row[c].notes \in {"exhausted", "failed"}

\* A case whose context is pending has a run that will move it.
NotSilentlyStuck ==
  \A c \in Cases : row[c].status = "PENDING_CONTEXT" => ~Quiet(c)

\* A case under review that no run is working on can be resumed by any worker, and
\* at the plan and revision count its row shows.
AwaitingIsResumable ==
  \A c \in Cases : row[c].status = "AWAITING_HUMAN_REVIEW" /\ Quiet(c) =>
    \A w \in Workers : /\ ckpt[w][c].next = "human_review"
                       /\ ckpt[w][c].st.plan = row[c].plan
                       /\ ckpt[w][c].st.rev = row[c].rev

\* Every node completed for a case, by whichever of its runs, is in its audit trail
\* once no run is working on it, unless a run failed and was rolled back.
NodesAudited ==
  \A c \in Cases : Quiet(c) /\ row[c].notes # "failed" => executed[c] \subseteq audit[c].nodes

\* A closed case stays as it was closed.
ClosedIsFinal ==
  [][\A c \in Cases : row[c].status \in Closed => row'[c] = row[c]]_vars

\* The rejected plan is not the end of the case: a rejection leads to another
\* review or to an escalation, never to an approval.
RejectNeverApproves ==
  [][\A r \in Reqs :
       LET c == run[r].case
       IN run[r].pc = "commit" /\ run[r].decision = "reject" /\ row[c].status # "APPROVED"
            => row'[c].status # "APPROVED"]_vars

(* Refinement *)

Lifecycle == INSTANCE CaseLifecycle WITH
               status <- [c \in Cases |-> row[c].status],
               plan   <- [c \in Cases |-> row[c].plan]

\* The rows of remediation_cases behave as CaseLifecycle says, its progress
\* included: a case gets out of PENDING_CONTEXT, only a compliant plan is put up
\* for review, and what is approved is the plan that was under review.
ImplementsLifecycle == Lifecycle!Spec

(* Progress *)

\* Every decision is answered: the loop of revisions that it may start ends.
DecisionAnswered == \A r \in Reqs : run[r].pc = "starting" ~> run[r].pc = "idle"
===============================================================================
