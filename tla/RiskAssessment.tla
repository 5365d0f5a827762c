----------------------------- MODULE RiskAssessment -----------------------------
(***************************************************************************)
(* The risk endpoints (src/app/api/risk.py): scoring a customer, storing   *)
(* the assessment, opening a remediation case above the trigger threshold, *)
(* launching its workflow, and reading the latest assessment back.         *)
(*                                                                         *)
(* A client of Clients has one request under way at a time, over REST or   *)
(* through the MCP tools, which call the same routes in process.  Each     *)
(* request has a transaction of its own.  Transactions are numbered in the *)
(* order they start: the number is assessed_at (PostgreSQL's now() is the  *)
(* start of the transaction) and names the assessment and its case.        *)
(***************************************************************************)
EXTENDS Naturals, FiniteSets

CONSTANTS Clients,
          Customers,
          Registered,     \* the rows of customers
          Scores,         \* probabilities the risk model may return
          Channels,       \* a subset of {"rest", "mcp"}
          Faults,         \* a subset of {"db", "ack", "crash"}
          MaxPosts        \* bound: the number of POSTs

\* Probabilities in millionths.
Certain == 1000000
Probabilities == 0..Certain

ASSUME RiskAssumption ==
  /\ Registered \subseteq Customers /\ Customers # {}
  /\ Scores \subseteq Probabilities
  /\ Channels \subseteq {"rest", "mcp"}
  /\ Faults \subseteq {"db", "ack", "crash"}
  /\ MaxPosts \in Nat

\* settings.risk_trigger_threshold
risk_trigger_threshold == 700000

\* Mutant of ClassifyRiskFlag: a flag the column does not allow.
ClassifyRiskFlagSevere(probability) == IF probability < 700000 THEN "HIGH" ELSE "SEVERE"

ClassifyRiskFlag(probability) ==
  CASE probability < 300000                            -> "LOW"
    [] probability >= 300000 /\ probability < 550000   -> "MEDIUM"
    [] probability >= 550000 /\ probability < 700000   -> "HIGH"
    [] probability >= 700000                           -> "CRITICAL"

\* round(probability, 5), the scale of the column too.
Rounded(probability) == ((probability + 5) \div 10) * 10

VARIABLES
  clock,         \* the number of transactions that scored a customer
  assessments,   \* risk_assessments, committed
  cases,         \* remediation_cases, committed: their assessments
  audit,         \* audit_logs, committed
  task,          \* the background task of each case
  run,           \* the request of each client
  knows          \* history: the latest assessment each client was told of

vars == <<clock, assessments, cases, audit, task, run, knows>>

Stamps == 1..MaxPosts

Assessment == [at : Stamps, customer : Customers, probability : Probabilities,
               flag : {"LOW", "MEDIUM", "HIGH", "CRITICAL"}, prior : 0..MaxPosts]

Actions == {"SCORED", "AGENT_TRIGGERED"}

\* begun: before the features query; scored, opening, commit: before the flush of
\* the assessment, the flush of the case and the commit; committed: after it;
\* waiting: an MCP call whose ASGI call is still running; selected, answer: a GET
\* after its first and its second query.
PCs == {"idle", "begun", "scored", "opening", "commit", "committed", "waiting",
        "selected", "answer"}

Run == [pc : PCs, customer : Customers, channel : {"rest", "mcp"},
        at : 0..MaxPosts, prior : 0..MaxPosts, probability : Probabilities,
        logs : SUBSET Actions,      \* audit rows of the transaction
        opened : BOOLEAN,           \* remediation_case_id is not None
        found : BOOLEAN]            \* a GET's remediation_case_id is not None

TypeOK ==
  /\ clock \in 0..MaxPosts
  /\ assessments \subseteq Assessment
  /\ cases \subseteq Stamps
  /\ audit \subseteq Actions \X Stamps \X (Scores \union {0})
  /\ task \in [Stamps -> {"none", "queued", "running", "done", "lost"}]
  /\ run \in [Clients -> Run]
  /\ knows \in [Clients -> [Customers -> 0..MaxPosts]]

Idle == [pc |-> "idle", customer |-> CHOOSE c \in Customers : TRUE,
         channel |-> "rest", at |-> 0, prior |-> 0, probability |-> 0,
         logs |-> {}, opened |-> FALSE, found |-> FALSE]

Rest(r) == run' = [run EXCEPT ![r] = Idle]

Tell(r, at) == knows' = [knows EXCEPT ![r][run[r].customer] = at]

\* Mutant of Latest: ORDER BY assessed_at.
LatestAscending(customer) ==
  {a \in assessments : /\ a.customer = customer
                       /\ \A b \in assessments : b.customer = customer => a.at <= b.at}

\* ORDER BY assessed_at DESC LIMIT 1 (no element: the customer has none).
Latest(customer) ==
  {a \in assessments : /\ a.customer = customer
                       /\ \A b \in assessments : b.customer = customer => b.at <= a.at}

-----------------------------------------------------------------------------
(* create_risk_assessment *)

\* The session begins its transaction ...
Begin(r, c, channel) ==
  /\ run[r].pc = "idle" /\ clock < MaxPosts
  /\ clock' = clock + 1
  /\ run' = [run EXCEPT ![r] = [Idle EXCEPT !.pc = "begun", !.customer = c,
                                            !.channel = channel, !.at = clock + 1]]
  /\ UNCHANGED <<assessments, cases, audit, task, knows>>

\* ... the features query runs in it (404 without the customer), with the latest
\* assessment committed by then, and the customer is scored.
FetchFeatures(r) ==
  /\ run[r].pc = "begun"
  /\ IF run[r].customer \notin Registered
     THEN Rest(r)
     ELSE \E probability \in Scores :
            run' = [run EXCEPT
              ![r].pc = "scored", ![r].probability = probability,
              ![r].prior = IF \E a \in Latest(run[r].customer) : TRUE
                           THEN (CHOOSE a \in Latest(run[r].customer) : TRUE).at ELSE 0]
  /\ UNCHANGED <<clock, assessments, cases, audit, task, knows>>

\* Mutants of FlushAssessment: the threshold itself opens a case ...
FlushAssessmentInclusive(r) ==
  /\ run[r].pc = "scored"
  /\ run' = [run EXCEPT
       ![r].pc = IF run[r].probability >= risk_trigger_threshold THEN "opening" ELSE "commit",
       ![r].logs = @ \union {"SCORED"}]
  /\ UNCHANGED <<clock, assessments, cases, audit, task, knows>>

\* ... or the assessment is committed by itself.
FlushAssessmentCommitting(r) ==
  /\ run[r].pc = "scored"
  /\ run' = [run EXCEPT
       ![r].pc = IF run[r].probability > risk_trigger_threshold THEN "opening" ELSE "commit",
       ![r].logs = @ \union {"SCORED"}]
  /\ assessments' = assessments \union
       {[at |-> run[r].at, customer |-> run[r].customer,
         probability |-> Rounded(run[r].probability),
         flag |-> ClassifyRiskFlag(run[r].probability), prior |-> run[r].prior]}
  /\ UNCHANGED <<clock, cases, audit, task, knows>>

\* The assessment is flushed and its audit row added; a case follows above the
\* threshold.
FlushAssessment(r) ==
  /\ run[r].pc = "scored"
  /\ run' = [run EXCEPT
       ![r].pc = IF run[r].probability > risk_trigger_threshold THEN "opening" ELSE "commit",
       ![r].logs = @ \union {"SCORED"}]
  /\ UNCHANGED <<clock, assessments, cases, audit, task, knows>>

FlushCase(r) ==
  /\ run[r].pc = "opening"
  /\ run' = [run EXCEPT ![r].pc = "commit", ![r].opened = TRUE,
                        ![r].logs = @ \union {"AGENT_TRIGGERED"}]
  /\ UNCHANGED <<clock, assessments, cases, audit, task, knows>>

\* An audit row's detail: the probability as it was scored, not as it is stored.
Detail(r, action) == IF action = "SCORED" THEN run[r].probability ELSE 0

\* What the transaction makes visible.
Store(r) ==
  /\ assessments' = assessments \union
       {[at |-> run[r].at, customer |-> run[r].customer,
         probability |-> Rounded(run[r].probability),
         flag |-> ClassifyRiskFlag(run[r].probability), prior |-> run[r].prior]}
  /\ cases' = IF run[r].opened THEN cases \union {run[r].at} ELSE cases
  /\ audit' = audit \union
       {<<action, run[r].at, Detail(r, action)>> : action \in run[r].logs}

Commit(r) ==
  /\ run[r].pc = "commit"
  /\ Store(r)
  /\ run' = [run EXCEPT ![r].pc = "committed"]
  /\ UNCHANGED <<clock, task, knows>>

\* Mutant of Respond: the workflow is not queued.
RespondWithoutTask(r) ==
  /\ run[r].pc = "committed"
  /\ Rest(r) /\ Tell(r, run[r].at)
  /\ UNCHANGED <<clock, assessments, cases, audit, task>>

\* After the commit the workflow is queued and the response sent.  Over REST the
\* client has its answer then.  The ASGI call ends only with its background tasks,
\* and the MCP tools' in-process transport returns the response when it ends.
Respond(r) ==
  /\ run[r].pc = "committed"
  /\ task' = IF run[r].opened THEN [task EXCEPT ![run[r].at] = "queued"] ELSE task
  /\ IF run[r].opened /\ run[r].channel = "mcp"
     THEN run' = [run EXCEPT ![r].pc = "waiting"] /\ UNCHANGED knows
     ELSE Rest(r) /\ Tell(r, run[r].at)
  /\ UNCHANGED <<clock, assessments, cases, audit>>

\* launch_remediation_workflow starts, and ends; an MCP call waiting for it returns,
\* or fails when the workflow raises (run_case does only when the database fails).
Launch(i) ==
  /\ task[i] = "queued"
  /\ task' = [task EXCEPT ![i] = "running"]
  /\ UNCHANGED <<clock, assessments, cases, audit, run, knows>>

WorkflowEnds(i) ==
  LET waiting == {r \in Clients : run[r].pc = "waiting" /\ run[r].at = i}
  IN /\ task[i] = "running"
     /\ task' = [task EXCEPT ![i] = "done"]
     /\ run' = [r \in Clients |-> IF r \in waiting THEN Idle ELSE run[r]]
     /\ \E raised \in {FALSE} \union (IF "db" \in Faults THEN {TRUE} ELSE {}) :
          knows' = [r \in Clients |->
                      IF r \in waiting /\ ~raised
                      THEN [knows[r] EXCEPT ![run[r].customer] = i] ELSE knows[r]]
     /\ UNCHANGED <<clock, assessments, cases, audit>>

-----------------------------------------------------------------------------
(* get_latest_risk_assessment *)

\* The first query (404 without an assessment) ...
SelectAssessment(r, c) ==
  /\ run[r].pc = "idle"
  /\ \E a \in Latest(c) :
       run' = [run EXCEPT ![r] = [Idle EXCEPT !.pc = "selected", !.customer = c,
                                              !.at = a.at, !.probability = a.probability]]
  /\ UNCHANGED <<clock, assessments, cases, audit, task, knows>>

\* ... the second, for the case ...
SelectCase(r) ==
  /\ run[r].pc = "selected"
  /\ run' = [run EXCEPT ![r].pc = "answer", ![r].found = run[r].at \in cases]
  /\ UNCHANGED <<clock, assessments, cases, audit, task, knows>>

\* ... and the answer.
Answer(r) ==
  /\ run[r].pc = "answer"
  /\ Rest(r) /\ Tell(r, run[r].at)
  /\ UNCHANGED <<clock, assessments, cases, audit, task>>

-----------------------------------------------------------------------------
(* Failures *)

\* A statement, or the commit, fails: the transaction is rolled back, the client
\* gets a 503.
DbFails(r) ==
  /\ "db" \in Faults
  /\ run[r].pc \in {"begun", "scored", "opening", "commit", "selected"}
  /\ Rest(r)
  /\ UNCHANGED <<clock, assessments, cases, audit, task, knows>>

\* The database commits but the connection is lost before it says so: a 503.
CommitAckLost(r) ==
  /\ "ack" \in Faults
  /\ run[r].pc = "commit"
  /\ Store(r)
  /\ Rest(r)
  /\ UNCHANGED <<clock, task, knows>>

\* The handler has seen the commit of case i succeed, and goes on to queue its workflow.
Owed(i) == \E r \in Clients : run[r].pc = "committed" /\ run[r].opened /\ run[r].at = i

\* The host is restarted: requests and background tasks, queued or about to be, are gone.
Crash ==
  /\ "crash" \in Faults
  /\ run' = [r \in Clients |-> Idle]
  /\ task' = [i \in Stamps |->
       IF task[i] \in {"queued", "running"} \/ Owed(i) THEN "lost" ELSE task[i]]
  /\ <<run, task>>' # <<run, task>>
  /\ UNCHANGED <<clock, assessments, cases, audit, knows>>

-----------------------------------------------------------------------------

Init ==
  /\ clock = 0
  /\ assessments = {} /\ cases = {} /\ audit = {}
  /\ task = [i \in Stamps |-> "none"]
  /\ run = [r \in Clients |-> Idle]
  /\ knows = [r \in Clients |-> [c \in Customers |-> 0]]

Proceed(r) ==
  \/ FetchFeatures(r) \/ FlushAssessment(r) \/ FlushCase(r) \/ Commit(r) \/ Respond(r)
  \/ SelectCase(r) \/ Answer(r)

Next ==
  \/ \E r \in Clients, c \in Customers, channel \in Channels : Begin(r, c, channel)
  \/ \E r \in Clients, c \in Customers : SelectAssessment(r, c)
  \/ \E r \in Clients : Proceed(r)
  \/ \E i \in Stamps : Launch(i) \/ WorkflowEnds(i)
  \/ \E r \in Clients : DbFails(r) \/ CommitAckLost(r)
  \/ Crash

Spec == Init /\ [][Next]_vars

\* The event loop goes on with the requests and the tasks it has.
FairSpec ==
  /\ Spec
  /\ \A r \in Clients : WF_vars(Proceed(r))
  /\ \A i \in Stamps : WF_vars(Launch(i))

-----------------------------------------------------------------------------

\* One transaction: whatever fails half-way, an assessment is stored with the audit
\* row of its score, which it rounds, and with a case, itself audited, exactly when that
\* score, not the stored one, was above the threshold; nothing is stored of a case
\* without its assessment, and a workflow is queued only for a case it will find.
StoredTogether ==
  /\ \A a \in assessments :
       \E score \in Scores :
         /\ <<"SCORED", a.at, score>> \in audit
         /\ a.probability = Rounded(score)
         /\ a.at \in cases <=> score > risk_trigger_threshold
  /\ \A i \in Stamps : i \in cases <=> <<"AGENT_TRIGGERED", i, 0>> \in audit
  /\ \A i \in cases : \E a \in assessments : a.at = i
  /\ \A i \in Stamps : task[i] \in {"queued", "running", "done"} => i \in cases

\* A GET, which reads the assessment and the case in two queries, never answers
\* with a score above the threshold and no case.
AnswerShowsCase ==
  \A r \in Clients :
    run[r].pc = "answer" /\ run[r].probability > risk_trigger_threshold => run[r].found

\* A client never reads an assessment older than one it was told of, by a GET or by
\* its own POST, in whatever order concurrent POSTs commit; nor is its next POST
\* scored with an older one as the customer's prior assessment.
ReadsNeverGoBack ==
  \A r \in Clients :
    LET known == knows[r][run[r].customer]
    IN /\ run[r].pc = "answer" => run[r].at >= known
       /\ run[r].pc = "scored" => run[r].prior >= known

\* Every case whose commit the handler saw succeed gets its workflow launched, whatever
\* becomes of the client and of the other requests, unless the host is restarted first.
EveryCaseLaunched ==
  \A i \in Stamps : Owed(i) ~> task[i] \in {"running", "done", "lost"}
===============================================================================
