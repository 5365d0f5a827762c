# RiskGuard AI in TLA+

A verification development of the program in `src/`: TLA+ modules translated
from the source, TLC runs that check them on small instances, and theorems that
TLAPS proves for every value of the constants.

RiskGuard AI scores loan customers. A score above 0.70 opens a remediation case,
for which a LangGraph agent drafts a restructuring plan with an LLM, checks it
against the limits of the policy documents, and waits for a compliance officer
to approve it or send it back. What makes this hard is not any single function
but that one case lives in two stores (the row in `remediation_cases` and the
thread in the checkpointer), is driven by several uncoordinated runs (the
background task and every decision request), in more than one worker process.

## Inventory

| Component | State | Operations | Hard because | Correct when |
|---|---|---|---|---|
| Agent graph and `run_case` (`app/agent/graph.py`, `nodes.py`, `state.py`) | `AgentState`, the thread's checkpoints, the row, audit rows, the compiled graph | the six nodes and their edges, the stream loop, the transaction, the failure handler, init and shutdown | runs of one thread interleave at every await; checkpoints and row are not written together; nodes raise; the resume value goes to whatever node is next | nothing is signed that did not pass; nothing is approved unsigned; rows, times and audit agree; nothing is stuck; the loop ends |
| Remediation API (`app/api/remediation.py`) | the request's session | get, approve, reject | the status is checked before the run, not in it | an approval finalizes the plan that was shown |
| Compliance check (`nodes.py`) | none | `_parse_plan`, `compliance_check` | LLM text: missing, repeated, blank and unparsable lines | passes exactly what the documents allow |
| Risk API (`app/api/risk.py`, `app/db/queries.py`) | assessments, cases, audit rows, background tasks | POST, GET, launch | own transactions, commit order, tasks in memory only, MCP in process | stored together, launched once stored, reads consistent |
| Policy retriever (`app/rag/retriever.py`) | the default retriever | chunking, scoping, ranking, lazy construction | boundaries of windows, ties, threads racing to build it | scoped to the state, complete, best first |
| LLM drafting (`app/agent/llm.py`) | client singletons | prompt, call, retry | which errors are retried, empty answers | at most two calls, no retry after a refusal |
| MCP server (`app/mcp/server.py`) | in-process HTTP client, session manager | three tools, one resource | calls re-enter the application, and outlive their clients | mirrors REST, is never refused by its own service |
| Lifespan (`app/main.py`, `graph.py` 88-140) | engine, model, graph, client | startup, shutdown | one step of several fails, calls are under way | everything opened is closed, after those who use it |
| Engine (`app/db/engine.py`) | ten connections | check out, give back | routes hold one while asking for another | calls do not wait for each other |
| API key middleware (`app/auth.py`) | the configured key | admit or reject | the loopback passes through it, the key may change | the loopback passes |
| Risk model (`ml/`) | artifacts | generate, train, predict | numerical | |
| Scripts, health, logging, errors, schemas, configuration | none, or one-off | | | |

The components interact as follows. POST commits the assessment, the case and
their audit rows and queues `launch_remediation_workflow`, which calls
`run_case`. `run_case` streams the graph, whose nodes call the retriever and the
LLM and whose checkpoints go to the checkpointer, then writes the row and the
audit rows. A decision request checks the row and calls `run_case` again, which
resumes the thread. MCP tools call the REST routes through the same application,
middleware included. All of them take connections from one engine, and live in a
process whose lifespan opens and closes what they work with.

`PROJECT.json` lists the hazards, each at its line with the properties aimed at it.

## Modules

| Module | Models |
|---|---|
| `AgentNodes` | `AgentState`, the node functions and the edges, as operators |
| `RemediationWorkflow` | `run_case` driven by background tasks and by approve/reject requests, with workers, checkpointers and faults |
| `CaseLifecycle` | abstract: the life of a case as its row shows it, which `RemediationWorkflow` implements |
| `RemediationWorkflow_proofs` | the theorems about `RemediationWorkflow` |
| `RemediationCases_proofs` | what those build on for the row and the audit trail of a case, with every fault except lost acknowledgements |
| `RemediationResume_proofs` | what can be resumed, approved and rejected on dependable hosts, and the safety part of the refinement of `CaseLifecycle` |
| `Compliance` | `_parse_plan` and `compliance_check` on drafts line by line |
| `Compliance_proofs` | the theorems about `Compliance` |
| `RiskAssessment` | the risk endpoints, their transactions and background tasks, REST and MCP clients |
| `RiskAssessment_proofs` | the theorems about `RiskAssessment` |
| `Lifespan` | startup and shutdown of a worker process, `init_agent_graph` and `shutdown_agent_graph` |
| `Service` | extends `Lifespan` with the calls a process serves: the middleware, the MCP loopback, the engine's connections as routes and `run_case` hold them |
| `Service_proofs` | the theorems about `Service` |
| `PolicyChunks` | how a section is cut into parents and children |
| `PolicyChunks_proofs` | the theorems about `PolicyChunks` |
| `Retriever` | the lazily built retriever, ranking, and the two queries |
| `Retriever_proofs` | the theorems about `Retriever` |
| `MC*` | instances for TLC |

Definitions named "Mutant of X" state a plausible bug in X. They are used by no
specification: putting one in place of X must break a property, which is how the
properties are shown to say something about the code.

### RemediationWorkflow

A process is the background task of a case, or a slot for one decision request
at a time. Its `pc` names the await of `run_case` (or of `_resume_case`) it is
about to perform; an action is what happens from there to the next await, so
that every interleaving the event loop allows, in one worker or in several, is a
behaviour.

* `row` is the committed row; `run[p].seen` the row as `session.get` loaded it.
  `Flushed` is SQLAlchemy's UPDATE: only columns that differ from the loaded
  values are written, over what the row holds by then. This is what lets two
  racing runs mix their columns.
* `ckpt` holds a thread's latest checkpoint, per worker (`MemorySaver`) or the same
  for all (`SharedCheckpointer`, PostgreSQL). A superstep is one action: the
  node's update reaches the loop and its checkpoint is written. The resume value
  (`armed`) is available to the first superstep of a resumed run only. An
  interrupt writes no new state.
* `Decide` is the status check, `StartResume` the later start of the stream: a
  thread without a checkpoint raises, one at its end runs no node, any other
  continues at its next node, whichever run left it there.
* `Persist` is the transaction at the end of `run_case`; `FailureLoad` and
  `FailureCommit` are the except branch.
* Faults: `llm` (a node raises), `db` (a database call fails, at every await, with
  the consequences of where it is), `ack` (a commit takes effect and raises), `crash`
  (a worker dies; its runs and its memory store are gone, background tasks are
  never queued again). A cancelled request has the effect of a crash on its run.
* `signed` and `executed` are history variables.

A plan is a model value; whether it passes the check is membership in
`CompliantPlans` (the check itself is `Compliance`). Notes are reduced to their
origin. An officer is assumed to decide no case that was read before it had a plan;
what was read may be stale when the decision arrives.

### Lifespan and Service

`stage` is the startup or shutdown step to come, `open` what has been opened. A
step that fails unwinds what the code has entered by then: the checkpointer's own
`async with` if `setup()` fails, everything in reverse order if the session manager
refuses to start. On SIGTERM the process drains: uvicorn waits for the ASGI calls
under way, background tasks included, and only then is the exit stack unwound. An
MCP tool whose client is gone has no ASGI call any more (`attached`); it runs on in
the session manager's task group until it ends or the manager, which is the first
to be closed, cancels it. A `Kill` may come at any point.

A call is where it is in its route and how many of the engine's connections it
holds; what it does to the cases is the subject of the other modules. A session takes
a connection at its first statement and keeps it until it commits, rolls back or is
closed. So a POST has given its connection back when its background task starts, but
a decision keeps the one of its status check throughout `run_case`, for which it then
needs a second. A wait ends with a connection (`Checkout`) or with SQLAlchemy's
`TimeoutError` (`PoolTimeout`), which is not an `OperationalError`: it ends the call
wherever it is, except in `run_case`'s own transaction, which goes to the failure
handler.

The middleware is `Admitted`, with the two headers and the exempt paths. A key is a
value; what is told apart is what the way through a header changes (`Presented`). A
bearer token is stripped and the configured key is not, so that a key with white space
around it never matches. The header is decoded as latin-1 and the key encoded as UTF-8,
so that a key with characters outside ASCII matches only if the client sends it in
latin-1 (the model lets it, also for characters latin-1 does not have: that only adds
behaviours); httpx, the in-process client, sends UTF-8
(or refuses the header, tests/test_auth.py:122; the tool fails either way). `SetKey` stands for the tests,
which change the key of a running service.

### The others

`Compliance` writes a draft line by line; a line has a label, a flag for a blank
value, the integers that the pattern finds in its value, and what the value proposes to
a reader. The check sees the integers, the properties speak of the proposal: "12-18
months" has the integers 12 and -18 and proposes up to 18. `PolicyLimit` restates the
documents' limits from their prose (general limits, then what a state changes),
not from the lookup tables. A state code may be stored in lower case: the documents
are found by its upper case (`Upper`), the caps by the code as it is, so that the
strict defaults apply to it.

`RiskAssessment` numbers transactions by their start, which is what `assessed_at`
records; rows become visible at the commit, in any order. The background task of
a REST request starts after the answer. An MCP call is answered when the ASGI call
has ended, background task included, because that is when httpx's in-process
transport returns; if the workflow raises, so does the call.

`PolicyChunks` keeps of a character only whether it is white space, and of a section
whether it has a heading: the preamble has none and is dropped as a whole, by design. `Retriever`
lets the scores of the children be anything, and breaks ties in any order.

## Runs

Every run says `CHECK_DEADLOCK FALSE`: the system does stop, when the cases are
closed, the customers scored, the draft written, the bounds reached.

| Run | Shows |
|---|---|
| `Serial` | one officer, failing LLM, the code's limit of 3 revisions, PostgreSQL checkpointer, two workers: signed = shown, approvals finalize, rejections never approve, escalations have a reason, nothing is left pending, every decision is answered, nodes are audited, any worker can resume a case as its row shows it, and the rows implement `CaseLifecycle`, progress included |
| `Restart` | with database errors and dying workers: closing is atomic, final and audited; the first run of a case is alone |
| `Concurrent` | the sign-off invariant with two racing officers and lost acknowledgements |
| `Compliance` | drafts that pass are complete and propose no more than the policy allows, drafts sent back are not so; for values that say their number first |
| `Risk` | storing and reading assessments, with every fault; every case that is owed a workflow gets it, unless its host dies first |
| `PolicyChunks`, `Retriever` | chunks and queries |
| `Service` | two calls of any kind on two connections, from startup to the end of the process, with every fault: no call without its resources, nothing left open, who can wait for whom, the loopback, and that everything ends |

Four runs are expected to find a violation. They check a statement of the
repository's documentation or comments, quoted under "findings" in `PROJECT.json`:

| Run | What happens |
|---|---|
| `TwoOfficersPlan` | two decisions pass the status check together; an APPROVED row ends up with a plan nobody signed |
| `CrashApprove` | a worker dies between the finalize checkpoint and the commit; the case can never be approved |
| `ComplianceBlank` | a blank value swallows the next line, label included: a draft without a citation passes |
| `PoolExhausted` | as many decisions as there are connections wait for each other; the one that gives up cannot escalate its case, since the failure handler needs a connection as well |

### Known limits of the program

The properties above hold under the conditions of their runs. Which conditions are
needed was found by lifting them:

* With a second officer (`Reqs = {r1, r2}`) an approval may also be answered with a
  case that is not APPROVED (`ApproveFinalizes`), and may sign the plan redrafted for
  the other officer, which the first has not seen (`SignedPlanWasShown`).
* With `crash` among the faults an approval may sign a redraft whose row was not yet
  written, so that the officer saw the rejected plan (`SignedPlanWasShown`); and after
  an approval whose run died at its finalize checkpoint, a rejection continues there and
  approves the case (`RejectNeverApproves`).
* With the default memory checkpointer and the two workers of the `Dockerfile`, a case
  under review cannot be resumed by the worker that did not draft it
  (`AwaitingIsResumable`, `SharedCheckpointer = FALSE`).
* With `db` a case may stay in PENDING_CONTEXT: `_build_initial_state` is outside the
  try, and the failure handler needs the database too (`NotSilentlyStuck`).
* A node that raises takes the audit rows of the nodes before it with it; this is why
  `NodesAudited` excepts failed cases.
* Rejections are not bounded by `MAX_REVISIONS`; only the automatic loop is.
* A commit that takes effect but raises stores a case whose workflow is never queued,
  and so does a restart after the commit (`EveryCaseLaunched`, with `ack` or `crash`).
* A prior assessment in the features may have a later `assessed_at` than the one it is
  prior to, when two requests for a customer overlap.
* The flag is chosen, and the threshold compared, before the probability is rounded:
  0.699997 is stored as 0.70000, HIGH; 0.700003 opens a case, and is stored as 0.70000,
  which is not above the threshold. `StoredTogether` holds of the score in the audit row.
* Over MCP the answer to `assess_loan_risk` comes after the workflow has ended; if that
  raises the tool reports an error although the assessment is stored.
* With lost acknowledgements the failure handler closes a case again
  (`ClosedIsFinal`), and an officer may decide a case whose first run is still in its
  handler (`FirstRunIsAlone`): both hold without `ack`.
* A pool that has no connection left answers 500, not the 503 of
  `DatabaseUnavailableError`; and a rejection keeps an idle transaction open as long as
  its LLM call takes.
* An API key with white space around it can be presented as `X-API-Key` only: every
  bearer token is refused, that of the MCP loopback too. An API key with characters
  outside ASCII is refused from every client that sends UTF-8, the MCP loopback among
  them. `LoopbackAdmitted` says that these are all the keys with which tools fail.
* The first run of digits in a value is what the check compares. A value that does not
  say its number first is misread: "12-18" and "1,000" count as 12 and 1 and pass a cap
  they exceed, "15 allowed, 6 proposed" counts as 15 and may be sent back, "eighteen" is
  no number at all. The prompt asks for an integer; nothing enforces it. Both properties
  of the run `Compliance` except such values (`SaysItFirst`), which its drafts contain.
* The issues of a failed check replace the notes of the officer the redraft was made
  for: the next redraft is asked to fix the issues only. `RedraftHasFeedback` says that
  there is feedback, not whose.
* If closing the checkpointer's pool raised, the engine would not be disposed of:
  `shutdown_agent_graph` and `dispose` are in one `finally`. The model assumes that
  closing does not raise.
* A lower-case state code is drafted under its state's document and checked against
  the default caps: nothing over a limit passes, but a draft within the state's limit
  may be sent back until it is escalated.
* Nothing checks the term extension against the documents' 24 months.
* The end of a section longer than a parent is dropped when fewer than 40 characters
  of it remain; no document has such a section. `OnlyScrapsDropped` says that nothing
  else is lost of a section with a heading, unless its text has a gap of more than 730
  blanks in a row.
* A query of stop words retrieves nothing: the fallback to the first k parents is not
  reached, since the vocabulary is built from the children as well.

### Bounds

* One case is enough where properties are about one case: cases share only the
  request slots and the workers.
* Two racing requests are the least for every race; with the background run that is
  three processes on one thread. `RevBound` stops rejections, and so the revision
  count; it exceeds `MaxRevisions` wherever the officers' rejections should reach
  past the limit. The runs with two officers use one draft of each kind and
  a limit of 1, which keeps every edge of the graph reachable. `Serial` has fairness
  because the refinement includes progress, and no symmetry; the symmetry of the
  officers and of the clients is used in the runs without temporal properties only.
* Drafts of four lines hold the two mandatory lines and two more: a number and a
  repeated label. Two POSTs and two clients allow two to race, and the client that is
  done first to read the outcome. Two calls and two connections are the least with
  which calls wait for each other, and a third holder (the failure handler) finds none;
  three keys, one of them padded and one not ASCII, tell apart what the middleware does. `Service` is
  checked with the PostgreSQL checkpointer, which has the pool that must be closed.
  Sections of 16 characters take three parents of 7, with windows of
  5 every 4 characters and a minimum of 3: the order of 1500, 350, 300 and 40 is kept,
  a remainder may be dropped or not, and gaps of up to two blanks are no gaps. Two threads suffice to race for the default retriever.

### Fairness

`FairSpec` has weak fairness for the steps of runs and for the answers: asyncio runs
ready coroutines, and calls to the LLM and the database end, with a result or an
error (the client has a timeout). Nothing obliges a customer to be scored, an
officer to decide, or a fault to happen. `CaseLifecycle` likewise only promises that
a pending case is resolved. `RiskAssessment` has the same for requests and tasks.
In `Service` fairness is given to the steps of a call (a wait for a connection ends
with one or with the pool's timeout, 30 seconds by default), to the startup and the
shutdown once begun, and to the end of draining; not to arrivals, SIGTERM or `Kill`.

## Proofs

`RemediationWorkflow_proofs` proves, for any sets of cases, requests, workers and
plans, either checkpointer, any faults and bounds:

* `TypeCorrect`: `TypeOK` is invariant.
* `SignOffHolds`: `SignOffInvariant` is invariant, and with it `SignedPlansComply`,
  `ApprovedWasSigned` and `RedraftHasFeedback` (three theorems).

Why an invariant of its own is needed: `SignedPlansComply` says nothing of the
checkpoint a resume will continue, which may have been written by another run, in
another worker, before a crash. `NextIsSound` says what the next node relies on: at
human_review the plan is compliant, at finalize it is signed, at plan_remediation
there is feedback if there is a draft. `SignOffInvariant` demands it of every
checkpoint in every store and of every running state, so that it does not matter
which run continues which checkpoint; and that a run whose last node is finalize has
a signature behind it, so that its transaction may write APPROVED. A superstep
preserves it because the new state suits the edge taken (`CheckIsSound`,
`SignOffSuperstep`); other steps write no checkpoint (`SignOffLocal`); for the two
transactions what matters is that `Flushed` can only write an APPROVED that the run
itself assigned. The assumptions are those named in the modules: the plans that
comply are plans, cases and request slots are distinct, there is a worker and a
case. TLC evaluates them in every run of `MCRemediation`.

`RemediationCases_proofs` proves more of the same specification, with any officers,
either checkpointer and hosts that die, for faults that do not include `ack`:

* `FirstRunAlwaysAlone`: `FirstRunIsAlone`, unconditionally.
* `ResolvedExactlyWhenClosed`, `AuditAlwaysMatches`, `ApprovedPlanWasSigned`,
  `EscalationAlwaysHasReason`, `ClosedStaysClosed` (the action property
  `ClosedIsFinal`), as `Spec /\ []DecisionsApart => ...`: of the behaviours in which
  no case is decided by two requests at once.

The two hypotheses are what the code lacks. After a lost acknowledgement the failure
handler of a run that did commit closes the case a second time; and two decisions that
passed the status check together both write the row. The run `TwoOfficersPlan` shows
the second one breaking `ApprovedPlanSignedOff`. `DecisionsApart` does not restrict the
interleaving of different cases, of a decision with the background run of its case, or
of a run with the crash of another.

The properties say nothing of a run that has not reached its transaction, so the
inductive invariants do. `FirstRunInvariant` says that a case whose background run is
under way has a row in PENDING_CONTEXT, which no status check lets pass, and that a
request in progress is about a row which has left that status; without `ack` a
transaction that reaches the failure handler was rolled back. So a background run and a
decision are never at work on the same case (`Alone`), and with `DecisionsApart` no two
processes are. `ClosingInvariant` then says that a decision is made of a case under
review, that the row a run has loaded is the row as it is, that the checkpoint is the
run's own state, and that a run whose last node is finalize holds the plan whose approval
was consumed. `Flushed` therefore writes the columns it should: no other run comes
between its load and its UPDATE.

`RemediationResume_proofs` goes on, under the assumption `Dependable`: nodes may raise
(`llm`), databases and hosts do not fail, and there is one checkpoint store
(PostgreSQL, or one worker). With `DecisionsApart` it proves `ApprovalAlwaysFinalizes`,
`NeverSilentlyStuck`, `NodesAlwaysAudited`, `AwaitingAlwaysResumable` and
`RejectionNeverApproves`; with `OfficersApart`, by which also no second officer holds a
case that is being decided, `SignedPlanWasAlwaysShown`. Each of the three conditions is
needed: "Known limits" lists what happens without it. `ResumeInvariant` relates a case
to its checkpoint: a pending case has its run; a case under review that no run has in
hand is checkpointed before `human_review` with the plan and the revision count of its
row; a run that approves goes from there to finalize with that plan, and no other run
gets to finalize; each node completed is in the audit trail, in the trace the run will
append, or lost with a run that failed. `ShownInvariant` adds that from the
moment an officer reads a case until the approval is consumed, the row still holds the
plan that was shown.

`RowsFollowLifecycle` is the refinement: under the same conditions, `Spec` implies
`Lifecycle!Safety`, the initial states and the steps of `CaseLifecycle` under the
mapping of `RemediationWorkflow`. A transaction maps to the step its row takes, a failure
handler's to `Fail`, everything else to a stutter (one lemma per action). Its liveness,
that a pending case is resolved, stays with TLC.

All four invariants were checked by TLC, with two officers kept apart by a constraint,
before they were proved.

`Compliance_proofs` proves, for any lines and drafts of any length, `TypeCorrect` and, as
`Spec => [](ValuesGiven => ...)`, `PassedAlwaysWithinPolicy` and `NeverNeedlesslyRevised`,
about what the draft proposes. `ValuesGiven` says that no label but the last line's goes
without its value; without it the first is false (`ComplianceBlank`). Then
`_SECTION_PATTERN` matches every labelled line: the recursion in `Matches` has one
solution (`MatchesAll`). The rest relates the field of a label to the line that counts
for it, the integer taken from it to what it proposes (equal, by `SaysItFirst`), and the
caps to the documents' limits.

`PolicyChunks_proofs` proves the three properties of chunking for sections of any
length and for all constants in the order the code's have (minimum < stride < window <
parent). They need two facts about multiples of a step (`NextMultiple`,
`MultiplesApart`) and that a bounded set of positions has a first and a last one. For
`OnlyScrapsDropped`: the chunk a dropped character is in (`LastMultiple`) is too short,
so that if it were not the last one, blanks would fill more than half of the rest of it
on one side, and `NoGaps` excludes that.

`Retriever_proofs` proves `TypeCorrect`, `AlwaysWholeScopeOnly`, `BestParentsAlwaysFirst`
and `AlwaysSomethingRetrieved` for any number of threads, any corpus, every k and all
scores. `RetrieverInvariant` says that the default retriever is none or a finished one,
and what an answered call has computed; the properties follow from it. `KeptAfter` is the
invariant of the loop over the ranked children: every scoring child so far has its
parent in the list, and of two parents in it the earlier has a ranked child before each
of the later's. The assumptions about the corpus: there is a general document whose
name no state's has, parents are not shared between documents, and each has a child.

What folds and recursive functions compute is proved by a smallest counterexample: the
naturals are well founded (`NatLessThanWellFounded`, `WFMin`), so if a fact about the
first n elements failed for some n, it would fail for a first one. `FoldExists` uses it to
show that the function by which `FoldLeft` is defined exists.

`Service_proofs` proves, for any calls, keys, pool size, either checkpointer backend
and any faults:

* `ServiceTypeCorrect`: `TypeOK` is invariant.
* `WorkAlwaysHasResources`, `NothingIsLeftOpen`, `StallAlwaysTakesDecisions`,
  `LoopbackAlwaysAdmitted`: the properties of the run `Service`, its liveness excepted.

They rest on `ServiceInv`. `NothingLeftOpen` says what is open when the process is down
only; to be inductive it needs what is open before every step (`Opened`), and that the
graph exists exactly in the stages between its creation and its shutdown
(`ProcessInv`). `WorkHasResources` needs that calls are under way while the process
serves or drains only (`ServedInv`). How many connections a call holds is a function
of where it is (`CallInv`): one for its request's session, if that has an open
transaction, and one for the session of `run_case`. When the pool is stalled, every
connection in use is then a decision's first one, so that the connections map onto the
decisions (`StalledHolders`), and a count of both gives the bound. The assumptions:
finitely many calls, a pool with a connection, padded and non-ASCII keys are keys.

`RiskAssessment_proofs` proves, for any clients, customers, scores and faults and any
number of POSTs:

* `RiskTypeCorrect`: `TypeOK` is invariant.
* `AlwaysStoredTogether`, `AnswerAlwaysShowsCase`, `ReadsNeverGoBackHolds`: the
  properties of the run `Risk`, its liveness excepted.

They rest on `RiskInv`. A commit must not disturb an assessment stored earlier: its
number is fresh, since transactions under way have numbers of their own (`Apart`), up
to the clock (`Numbered`), that no assessment has yet. What a request holds depends on
where it is (`RunFits`): which audit rows its transaction has, whether it has opened
a case, and that what it tells or has read is committed, and is not older than what
its client knew. A read goes back only if the latest assessment of a customer could be
older than one a client was told of; what clients know is committed (`KnowsCommitted`),
and the latest is the maximum. That there is a latest one (`HasLatest`) is part of the
invariant: as a fact about finite sets it would need induction, while a new assessment
either is the latest or leaves it as it was. The assumptions: there is a customer, and
scores are probabilities.

Only model-checked: liveness (`DecisionAnswered`, `EveryCaseLaunched`, `NothingHangs` and
the progress `CaseLifecycle` promises). Liveness under weak fairness needs ENABLED,
which the prover does not reason about. Every other property of a passing run is
stated by a theorem, some of them under the hypotheses given above, which TLC's runs
meet by their constants: `Serial` and `Restart` have one request slot, and the lines of
`Compliance` have their values.

## Not modelled, and why

* LangGraph, SQLAlchemy, asyncpg, httpx, uvicorn: as the code in `src/` uses them, marked
  external in `PROJECT.json`. Assumed of LangGraph: a checkpoint is written for each
  superstep before the next one starts.
* Numbers inside XGBoost and scikit-learn: a score is any member of a set.
  Of uvicorn: a graceful shutdown waits for the ASGI calls under way. Of the MCP
  session manager: a tool runs in its task group, which is cancelled when the manager
  is closed. Of SQLAlchemy's pool: a checkout waits for `pool_timeout` at most.
* The checkpointer's own pool of five connections: a superstep takes one for a
  statement at a time and never waits for another while it holds one.
* The retry loop of `draft_remediation_plan` and its client singleton: sequential code
  that keeps no state; a draft arrives or a node raises.
* `ml/train.py` and `ml/generate_dataset.py` (offline floating-point statistics), and
  `scripts/` (one transaction of independent inserts, a comparison of version strings, DDL).
* Logging, error envelopes, schemas, configuration: no state of their own.

## Plan

1. Done: the models of all components listed as modelled, their runs, and a theorem for
   every safety property of the runs.
2. Theorems: which of the hypotheses can be weakened. `NodesAudited` and
   `AwaitingIsResumable` should survive a host that dies before the first superstep of
   a decision; `ValuesGiven` could be required of the lines that count only.
3. A composition: `RiskAssessment` as the environment that opens the cases of
   `RemediationWorkflow`. They already share what matters, since the workflow's `OpenCase`
   is the risk API's commit.
