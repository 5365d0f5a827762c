-------------------------------- MODULE Service --------------------------------
(***************************************************************************)
(* One worker process serving calls: the API key middleware (src/app/      *)
(* auth.py), the MCP tools that call the REST routes in process            *)
(* (src/app/mcp/server.py), and the engine's connections (src/app/db/      *)
(* engine.py) as the routes and run_case hold them, from the startup of    *)
(* the process to its shutdown.                                            *)
(*                                                                         *)
(* What the routes do to the cases is in RiskAssessment and                *)
(* RemediationWorkflow; here a call is where it is in its route and how    *)
(* many connections it holds.                                              *)
(***************************************************************************)
EXTENDS Lifespan, Integers, FiniteSets

CONSTANTS Calls,
          Keys, NoKey,    \* API keys, and settings.api_key unset
          Padded,         \* the keys with white space around them
          NonAscii,       \* the keys with characters outside ASCII
          PoolSize        \* pool_size + max_overflow

ASSUME ServiceAssumption ==
  /\ Padded \union NonAscii \subseteq Keys /\ NoKey \notin Keys
  /\ IsFiniteSet(Calls) /\ PoolSize \in Nat \ {0}
  /\ Faults \subseteq {"model", "setup", "sessions", "kill", "db", "llm", "disconnect"}

VARIABLES
  key,     \* settings.api_key
  call     \* the calls under way

vars == <<stage, open, compiled, key, call>>

\* health: GET /healthz.  read: a GET.  assess: a POST that scores a customer, with the
\* background task it may leave.  decide: an approval or a rejection.
Ops == {"health", "read", "assess", "decide"}

\* tool: an MCP tool about to call its route; probe: in the health route.
\* Waiting for a connection: route (of the route's session), load (_build_initial_state),
\* persist (run_case's session), failing (its failure_session).
\* With it: query, loading, writing, escalating.  graph: streaming the graph.
\* refresh: a decision's last read.
Waiting == {"route", "load", "persist", "failing"}
PCs == Waiting \union {"idle", "probe", "tool", "query", "loading", "graph", "writing",
                       "escalating", "refresh"}

Call == [pc : PCs, op : Ops, surface : {"rest", "mcp"},
         attached : BOOLEAN,    \* its ASGI call is still running
         held : 0..2]           \* connections

TypeOK ==
  /\ LifespanTypeOK
  /\ key \in Keys \union {NoKey}
  /\ call \in [Calls -> Call]

Idle == [pc |-> "idle", op |-> "read", surface |-> "rest", attached |-> FALSE, held |-> 0]

Busy(c) == call[c].pc # "idle"

\* The connections in use, each named by its holder.
InUse == {h \in Calls \X {1, 2} : h[2] <= call[h[1]].held}

Free == PoolSize - Cardinality(InUse)

Go(c, pc, held) == call' = [call EXCEPT ![c].pc = pc, ![c].held = held]

\* The sessions are closed whichever way a call ends.
End(c) == call' = [call EXCEPT ![c] = Idle]

-----------------------------------------------------------------------------
(* The middleware *)

\* What _presented_key makes of a key a client sends.  The header is decoded as latin-1:
\* of a key sent in UTF-8 every byte becomes a character, which outside ASCII changes it.
\* A bearer token is stripped, which changes a padded key.  What a key is changed to is
\* never the key itself; it stands for no key here, since another key it may happen to
\* be can be sent as it is.
Presented(scheme, encoding, value) ==
  IF \/ encoding = "utf-8" /\ value \in NonAscii
     \/ scheme = "bearer" /\ value \in Padded
  THEN NoKey ELSE value

Admitted(exempt, scheme, encoding, value) ==
  key = NoKey \/ exempt \/ Presented(scheme, encoding, value) = key

\* A request the middleware admits; one that it rejects changes nothing.
Arrive(c, op, surface) ==
  /\ stage = "serving" /\ ~Busy(c)
  /\ \E scheme \in {"bearer", "x-api-key"}, encoding \in {"latin-1", "utf-8"},
        value \in Keys \union {NoKey} :
       Admitted(op = "health", scheme, encoding, value)
  /\ op = "health" => surface = "rest"
  /\ call' = [call EXCEPT ![c] =
       [pc |-> CASE op = "health" -> "probe" [] surface = "mcp" -> "tool" [] OTHER -> "route",
        op |-> op, surface |-> surface, attached |-> TRUE, held |-> 0]]
  /\ UNCHANGED <<lifespanVars, key>>

\* Mutant of InternalKey: the in-process client has no auth.
InternalKeyMissing == NoKey

\* InternalAuth reads the key when the request is sent.
InternalKey == key

\* A tool calls its route, through the middleware like everyone.  httpx encodes a header
\* in UTF-8, or refuses one that is not ASCII: the tool ends with an error either way.
Loopback(c) ==
  /\ call[c].pc = "tool"
  /\ IF Admitted(FALSE, "bearer", "utf-8", InternalKey) THEN Go(c, "route", 0) ELSE End(c)
  /\ UNCHANGED <<lifespanVars, key>>

\* The key may be changed while calls are under way, as the tests do.
SetKey(k) == key # k /\ key' = k /\ UNCHANGED <<lifespanVars, call>>
-----------------------------------------------------------------------------
(* The routes, run_case, and their connections *)

Probe(c) == call[c].pc = "probe" /\ End(c) /\ UNCHANGED <<lifespanVars, key>>

\* What a call goes on to with the connection it waited for.
Granted == [route |-> "query", load |-> "loading", persist |-> "writing", failing |-> "escalating"]

\* A free connection is taken, and the first statement sent.
Checkout(c) ==
  /\ call[c].pc \in Waiting /\ Free > 0
  /\ Go(c, Granted[call[c].pc], call[c].held + 1)
  /\ open' = open \union {"engine"}
  /\ UNCHANGED <<stage, compiled, key>>

\* Mutant of PoolTimeout: the engine has no pool_timeout.
PoolTimeoutNever(c) == FALSE

\* None comes free in time: the statement raises.  Only run_case's own session is
\* inside the try; the failure handler is not.
PoolTimeout(c) ==
  /\ call[c].pc \in Waiting /\ Free = 0
  /\ IF call[c].pc = "persist" THEN Go(c, "failing", call[c].held) ELSE End(c)
  /\ UNCHANGED <<lifespanVars, key>>

\* Mutant of Query: the task is started with the request's session still in use.
QueryHolding(c) ==
  /\ call[c].pc = "query"
  /\ \/ End(c)
     \/ call[c].op = "assess" /\ Go(c, "load", 1)
     \/ call[c].op = "decide" /\ Go(c, "graph", 1)
  /\ UNCHANGED <<lifespanVars, key>>

\* The route's statements: it answers (404, 409 and 503 included), or commits a case
\* and leaves a task, or goes on to run_case, its transaction still open.
Query(c) ==
  /\ call[c].pc = "query"
  /\ \/ End(c)
     \/ call[c].op = "assess" /\ Go(c, "load", 0)
     \/ call[c].op = "decide" /\ Go(c, "graph", 1)
  /\ UNCHANGED <<lifespanVars, key>>

\* _build_initial_state, outside the try.
Load(c) ==
  /\ call[c].pc = "loading"
  /\ \/ Go(c, "graph", call[c].held - 1)
     \/ "db" \in Faults /\ End(c)
  /\ UNCHANGED <<lifespanVars, key>>

\* The stream ends, or a node raises; the engine is not used meanwhile.
Stream(c) ==
  /\ call[c].pc = "graph"
  /\ \/ Go(c, "persist", call[c].held)
     \/ "llm" \in Faults /\ Go(c, "failing", call[c].held)
  /\ UNCHANGED <<lifespanVars, key>>

\* run_case's session and its failure_session give their connection back; a decision
\* reads the case once more with the one it has kept.
Leave(c) == IF call[c].op = "decide" THEN Go(c, "refresh", call[c].held - 1) ELSE End(c)

\* Mutant of Write: the failure path closes the request's session too.
WriteClosingBoth(c) ==
  /\ call[c].pc = "writing"
  /\ \/ Leave(c)
     \/ "db" \in Faults /\ Go(c, "failing", call[c].held - 2)
  /\ UNCHANGED <<lifespanVars, key>>

Write(c) ==
  /\ call[c].pc = "writing"
  /\ \/ Leave(c)
     \/ "db" \in Faults /\ Go(c, "failing", call[c].held - 1)
  /\ UNCHANGED <<lifespanVars, key>>

Escalate(c) ==
  /\ call[c].pc = "escalating"
  /\ \/ Leave(c)
     \/ "db" \in Faults /\ End(c)
  /\ UNCHANGED <<lifespanVars, key>>

Refresh(c) == call[c].pc = "refresh" /\ End(c) /\ UNCHANGED <<lifespanVars, key>>

CallStep(c) ==
  \/ Loopback(c) \/ Probe(c) \/ Checkout(c) \/ PoolTimeout(c) \/ Query(c) \/ Load(c)
  \/ Stream(c) \/ Write(c) \/ Escalate(c) \/ Refresh(c)

-----------------------------------------------------------------------------
(* Calls and the life of the process *)

\* The client of an MCP call goes away: the tool runs on in the session manager's
\* task group.  A REST route runs on in its ASGI call.
Disconnect(c) ==
  /\ "disconnect" \in Faults
  /\ call[c].attached /\ call[c].surface = "mcp"
  /\ call' = [call EXCEPT ![c].attached = FALSE]
  /\ UNCHANGED <<lifespanVars, key>>

\* Mutant of ExitSessions: the manager does not cancel its tasks.
ExitSessionsDetached ==
  /\ stage = "draining" /\ \A c \in Calls : ~call[c].attached
  /\ stage' = "exit_client" /\ open' = open \ {"sessions"}
  /\ UNCHANGED <<compiled, key, call>>

\* When the last ASGI call has ended, background task included, the exit stack is
\* unwound: the session manager first, which cancels what is left in its task group.
ExitSessions ==
  /\ stage = "draining" /\ \A c \in Calls : ~call[c].attached
  /\ stage' = "exit_client" /\ open' = open \ {"sessions"}
  /\ call' = [c \in Calls |-> Idle]
  /\ UNCHANGED <<compiled, key>>

\* The process is killed, as it is when draining takes too long.
Kill ==
  /\ "kill" \in Faults /\ stage # "down"
  /\ stage' = "down" /\ open' = {} /\ compiled' = FALSE
  /\ call' = [c \in Calls |-> Idle]
  /\ UNCHANGED key

Init ==
  /\ LifespanInit
  /\ key \in Keys \union {NoKey}
  /\ call = [c \in Calls |-> Idle]

Next ==
  \/ (BuildEngine \/ LifespanStep \/ Sigterm) /\ UNCHANGED <<key, call>>
  \/ ExitSessions \/ Kill
  \/ \E k \in Keys \union {NoKey} : SetKey(k)
  \/ \E c \in Calls : \/ \E op \in Ops, surface \in {"rest", "mcp"} : Arrive(c, op, surface)
                      \/ CallStep(c) \/ Disconnect(c)

Spec == Init /\ [][Next]_vars

\* The event loop goes on; the LLM and the database answer or fail, and the pool's
\* waiters get a connection or give up.  Nobody has to call, to start or to stop the
\* process.
FairSpec ==
  /\ Spec
  /\ WF_vars(LifespanStep /\ UNCHANGED <<key, call>>)
  /\ WF_vars(ExitSessions)
  /\ \A c \in Calls : WF_vars(CallStep(c))

-----------------------------------------------------------------------------

\* No call is ever under way without what it works with, in whatever order calls,
\* disconnections and the steps of the shutdown come: the graph and its pool, for a
\* tool also the in-process client and the session manager, and the engine not
\* disposed of while it has a connection.
WorkHasResources ==
  \A c \in Calls : Busy(c) =>
    /\ GraphUsable
    /\ call[c].surface = "mcp" => {"client", "sessions"} \subseteq open
    /\ call[c].held > 0 => "engine" \in open

\* Whatever step of the startup fails, and however the process ends, nothing it
\* opened stays open, and the next start builds a graph of its own.
NothingLeftOpen == stage = "down" => open = {} /\ ~compiled

\* Every connection of the pool is held by a call that waits for another one.
Stalled == Free = 0 /\ \A c \in Calls : call[c].held > 0 => call[c].pc \in Waiting

\* Only decisions, which keep the connection of their status check while run_case
\* asks for a second one, can wait for each other, and it takes as many of them as
\* the pool has connections: any fewer, with any other calls and tasks, never do.
StallTakesDecisions ==
  Stalled => Cardinality({c \in Calls : Busy(c) /\ call[c].op = "decide"}) >= PoolSize

\* A tool ends without having called its route, though the process goes on.
Refused(c) == call[c].pc = "tool" /\ call'[c].pc = "idle" /\ stage' = stage

\* The keys that are not what a bearer token in UTF-8 is read as.
Unpresentable == Padded \union NonAscii

\* A tool gets through to its route.
Entered(c) == call[c].pc = "tool" /\ call'[c].pc = "route"

\* A tool's call of its own route is admitted by the middleware exactly when the key is
\* ASCII without white space around it, or unset, also when the key has changed since
\* the client was admitted, or the process is draining.  Any other key is one that the
\* in-process client cannot present, whatever the tool's own client could.
LoopbackAdmitted ==
  [][\A c \in Calls : /\ Refused(c) => key \in Unpresentable
                      /\ Entered(c) => key \notin Unpresentable]_vars

\* Calls that wait for each other's connections give up in the end, every call ends,
\* and a process told to stop stops.
NothingHangs ==
  /\ \A c \in Calls : Busy(c) ~> ~Busy(c)
  /\ stage = "draining" ~> stage = "down"

\* What the docstring of run_case says: a failure escalates the case.
FailureEscalates ==
  [][\A c \in Calls : call[c].pc = "failing" => call'[c].pc \in {"failing", "escalating"}]_vars
===============================================================================
