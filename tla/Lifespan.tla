------------------------------- MODULE Lifespan -------------------------------
(***************************************************************************)
(* Startup and shutdown of one worker process (src/app/main.py, with       *)
(* init_agent_graph and shutdown_agent_graph of src/app/agent/graph.py).   *)
(*                                                                         *)
(* An action is what happens from one await to the next.  A failing step   *)
(* unwinds what was entered before it.  The engine is only an object until *)
(* a call checks out its first connection, so that a startup that fails    *)
(* before the try has no connection to dispose of.                         *)
(***************************************************************************)
CONSTANTS Persistent,      \* settings.checkpointer_backend is "postgres"
          Faults           \* a subset of {"model", "setup", "sessions", "kill", ...}

ASSUME LifespanAssumption == Persistent \in BOOLEAN

VARIABLES
  stage,      \* the startup or shutdown step to come
  open,       \* what is open: pool is the checkpointer's, engine the engine's connections
  compiled    \* _graph_state["compiled"] is not None

lifespanVars == <<stage, open, compiled>>

Stages == {"down", "model", "graph", "setup", "client", "sessions", "serving",
           "draining", "exit_client", "exit_graph", "exit_engine"}

LifespanTypeOK ==
  /\ stage \in Stages
  /\ open \subseteq {"pool", "client", "sessions", "engine"}
  /\ compiled \in BOOLEAN

LifespanInit == stage = "down" /\ open = {} /\ compiled = FALSE

\* What get_compiled_graph returns works.
GraphUsable == compiled /\ (Persistent => "pool" \in open)

BuildEngine == stage = "down" /\ stage' = "model" /\ UNCHANGED <<open, compiled>>

\* RiskModel: the artifacts may be missing.
LoadModel ==
  /\ stage = "model"
  /\ stage' \in {"graph"} \union (IF "model" \in Faults THEN {"down"} ELSE {})
  /\ UNCHANGED <<open, compiled>>

\* Returns early if there is a graph; otherwise enters _checkpointer_cm, which opens
\* the pool if the backend has one.
InitAgentGraph ==
  /\ stage = "graph"
  /\ IF compiled \/ ~Persistent
     THEN stage' = "client" /\ compiled' = TRUE /\ UNCHANGED open
     ELSE stage' = "setup" /\ open' = open \union {"pool"} /\ UNCHANGED compiled

\* saver.setup(): the database may be unreachable, and the pool is closed again.
SetupCheckpointer ==
  /\ stage = "setup"
  /\ \/ stage' = "client" /\ compiled' = TRUE /\ UNCHANGED open
     \/ /\ "setup" \in Faults
        /\ stage' = "down" /\ open' = open \ {"pool"} /\ UNCHANGED compiled

EnterClient ==
  /\ stage = "client"
  /\ stage' = "sessions" /\ open' = open \union {"client"} /\ UNCHANGED compiled

\* Mutant of EnterSessions: the lifespan has no finally.
EnterSessionsUnprotected ==
  /\ stage = "sessions"
  /\ \/ stage' = "serving" /\ open' = open \union {"sessions"}
     \/ "sessions" \in Faults /\ stage' = "down" /\ UNCHANGED open
  /\ UNCHANGED compiled

\* The session manager may refuse to run (it does the second time in a process).
EnterSessions ==
  /\ stage = "sessions"
  /\ \/ stage' = "serving" /\ open' = open \union {"sessions"}
     \/ "sessions" \in Faults /\ stage' = "exit_client" /\ UNCHANGED open
  /\ UNCHANGED compiled

\* uvicorn is told to stop: it accepts no more calls and waits for those under way.
Sigterm == stage = "serving" /\ stage' = "draining" /\ UNCHANGED <<open, compiled>>

ExitClient ==
  /\ stage = "exit_client"
  /\ stage' = "exit_graph" /\ open' = open \ {"client"} /\ UNCHANGED compiled

ShutdownAgentGraph ==
  /\ stage = "exit_graph"
  /\ stage' = "exit_engine" /\ open' = open \ {"pool"} /\ compiled' = FALSE

DisposeEngine ==
  /\ stage = "exit_engine"
  /\ stage' = "down" /\ open' = open \ {"engine"} /\ UNCHANGED compiled

LifespanStep ==
  \/ LoadModel \/ InitAgentGraph \/ SetupCheckpointer \/ EnterClient \/ EnterSessions
  \/ ExitClient \/ ShutdownAgentGraph \/ DisposeEngine
===============================================================================
