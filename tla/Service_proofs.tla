----------------------------- MODULE Service_proofs -----------------------------
(***************************************************************************)
(* Proofs about Service, for any calls, keys, pool size, backend and       *)
(* faults.                                                                 *)
(***************************************************************************)
EXTENDS Service, TLAPS, FiniteSetTheorems

USE LifespanAssumption, ServiceAssumption

\* A step of the process that leaves the calls alone.
ProcessStep == (BuildEngine \/ LifespanStep \/ Sigterm) /\ UNCHANGED <<key, call>>

\* The steps of a call that leave the process alone.
RouteStep(c) ==
  \/ Loopback(c) \/ Probe(c) \/ PoolTimeout(c) \/ Query(c) \/ Load(c) \/ Stream(c)
  \/ Write(c) \/ Escalate(c) \/ Refresh(c) \/ Disconnect(c)

Arrival(c) == \E op \in Ops, surface \in {"rest", "mcp"} : Arrive(c, op, surface)

KeyChange == \E k \in Keys \union {NoKey} : SetKey(k)

\* What is open before the startup or shutdown step to come, the engine apart.
Opened ==
  LET pool == IF Persistent THEN {"pool"} ELSE {}
  IN [s \in Stages |->
        CASE s \in {"down", "model", "graph", "exit_engine"} -> {}
          [] s = "setup"                                    -> {"pool"}
          [] s \in {"client", "exit_graph"}                 -> pool
          [] s \in {"sessions", "exit_client"}              -> pool \union {"client"}
          [] OTHER -> pool \union {"client", "sessions"}]

HasGraph == {"client", "sessions", "serving", "draining", "exit_client", "exit_graph"}

ProcessInv ==
  /\ open \ {"engine"} = Opened[stage]
  /\ "engine" \in open =>
       stage \in {"serving", "draining", "exit_client", "exit_graph", "exit_engine"}
  /\ compiled <=> stage \in HasGraph
  /\ stage = "setup" => Persistent

\* The connections a call holds: its request's, and run_case's own.
OfRequest(k) ==
  IF \/ k.pc = "query"
     \/ /\ k.op = "decide"
        /\ k.pc \in {"graph", "persist", "writing", "failing", "escalating", "refresh"}
  THEN 1 ELSE 0

OfRun(k) == IF k.pc \in {"loading", "writing", "escalating"} THEN 1 ELSE 0

CallInv(k) ==
  /\ k.held = OfRequest(k) + OfRun(k)
  /\ k.pc \in {"load", "loading"} => k.op = "assess"
  /\ k.pc = "refresh" => k.op = "decide"
  /\ k.attached => k.pc # "idle"

\* Calls are under way only while the process serves or drains, and hold connections
\* only once the engine has been used.
ServedInv ==
  \A c \in Calls : /\ Busy(c) => stage \in {"serving", "draining"}
                   /\ call[c].held > 0 => "engine" \in open

ServiceInv == TypeOK /\ ProcessInv /\ (\A c \in Calls : CallInv(call[c])) /\ ServedInv
-----------------------------------------------------------------------------

\* The next-state relation by kind of step.
LEMMA NextKinds ==
  ASSUME Next
  PROVE  \/ ProcessStep \/ ExitSessions \/ Kill \/ KeyChange
         \/ \E c \in Calls : Arrival(c) \/ Checkout(c) \/ RouteStep(c)
BY DEF Next, ProcessStep, KeyChange, Arrival, CallStep, RouteStep

\* An idle call holds nothing.
LEMMA IdleFits == Idle \in Call /\ CallInv(Idle)
BY DEF Idle, Call, PCs, Waiting, Ops, CallInv, OfRequest, OfRun

\* The call c becomes one that is well-typed, holds what its place says, and no more
\* connections than before.
Moves(c, k) ==
  /\ k \in Call /\ CallInv(k) /\ k.held <= call[c].held
  /\ call' = [call EXCEPT ![c] = k]

\* An ended call is such a step.
LEMMA EndMoves ==
  ASSUME ServiceInv, NEW c \in Calls, End(c)
  PROVE  \E k \in Call : Moves(c, k)
<1>1. call[c].held \in 0..2 /\ Idle.held = 0
  BY DEF ServiceInv, TypeOK, Call, Idle
<1>2. Moves(c, Idle)
  BY IdleFits, <1>1 DEF End, Moves
<1> QED
  BY IdleFits, <1>2

\* So is a call that goes on to a place where it holds no more than before.
LEMMA GoMoves ==
  ASSUME ServiceInv, NEW c \in Calls, NEW pc \in PCs, NEW held \in 0..2,
         Go(c, pc, held), held <= call[c].held,
         CallInv([call[c] EXCEPT !.pc = pc, !.held = held])
  PROVE  \E k \in Call : Moves(c, k)
<1> DEFINE k == [call[c] EXCEPT !.pc = pc, !.held = held]
<1>1. call[c] \in Call /\ call \in [Calls -> Call]
  BY DEF ServiceInv, TypeOK
<1>2. k \in Call /\ k.held = held
  BY <1>1 DEF Call
<1>3. call' = [call EXCEPT ![c] = k]
  BY <1>1 DEF Go
<1> QED
  BY <1>2, <1>3 DEF Moves

\* Every step of a route, of run_case and of a tool is one of these.
LEMMA RouteStepMoves ==
  ASSUME ServiceInv, NEW c \in Calls, RouteStep(c)
  PROVE  Busy(c) /\ \E k \in Call : Moves(c, k)
<1> DEFINE Goal == \E k \in Call : Moves(c, k)
           At(pc, held) == [call[c] EXCEPT !.pc = pc, !.held = held]
<1>0. /\ call[c] \in Call /\ CallInv(call[c])
      /\ call[c].held \in 0..2 /\ call[c].pc \in PCs /\ call[c].op \in Ops
  BY DEF ServiceInv, TypeOK, Call
<1>a. ASSUME NEW pc, NEW held
      PROVE  /\ At(pc, held).pc = pc /\ At(pc, held).held = held
             /\ At(pc, held).op = call[c].op /\ At(pc, held).attached = call[c].attached
  BY <1>0 DEF Call
<1>b. ASSUME NEW pc \in PCs, NEW held \in 0..2, Go(c, pc, held), held <= call[c].held,
             CallInv(At(pc, held))
      PROVE  Goal
  BY <1>b, GoMoves
<1>c. ASSUME End(c) PROVE Goal
  BY <1>c, EndMoves
<1> HIDE DEF At, Goal
<1>1. CASE Loopback(c)
  <2>1. CallInv(At("route", 0)) /\ "route" \in PCs /\ 0 \in 0..2 /\ 0 <= call[c].held
    BY <1>a, <1>0 DEF CallInv, OfRequest, OfRun, PCs, Waiting
  <2>2. Go(c, "route", 0) => Goal
    BY <1>b, <2>1
  <2>3. Goal
    BY <1>1, <1>c, <2>2 DEF Loopback
  <2> QED
    BY <1>1, <2>3 DEF Loopback, Busy, Goal
<1>2. CASE Probe(c)
  BY <1>2, <1>c DEF Probe, Busy, Goal
<1>3. CASE PoolTimeout(c)
  <2>1. call[c].pc = "persist" => CallInv(At("failing", call[c].held))
    BY <1>0, <1>a DEF CallInv, OfRequest, OfRun
  <2>2. call[c].pc = "persist" /\ Go(c, "failing", call[c].held) => Goal
    BY <1>0, <1>b, <2>1 DEF PCs, Waiting
  <2>3. Goal
    BY <1>3, <1>c, <2>2 DEF PoolTimeout
  <2> QED
    BY <1>3, <2>3 DEF PoolTimeout, Busy, Goal, Waiting
<1>4. CASE Query(c)
  <2>1. /\ call[c].pc = "query" => call[c].held = 1
        /\ call[c].op = "assess" => CallInv(At("load", 0))
        /\ call[c].op = "decide" => CallInv(At("graph", 1))
    BY <1>0, <1>a DEF CallInv, OfRequest, OfRun
  <2>2. call[c].pc = "query" /\ call[c].op = "assess" /\ Go(c, "load", 0) => Goal
    BY <1>0, <1>b, <2>1 DEF PCs, Waiting
  <2>3. call[c].pc = "query" /\ call[c].op = "decide" /\ Go(c, "graph", 1) => Goal
    BY <1>0, <1>b, <2>1 DEF PCs, Waiting
  <2>4. Goal
    BY <1>4, <1>c, <2>2, <2>3 DEF Query
  <2> QED
    BY <1>4, <2>4 DEF Query, Busy, Goal
<1>5. CASE Load(c)
  <2>1. call[c].pc = "loading" => call[c].held = 1 /\ CallInv(At("graph", 0))
    BY <1>0, <1>a DEF CallInv, OfRequest, OfRun
  <2>2. call[c].pc = "loading" /\ Go(c, "graph", call[c].held - 1) => Goal
    BY <1>0, <1>b, <2>1 DEF PCs, Waiting
  <2>3. Goal
    BY <1>5, <1>c, <2>2 DEF Load
  <2> QED
    BY <1>5, <2>3 DEF Load, Busy, Goal
<1>6. CASE Stream(c)
  <2>1. call[c].pc = "graph" => /\ CallInv(At("persist", call[c].held))
                                /\ CallInv(At("failing", call[c].held))
    BY <1>0, <1>a DEF CallInv, OfRequest, OfRun
  <2>2. call[c].pc = "graph" /\ Go(c, "persist", call[c].held) => Goal
    BY <1>0, <1>b, <2>1 DEF PCs, Waiting
  <2>3. call[c].pc = "graph" /\ Go(c, "failing", call[c].held) => Goal
    BY <1>0, <1>b, <2>1 DEF PCs, Waiting
  <2>4. Goal
    BY <1>6, <2>2, <2>3 DEF Stream
  <2> QED
    BY <1>6, <2>4 DEF Stream, Busy, Goal
<1>d. call[c].pc \in {"writing", "escalating"} =>
        /\ call[c].held - 1 \in 0..2 /\ call[c].held - 1 <= call[c].held
        /\ CallInv(At("failing", call[c].held - 1))
        /\ call[c].op = "decide" => CallInv(At("refresh", call[c].held - 1))
  BY <1>0, <1>a DEF CallInv, OfRequest, OfRun
<1>e. ASSUME call[c].pc \in {"writing", "escalating"}, Leave(c) PROVE Goal
  <2>1. call[c].op = "decide" /\ Go(c, "refresh", call[c].held - 1) => Goal
    BY <1>b, <1>d, <1>e DEF PCs, Waiting
  <2> QED
    BY <1>c, <1>e, <2>1 DEF Leave
<1>f. ASSUME call[c].pc \in {"writing", "escalating"}, Go(c, "failing", call[c].held - 1)
      PROVE  Goal
  BY <1>b, <1>d, <1>f DEF PCs, Waiting
<1>7. CASE Write(c)
  BY <1>7, <1>e, <1>f DEF Write, Busy, Goal
<1>8. CASE Escalate(c)
  BY <1>8, <1>c, <1>e DEF Escalate, Busy, Goal
<1>9. CASE Refresh(c)
  BY <1>9, <1>c DEF Refresh, Busy, Goal
<1>10. CASE Disconnect(c)
  <2> DEFINE k == [call[c] EXCEPT !.attached = FALSE]
  <2>1. /\ k \in Call /\ k.held = call[c].held /\ k.pc = call[c].pc /\ k.op = call[c].op
        /\ ~k.attached
    BY <1>0 DEF Call
  <2>2. CallInv(k)
    BY <1>0, <2>1 DEF CallInv, OfRequest, OfRun
  <2>3. call' = [call EXCEPT ![c] = k]
    BY <1>10, <1>0 DEF Disconnect, ServiceInv, TypeOK
  <2>4. Moves(c, k)
    BY <1>0, <2>1, <2>2, <2>3 DEF Moves
  <2>5. Busy(c)
    BY <1>0, <1>10 DEF Disconnect, Busy, CallInv
  <2> QED
    BY <2>1, <2>4, <2>5
<1> QED
  BY <1>1, <1>2, <1>3, <1>4, <1>5, <1>6, <1>7, <1>8, <1>9, <1>10 DEF RouteStep

-----------------------------------------------------------------------------

\* The invariant holds when the process has not been started.
LEMMA InvStarts == Init => ServiceInv
<1> SUFFICES ASSUME Init PROVE ServiceInv
  OBVIOUS
<1>1. TypeOK
  BY IdleFits DEF Init, LifespanInit, TypeOK, LifespanTypeOK, Stages
<1>2. ProcessInv
  BY DEF Init, LifespanInit, ProcessInv, Opened, HasGraph, Stages
<1>3. (\A c \in Calls : CallInv(call[c])) /\ ServedInv
  BY IdleFits DEF Init, ServedInv, Busy, Idle
<1> QED
  BY <1>1, <1>2, <1>3 DEF ServiceInv

\* A step of the process leaves open what the next one expects to be open.
LEMMA ProcessStepKeeps ==
  ASSUME ServiceInv, ProcessStep
  PROVE  LifespanTypeOK' /\ ProcessInv'
<1> USE DEF ServiceInv, TypeOK, LifespanTypeOK, ProcessInv, Opened, HasGraph, Stages
<1>1. CASE BuildEngine
  BY <1>1 DEF BuildEngine
<1>2. CASE LoadModel
  BY <1>2 DEF LoadModel
<1>3. CASE InitAgentGraph
  BY <1>3 DEF InitAgentGraph
<1>4. CASE SetupCheckpointer
  <2>1. Opened["setup"] = {"pool"} /\ Opened["client"] = {"pool"} /\ Opened["down"] = {}
    BY <1>4 DEF SetupCheckpointer
  <2>2. stage = "setup" /\ "engine" \notin open /\ open = {"pool"} /\ ~compiled
    BY <1>4, <2>1 DEF SetupCheckpointer
  <2>3. CASE stage' = "client" /\ compiled' = TRUE /\ open' = open
    <3>1. open' \ {"engine"} = Opened[stage']
      BY <2>1, <2>2, <2>3
    <3> QED
      BY <2>2, <2>3, <3>1
  <2>4. CASE stage' = "down" /\ open' = open \ {"pool"} /\ compiled' = compiled
    BY <2>1, <2>2, <2>4
  <2> QED
    BY <1>4, <2>3, <2>4 DEF SetupCheckpointer
<1>5. CASE EnterClient
  BY <1>5 DEF EnterClient
<1>6. CASE EnterSessions
  BY <1>6 DEF EnterSessions
<1>7. CASE Sigterm
  BY <1>7 DEF Sigterm
<1>8. CASE ExitClient
  BY <1>8 DEF ExitClient
<1>9. CASE ShutdownAgentGraph
  BY <1>9 DEF ShutdownAgentGraph
<1>10. CASE DisposeEngine
  BY <1>10 DEF DisposeEngine
<1> QED
  BY <1>1, <1>2, <1>3, <1>4, <1>5, <1>6, <1>7, <1>8, <1>9, <1>10 DEF ProcessStep, LifespanStep

\* It takes the process neither into nor out of the stages in which calls are served,
\* but between them, and the engine is disposed of after them.
LEMMA ProcessStepServes ==
  ASSUME ServiceInv, ProcessStep
  PROVE  ServedInv'
<1>1. call' = call
  BY DEF ProcessStep
<1>2. \/ stage \in {"serving", "draining"} /\ stage' \in {"serving", "draining"} /\ open' = open
      \/ stage \notin {"serving", "draining"}
  BY DEF ProcessStep, LifespanStep, BuildEngine, LoadModel, InitAgentGraph, SetupCheckpointer,
         EnterClient, EnterSessions, Sigterm, ExitClient, ShutdownAgentGraph, DisposeEngine
<1>3. \A c \in Calls : ~Busy(c) => call[c].held = 0
  BY DEF ServiceInv, CallInv, OfRequest, OfRun, Busy
<1> QED
  BY <1>1, <1>2, <1>3 DEF ServiceInv, ServedInv, Busy

\* Steps after which no call is under way.
LEMMA EmptyingKeeps ==
  ASSUME ServiceInv, ExitSessions \/ Kill
  PROVE  ServiceInv'
<1>1. call' = [c \in Calls |-> Idle] /\ key' = key
  BY DEF ExitSessions, Kill
<1>2. LifespanTypeOK' /\ ProcessInv'
  <2>1. CASE Kill
    <3>1. stage' = "down" /\ open' = {} /\ compiled' = FALSE
      BY <2>1 DEF Kill
    <3>2. Opened["down"] = {} /\ "down" \notin HasGraph
      BY DEF Opened, HasGraph, Stages
    <3> QED
      BY <3>1, <3>2 DEF LifespanTypeOK, ProcessInv, Stages
  <2>2. CASE ExitSessions
    <3>1. /\ stage = "draining" /\ stage' = "exit_client"
          /\ open' = open \ {"sessions"} /\ compiled' = compiled
      BY <2>2 DEF ExitSessions
    <3>2. Opened["exit_client"] = Opened["draining"] \ {"sessions"}
      BY DEF Opened, Stages
    <3>3. {"draining", "exit_client"} \subseteq HasGraph
      BY DEF HasGraph
    <3> QED
      BY <3>1, <3>2, <3>3 DEF ServiceInv, TypeOK, LifespanTypeOK, ProcessInv, Stages
  <2> QED
    BY <2>1, <2>2
<1>3. TypeOK'
  BY <1>1, <1>2, IdleFits DEF ServiceInv, TypeOK
<1>4. (\A c \in Calls : CallInv(call[c]))' /\ ServedInv'
  BY <1>1, IdleFits DEF ServedInv, Busy, Idle
<1> QED
  BY <1>2, <1>3, <1>4 DEF ServiceInv

\* A call that arrives is well-typed and holds nothing.
LEMMA ArrivalMoves ==
  ASSUME ServiceInv, NEW c \in Calls, Arrival(c)
  PROVE  (\E k \in Call : Moves(c, k)) /\ stage = "serving"
<1>1. PICK op \in Ops, surface \in {"rest", "mcp"} : Arrive(c, op, surface)
  BY DEF Arrival
<1> DEFINE pc == CASE op = "health" -> "probe" [] surface = "mcp" -> "tool" [] OTHER -> "route"
           k == [pc |-> pc, op |-> op, surface |-> surface, attached |-> TRUE, held |-> 0]
<1>2. pc \in {"probe", "tool", "route"}
  OBVIOUS
<1>3. k \in Call /\ k.held = 0 /\ k.pc = pc
  BY <1>2 DEF Call, PCs, Waiting
<1>4. CallInv(k)
  BY <1>2, <1>3 DEF CallInv, OfRequest, OfRun
<1>5. call[c].held \in 0..2
  BY DEF ServiceInv, TypeOK, Call
<1>6. call' = [call EXCEPT ![c] = k] /\ stage = "serving"
  BY <1>1 DEF Arrive
<1>7. Moves(c, k)
  BY <1>3, <1>4, <1>5, <1>6 DEF Moves
<1> QED
  BY <1>3, <1>6, <1>7

\* A step of one call that leaves the process alone keeps the invariant.
LEMMA MovesKeep ==
  ASSUME ServiceInv, NEW c \in Calls, NEW k \in Call, Moves(c, k),
         stage \in {"serving", "draining"}, UNCHANGED <<lifespanVars, key>>
  PROVE  ServiceInv'
<1>1. call' = [call EXCEPT ![c] = k] /\ call \in [Calls -> Call] /\ k \in Call
  BY DEF Moves, ServiceInv, TypeOK
<1>2. TypeOK' /\ ProcessInv'
  BY <1>1 DEF ServiceInv, TypeOK, LifespanTypeOK, ProcessInv, lifespanVars
<1>3. (\A d \in Calls : CallInv(call[d]))'
  BY <1>1 DEF Moves, ServiceInv
<1>4. k.held > 0 => call[c].held > 0
  BY <1>1 DEF Moves, Call
<1>5. ServedInv'
  BY <1>1, <1>4 DEF ServiceInv, ServedInv, Busy, lifespanVars
<1> QED
  BY <1>2, <1>3, <1>5 DEF ServiceInv

\* Taking a connection from the engine keeps it.
LEMMA CheckoutKeeps ==
  ASSUME ServiceInv, NEW c \in Calls, Checkout(c)
  PROVE  ServiceInv'
<1> DEFINE pc == Granted[call[c].pc]
           k == [call[c] EXCEPT !.pc = pc, !.held = call[c].held + 1]
<1>0. call[c] \in Call /\ call \in [Calls -> Call] /\ CallInv(call[c]) /\ call[c].pc \in Waiting
  BY DEF ServiceInv, TypeOK, Checkout
<1>1. call[c].held \in 0..1
  BY <1>0 DEF CallInv, OfRequest, OfRun, Waiting
<1>a. /\ \/ call[c].pc = "route" /\ pc = "query"
         \/ call[c].pc = "load" /\ pc = "loading"
         \/ call[c].pc = "persist" /\ pc = "writing"
         \/ call[c].pc = "failing" /\ pc = "escalating"
      /\ pc \in PCs
  <2>1. /\ Granted["route"] = "query" /\ Granted["load"] = "loading"
        /\ Granted["persist"] = "writing" /\ Granted["failing"] = "escalating"
    BY DEF Granted
  <2>2. {"query", "loading", "writing", "escalating"} \subseteq PCs
    BY DEF PCs
  <2> QED
    BY <1>0, <2>1, <2>2 DEF Waiting
<1>b. call[c].held + 1 \in 0..2
  BY <1>1
<1>c. Go(c, pc, call[c].held + 1)
  BY DEF Checkout
<1> HIDE DEF pc
<1>2. /\ k \in Call /\ k.pc = pc /\ k.held = call[c].held + 1 /\ k.op = call[c].op
      /\ k.attached = call[c].attached
  BY <1>0, <1>a, <1>b DEF Call
<1>3. CallInv(k)
  BY <1>0, <1>a, <1>2 DEF CallInv, OfRequest, OfRun
<1>d. call' = [call EXCEPT ![c] = k]
  BY <1>0, <1>c DEF Go
<1>4. call' = [call EXCEPT ![c] = k] /\ open' = open \union {"engine"}
      /\ UNCHANGED <<stage, compiled, key>>
  BY <1>d DEF Checkout
<1>5. stage \in {"serving", "draining"}
  BY <1>0 DEF ServiceInv, ServedInv, Busy, Waiting
<1>6. TypeOK' /\ ProcessInv'
  BY <1>0, <1>2, <1>4, <1>5 DEF ServiceInv, TypeOK, LifespanTypeOK, ProcessInv
<1>7. (\A d \in Calls : CallInv(call[d]))' /\ ServedInv'
  BY <1>0, <1>3, <1>4, <1>5 DEF ServiceInv, ServedInv, Busy
<1> QED
  BY <1>6, <1>7 DEF ServiceInv

\* The invariant is inductive.
LEMMA InvStep == ServiceInv /\ [Next]_vars => ServiceInv'
<1> SUFFICES ASSUME ServiceInv, [Next]_vars PROVE ServiceInv'
  OBVIOUS
<1>1. CASE ProcessStep
  BY <1>1, ProcessStepKeeps, ProcessStepServes DEF ServiceInv, TypeOK, ProcessStep
<1>2. CASE ExitSessions \/ Kill
  BY <1>2, EmptyingKeeps
<1>3. CASE KeyChange
  BY <1>3 DEF KeyChange, SetKey, ServiceInv, TypeOK, LifespanTypeOK, ProcessInv, ServedInv,
              Busy, lifespanVars
<1>4. ASSUME NEW c \in Calls, Arrival(c) PROVE ServiceInv'
  <2>1. UNCHANGED <<lifespanVars, key>>
    BY <1>4 DEF Arrival, Arrive
  <2> QED
    BY <1>4, <2>1, ArrivalMoves, MovesKeep
<1>5. ASSUME NEW c \in Calls, Checkout(c) PROVE ServiceInv'
  BY <1>5, CheckoutKeeps
<1>6. ASSUME NEW c \in Calls, RouteStep(c) PROVE ServiceInv'
  <2>1. UNCHANGED <<lifespanVars, key>>
    BY <1>6 DEF RouteStep, Loopback, Probe, PoolTimeout, Query, Load, Stream, Write, Escalate,
                Refresh, Disconnect
  <2>2. Busy(c) /\ \E k \in Call : Moves(c, k)
    BY <1>6, RouteStepMoves
  <2>3. stage \in {"serving", "draining"}
    BY <2>2 DEF ServiceInv, ServedInv
  <2> QED
    BY <2>1, <2>2, <2>3, MovesKeep
<1>7. CASE UNCHANGED vars
  BY <1>7 DEF vars, ServiceInv, TypeOK, LifespanTypeOK, ProcessInv, ServedInv, Busy
<1> QED
  BY <1>1, <1>2, <1>3, <1>4, <1>5, <1>6, <1>7, NextKinds

LEMMA InvHolds == Spec => []ServiceInv
BY InvStarts, InvStep, PTL DEF Spec

-----------------------------------------------------------------------------

\* Type correctness of the process and its calls.
THEOREM ServiceTypeCorrect == Spec => []TypeOK
<1>1. ServiceInv => TypeOK
  BY DEF ServiceInv
<1> QED
  BY <1>1, InvHolds, PTL

\* No call is ever under way without the graph, the checkpointer's pool, the in-process
\* client and the session manager it works with.
THEOREM WorkAlwaysHasResources == Spec => []WorkHasResources
<1>1. ServiceInv => WorkHasResources
  BY DEF ServiceInv, ServedInv, ProcessInv, Opened, HasGraph, Stages, WorkHasResources,
         GraphUsable
<1> QED
  BY <1>1, InvHolds, PTL

\* A process that is down, for whatever reason, has left nothing open.
THEOREM NothingIsLeftOpen == Spec => []NothingLeftOpen
<1>1. ServiceInv => NothingLeftOpen
  BY DEF ServiceInv, ProcessInv, Opened, HasGraph, Stages, NothingLeftOpen
<1> QED
  BY <1>1, InvHolds, PTL

\* When the pool is stalled every connection in use is held by a decision, and no
\* decision holds two.
LEMMA StalledHolders ==
  ASSUME ServiceInv, Stalled
  PROVE  InUse \subseteq {<<c, 1>> : c \in {d \in Calls : Busy(d) /\ call[d].op = "decide"}}
<1> SUFFICES ASSUME NEW h \in InUse
             PROVE  h[2] = 1 /\ Busy(h[1]) /\ call[h[1]].op = "decide"
  BY DEF InUse
<1>1. h[1] \in Calls /\ h[2] \in {1, 2} /\ h[2] <= call[h[1]].held
  BY DEF InUse
<1>2. CallInv(call[h[1]]) /\ call[h[1]].held \in 0..2
  BY <1>1 DEF ServiceInv, TypeOK, Call
<1>3. call[h[1]].pc \in Waiting
  BY <1>1, <1>2 DEF Stalled
<1> QED
  BY <1>1, <1>2, <1>3 DEF CallInv, OfRequest, OfRun, Waiting, Busy

\* However many calls of whatever kinds there are, fewer decisions under way than the
\* pool has connections never wait for each other.
THEOREM StallAlwaysTakesDecisions == Spec => []StallTakesDecisions
<1>1. ASSUME ServiceInv, Stalled
      PROVE  Cardinality({c \in Calls : Busy(c) /\ call[c].op = "decide"}) >= PoolSize
  <2> DEFINE D == {c \in Calls : Busy(c) /\ call[c].op = "decide"}
             S == {<<c, 1>> : c \in D}
             f == [c \in D |-> <<c, 1>>]
  <2>1. IsFiniteSet(D)
    BY FS_Subset
  <2>2. IsFiniteSet(S) /\ Cardinality(S) <= Cardinality(D)
    <3>1. f \in Surjection(D, S)
      BY DEF Surjection
    <3> QED
      BY <2>1, <3>1, FS_Surjection
  <2>3. InUse \in SUBSET S
    BY <1>1, StalledHolders
  <2>4. IsFiniteSet(InUse) /\ Cardinality(InUse) <= Cardinality(S)
    BY <2>2, <2>3, FS_Subset
  <2>5. /\ Cardinality(InUse) \in Nat /\ Cardinality(S) \in Nat /\ Cardinality(D) \in Nat
    BY <2>1, <2>2, <2>4, FS_CardinalityType
  <2>6. Cardinality(InUse) = PoolSize
    BY <1>1, <2>5 DEF Stalled, Free
  <2> QED
    BY <2>2, <2>4, <2>5, <2>6
<1>2. ServiceInv => StallTakesDecisions
  BY <1>1 DEF StallTakesDecisions
<1> QED
  BY <1>2, InvHolds, PTL

\* A step of another call, or an arrival, takes no call out of a tool.
LEMMA OthersStay ==
  ASSUME ServiceInv, NEW c \in Calls, NEW d \in Calls, NEW k \in Call, d # c,
         Moves(d, k)
  PROVE  call'[c] = call[c]
BY DEF Moves, ServiceInv, TypeOK

\* However the key changes while calls are under way, a tool gets through to its route
\* exactly when the in-process client can present the key.
THEOREM LoopbackAlwaysAdmitted == Spec => LoopbackAdmitted
<1> DEFINE A == \A c \in Calls : /\ Refused(c) => key \in Unpresentable
                                 /\ Entered(c) => key \notin Unpresentable
<1>1. ServiceInv /\ [Next]_vars => [A]_vars
  <2> SUFFICES ASSUME ServiceInv, Next, NEW c \in Calls, Refused(c) \/ Entered(c)
               PROVE  /\ Refused(c) => key \in Unpresentable
                      /\ Entered(c) => key \notin Unpresentable
    OBVIOUS
  <2>0. /\ call[c].pc = "tool" /\ call'[c].pc \in {"idle", "route"}
        /\ call'[c].pc = "idle" => stage' = stage
    BY DEF Refused, Entered
  <2>1. CASE ProcessStep \/ KeyChange
    BY <2>0, <2>1 DEF ProcessStep, KeyChange, SetKey
  <2>2. CASE ExitSessions \/ Kill
    BY <2>0, <2>2 DEF ExitSessions, Kill, Idle
  <2>3. ASSUME NEW d \in Calls, Arrival(d) PROVE FALSE
    <3>1. d # c
      BY <2>0, <2>3 DEF Arrival, Arrive, Busy
    <3> QED
      BY <2>0, <2>3, <3>1, ArrivalMoves, OthersStay
  <2>4. ASSUME NEW d \in Calls, Checkout(d) PROVE FALSE
    <3>1. d # c /\ call \in [Calls -> Call]
      BY <2>0, <2>4 DEF Checkout, Waiting, ServiceInv, TypeOK
    <3> QED
      BY <2>0, <2>4, <3>1 DEF Checkout, Go
  <2>5. ASSUME NEW d \in Calls, RouteStep(d), d # c PROVE FALSE
    BY <2>0, <2>5, RouteStepMoves, OthersStay
  <2>6. CASE RouteStep(c)
    <3>1. Loopback(c) \/ Disconnect(c)
      BY <2>0, <2>6 DEF RouteStep, Probe, PoolTimeout, Query, Load, Stream, Write, Escalate,
                        Refresh, Waiting
    <3>2. ~Disconnect(c)
      BY <2>0 DEF Disconnect, ServiceInv, TypeOK, Call
    <3>3. Go(c, "route", 0) => call'[c].pc = "route"
      BY DEF Go, ServiceInv, TypeOK, Call
    <3>4. End(c) => call'[c].pc = "idle"
      BY DEF End, Idle, ServiceInv, TypeOK
    <3>5. Refused(c) => ~Admitted(FALSE, "bearer", "utf-8", key)
      BY <3>1, <3>2, <3>3 DEF Loopback, InternalKey, Refused
    <3>6. Entered(c) => Admitted(FALSE, "bearer", "utf-8", key)
      BY <3>1, <3>2, <3>4 DEF Loopback, InternalKey, Entered
    <3>7. Admitted(FALSE, "bearer", "utf-8", key) <=> key \notin Unpresentable
      BY ServiceAssumption DEF Unpresentable, Admitted, Presented, ServiceInv, TypeOK
    <3> QED
      BY <3>5, <3>6, <3>7
  <2> QED
    BY <2>1, <2>2, <2>3, <2>4, <2>5, <2>6, NextKinds
<1> QED
  BY <1>1, InvHolds, PTL DEF Spec, LoopbackAdmitted
===============================================================================
