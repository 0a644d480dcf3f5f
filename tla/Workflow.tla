------------------------------ MODULE Workflow ------------------------------
(***************************************************************************)
(* What the engine promises a client: every process instance is a token    *)
(* game of its own.  A token moves from one wait state to the next in one  *)
(* step, along the route its variables select; it leaves a wait state when *)
(* its work is finished, with the output mapping applied, and nothing else *)
(* moves it.  Jobs, locks, retries, incidents, requests and transactions   *)
(* are hidden.                                                             *)
(***************************************************************************)
EXTENDS RuntimeGraph

CONSTANTS
  MaxInstances,  \* bound: process instances ever created
  MaxSteps       \* nodes a token may visit on the way to a wait state

VARIABLES
  phase,  \* of every instance
  at,     \* the node of its token
  data    \* its variables

vars == <<phase, at, data>>

Instance == 1..MaxInstances

(* "waiting" for a worker or a user, "stuck" at a gateway no flow leaves.  *)
Phase == {"none", "moving", "waiting", "stuck", "completed", "cancelled"}

TypeOK ==
  /\ phase \in [Instance -> Phase]
  /\ at \in [Instance -> Node \cup {NoNode}]
  /\ data \in [Instance -> Scope]

(* The node a token at n passes on to at once, NoNode if there is none.    *)
Onward(n, scope) ==
  CASE Kind[n] = "start" /\ HasNext(n) -> FirstTarget(n)
    [] Kind[n] = "gateway" -> GatewayTarget(n, scope)
    [] OTHER -> NoNode

(* A token comes to rest at a task whose inputs evaluate, at an end event, *)
(* or at a gateway it cannot leave.                                        *)
RestsAt(n, scope) ==
  \/ Kind[n] \in {"service", "manual"} /\ InputsEvaluate(n, scope)
  \/ Kind[n] = "end"
  \/ Kind[n] = "gateway" /\ GatewayTarget(n, scope) = NoNode

(* A token at n visits length nodes, the last of which is m.               *)
Leads(n, m, length, scope) ==
  \E route \in [1..length -> Node] :
    /\ route[1] = n
    /\ route[length] = m
    /\ \A k \in 1..(length - 1) : route[k + 1] = Onward(route[k], scope)

(* A token at n comes to rest at m: at one node at most, for none of those *)
(* it rests at has an Onward.                                              *)
ComesToRest(n, m, scope) ==
  /\ RestsAt(m, scope)
  /\ \E length \in 1..MaxSteps : Leads(n, m, length, scope)

Init ==
  /\ phase = [i \in Instance |-> "none"]
  /\ at = [i \in Instance |-> NoNode]
  /\ data = [i \in Instance |-> EmptyScope]

Leave(i, n, scope) ==
  /\ at' = [at EXCEPT ![i] = n]
  /\ phase' = [phase EXCEPT ![i] = "moving"]
  /\ data' = [data EXCEPT ![i] = scope]

Stop(i, how) ==
  /\ at' = [at EXCEPT ![i] = NoNode]
  /\ phase' = [phase EXCEPT ![i] = how]
  /\ data' = [data EXCEPT ![i] = EmptyScope]

Start(i) ==
  /\ phase[i] = "none"
  /\ \E initial \in Scope : Leave(i, StartNode, initial)

Wait(i, n) ==
  /\ at' = [at EXCEPT ![i] = n]
  /\ phase' = [phase EXCEPT ![i] = IF Kind[n] = "gateway" THEN "stuck" ELSE "waiting"]
  /\ UNCHANGED data

Arrive(i) ==
  /\ phase[i] = "moving"
  /\ \E n \in Node :
       /\ IF Kind[n] = "end" THEN Stop(i, "completed") ELSE Wait(i, n)
       /\ ComesToRest(at[i], n, data[i])

FinishWork(i) ==
  /\ phase[i] = "waiting"
  /\ HasNext(at[i])
  /\ \E result \in Scope :
       /\ OutputsEvaluate(at[i], result)
       /\ Leave(i, FirstTarget(at[i]), ApplyOutputs(at[i], data[i], result))

Cancel(i) ==
  /\ phase[i] = "waiting"
  /\ Kind[at[i]] = "manual"
  /\ Stop(i, "cancelled")

Next == \E i \in Instance : Start(i) \/ Arrive(i) \/ FinishWork(i) \/ Cancel(i)

Spec == Init /\ [][Next]_vars
=============================================================================
