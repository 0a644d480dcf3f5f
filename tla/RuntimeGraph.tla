---------------------------- MODULE RuntimeGraph ----------------------------
(***************************************************************************)
(* The compiled process graph of forge-bpmn (graph.rs) and the pure        *)
(* functions the engine applies to it: which flow an exclusive gateway     *)
(* takes and what the input and output mappings of a task do to the        *)
(* variables of an instance.  One graph is fixed per instance of this      *)
(* module; deployment and versions are the subject of Definitions.         *)
(***************************************************************************)
EXTENDS Naturals, Sequences

CONSTANTS
  Node,       \* the nodes of the graph (RuntimeGraph.nodes)
  NoNode,     \* "no node": the target of a gateway that raises an incident
  StartNode,  \* RuntimeGraph.start_node
  Kind,       \* NodeKind of every node
  Outgoing,   \* the outgoing flows of every node, in document order
  TaskType,   \* the task type of every service task
  Var,        \* variable names
  Val,        \* variable values
  Unset,      \* marks a name that has no variable
  Inputs,     \* the variables the input mapping of a node reads
  Outputs     \* the output mapping of a node: target variable |-> source

NodeKind == {"start", "end", "gateway", "service", "manual"}

(* The variables of one instance, and also the result of a worker: a       *)
(* partial map from names to values (HashMap<String, Value>).              *)
Scope == [Var -> Val \cup {Unset}]
EmptyScope == [v \in Var |-> Unset]

(* A flow condition, up to what evaluation can answer: absent, a test of   *)
(* one variable, or a text the expression parser rejects.                  *)
Condition == [op : {"none", "equals", "malformed"}, var : Var, val : Val]

Flow == [target : Node, cond : Condition, default : BOOLEAN]

(* What the engine takes for granted of a graph it loads.                  *)
GraphOK ==
  /\ NoNode \notin Node
  /\ StartNode \in Node
  /\ Kind \in [Node -> NodeKind]
  /\ Outgoing \in [Node -> Seq(Flow)]
  /\ Unset \notin Val
  /\ Inputs \in [Node -> SUBSET Var]
  /\ \A n \in Node : Outputs[n] \in UNION {[T -> Var] : T \in SUBSET Var}

ASSUME GraphAssumption == GraphOK

(* The first flow in document order: flows.first(), outgoing[0].           *)
HasNext(n) == Outgoing[n] # <<>>
FirstTarget(n) == Outgoing[n][1].target

-----------------------------------------------------------------------------
(* Expressions and mappings.                                               *)

(* The answer of parse followed by eval: an unknown variable and a         *)
(* malformed text are errors.                                              *)
Evaluate(cond, scope) ==
  IF cond.op = "malformed" \/ scope[cond.var] = Unset
  THEN "error"
  ELSE IF scope[cond.var] = cond.val THEN "true" ELSE "false"

(* The scan over the outgoing flows of a gateway stops at the first        *)
(* non-default flow that has no condition, fails to evaluate, or is true.  *)
StopsAt(flow, scope) ==
  /\ ~flow.default
  /\ flow.cond.op # "none" => Evaluate(flow.cond, scope) # "false"

FirstStop(n, scope, i) ==
  /\ StopsAt(Outgoing[n][i], scope)
  /\ \A j \in DOMAIN Outgoing[n] : j < i => ~StopsAt(Outgoing[n][j], scope)

(* A default flow met earlier is overwritten by a later one.               *)
LastDefault(n, i) ==
  /\ Outgoing[n][i].default
  /\ \A j \in DOMAIN Outgoing[n] : j > i => ~Outgoing[n][j].default

(* The target the exclusive gateway n takes; NoNode means it raises an     *)
(* incident instead: a condition failed, or nothing matched.               *)
GatewayTarget(n, scope) ==
  LET flows == DOMAIN Outgoing[n] IN
  IF \E i \in flows : FirstStop(n, scope, i)
  THEN LET flow == Outgoing[n][CHOOSE i \in flows : FirstStop(n, scope, i)]
       IN IF flow.cond.op # "none" /\ Evaluate(flow.cond, scope) = "error"
          THEN NoNode ELSE flow.target
  ELSE IF \E i \in flows : LastDefault(n, i)
       THEN Outgoing[n][CHOOSE i \in flows : LastDefault(n, i)].target
       ELSE NoNode

(* apply_inputs: evaluation fails when a source reads an unknown variable. *)
(* The payload itself is handed to the worker and never read back.         *)
InputsEvaluate(n, scope) == \A v \in Inputs[n] : scope[v] # Unset

(* apply_outputs: every source must evaluate against the worker's result;  *)
(* the targets are then written.  Without a mapping the whole result is    *)
(* merged.                                                                 *)
OutputsEvaluate(n, result) ==
  \A t \in DOMAIN Outputs[n] : result[Outputs[n][t]] # Unset

ApplyOutputs(n, scope, result) ==
  [v \in Var |->
     IF DOMAIN Outputs[n] = {}
     THEN IF result[v] # Unset THEN result[v] ELSE scope[v]
     ELSE IF v \in DOMAIN Outputs[n] THEN result[Outputs[n][v]] ELSE scope[v]]
=============================================================================
