--------------------------- MODULE BpmnDeployment ---------------------------
(***************************************************************************)
(* What a deployment runs a document through: the parser, the validator on *)
(* the process it returns, and the compiler if there are no diagnostics.   *)
(***************************************************************************)
EXTENDS BpmnParserProps

CONSTANTS
  ConditionOf(_),                     \* what the texts of a condition mean
  NoCondition, NoNode, Var, Val, Unset  \* see BpmnCompiler

Compiler == INSTANCE BpmnCompiler WITH
              ConditionText <- {ConditionOf(texts) : texts \in ConditionText},
              nodes <- [k \in DOMAIN nodes |-> Plain(nodes[k])],
              flows <- [k \in DOMAIN flows |->
                          [flows[k] EXCEPT !.condition =
                             IF @ = <<>> THEN NoCondition ELSE ConditionOf(@)]]

ASSUME DeploymentAssumption == Compiler!CompilerOK

(* A document without diagnostics becomes a graph the engine can run: it   *)
(* starts at a start event that can be left, no flow leads out of it, and  *)
(* a token can get to every node (validate.rs 14-174, compile.rs 5-63,     *)
(* against step.rs 28-45 and events.rs 24-46).                             *)
ValidDocumentIsRunnable == result = "ok" => Compiler!ValidGraphIsRunnable

(* In that graph a gateway takes a flow whose condition is true, the       *)
(* default flow only if no condition is true, and a flow without condition *)
(* only if there is no other (validate.rs 99-134, gateway.rs 42-113).      *)
DocumentRoutesByConditions == result = "ok" => Compiler!RoutesByConditions

(* "Start events always have exactly one outgoing flow (validated by       *)
(* forge-bpmn)" (events.rs 48): the start event of a document without      *)
(* diagnostics has one.  Not so: no rule of the validator counts them.     *)
StartEventHasOneFlow ==
  result = "ok" /\ Compiler!Valid =>
    Len(Compiler!CompiledOutgoing(Compiler!CompiledStart)) = 1
=============================================================================
