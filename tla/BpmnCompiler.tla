---------------------------- MODULE BpmnCompiler ----------------------------
(***************************************************************************)
(* The validator and the compiler of forge-bpmn (validate.rs, compile.rs)  *)
(* on a parsed process, and what together they must guarantee: a process   *)
(* without diagnostics compiles to a graph the engine can run.             *)
(***************************************************************************)
EXTENDS BpmnProcess, Naturals, FiniteSets

CONSTANTS
  NoNode, Var, Val, Unset  \* of RuntimeGraph, see there

(* What must be so of the values for a process to be compiled at all.      *)
CompilerOK ==
  /\ ConditionText \subseteq [op : {"equals", "malformed"}, var : Var, val : Val]
  /\ NoCondition \notin ConditionText
  /\ NoNode \notin Attribute
  /\ Var # {} /\ Val # {} /\ Unset \notin Val

-----------------------------------------------------------------------------
(* validate: the findings of its seven rules, as pairs of a code and the   *)
(* position of the node or flow.                                           *)

Tagged(ns, tag) == {k \in DOMAIN ns : ns[k].tag = tag}
NodeIds(ns) == {ns[k].id : k \in DOMAIN ns}
From(fs, id) == {k \in DOMAIN fs : fs[k].source = id}

UnsupportedElement(ns) == Tagged(ns, "unsupported")

StartEventCount(ns) == IF Cardinality(Tagged(ns, "startEvent")) = 1 THEN {} ELSE {0}

EndEventMissing(ns) == IF Tagged(ns, "endEvent") # {} THEN {} ELSE {0}

MutOnlySources(ns, fs) == {k \in DOMAIN fs : fs[k].source \notin NodeIds(ns)}

InvalidFlowRef(ns, fs) ==
  {k \in DOMAIN fs : {fs[k].source, fs[k].target} \ NodeIds(ns) # {}}

MissingTaskType(ns) == {k \in Tagged(ns, "serviceTask") : ns[k].type = NoId}

MultipleDefaultFlows(ns, fs) ==
  {k \in Tagged(ns, "exclusiveGateway") :
     Cardinality({f \in From(fs, ns[k].id) : fs[f].default}) > 1}

MutNoMissingCondition(ns, fs) == {}

MissingCondition(ns, fs) ==
  {f \in DOMAIN fs :
     /\ ~fs[f].default
     /\ fs[f].condition = NoCondition
     /\ Cardinality(From(fs, fs[f].source)) > 1
     /\ \E k \in Tagged(ns, "exclusiveGateway") : ns[k].id = fs[f].source}

(* The breadth-first search from the start event, level by level; it       *)
(* follows flows, whether or not their ends are nodes.                     *)
Step(fs, seen) ==
  seen \cup {fs[k].target : k \in {j \in DOMAIN fs : fs[j].source \in seen}}

Levels(fs, start) ==
  LET level[n \in 0..Len(fs)] == IF n = 0 THEN {start} ELSE Step(fs, level[n - 1])
  IN level

Visited(fs, start) == Levels(fs, start)[Len(fs)]

(* Rule 7 is skipped unless there is one start event.                      *)
UnreachableNode(ns, fs) ==
  IF StartEventCount(ns) # {} THEN {}
  ELSE LET start == CHOOSE k \in Tagged(ns, "startEvent") : TRUE
           visited == Visited(fs, ns[start].id)
       IN {k \in DOMAIN ns : ns[k].id \notin visited}

Diagnostics(ns, fs) ==
  {<<"UNSUPPORTED_ELEMENT", k>> : k \in UnsupportedElement(ns)}
  \cup {<<"START_EVENT_COUNT", k>> : k \in StartEventCount(ns)}
  \cup {<<"END_EVENT_MISSING", k>> : k \in EndEventMissing(ns)}
  \cup {<<"INVALID_FLOW_REF", k>> : k \in InvalidFlowRef(ns, fs)}
  \cup {<<"MISSING_TASK_TYPE", k>> : k \in MissingTaskType(ns)}
  \cup {<<"MULTIPLE_DEFAULT_FLOWS", k>> : k \in MultipleDefaultFlows(ns, fs)}
  \cup {<<"MISSING_CONDITION", k>> : k \in MissingCondition(ns, fs)}
  \cup {<<"UNREACHABLE_NODE", k>> : k \in UnreachableNode(ns, fs)}

Valid == Diagnostics(nodes, flows) = {}

-----------------------------------------------------------------------------
(* compile: maps by id.  Of several nodes with one id the last one stays;  *)
(* flows keep the order of the document.                                   *)

CompiledKind(tag) ==
  CASE tag = "startEvent" -> "start"
    [] tag = "endEvent" -> "end"
    [] tag = "exclusiveGateway" -> "gateway"
    [] tag = "serviceTask" -> "service"
    [] tag = "manualTask" -> "manual"

Supported == {k \in DOMAIN nodes : nodes[k].tag # "unsupported"}

CompiledNodes == {nodes[k].id : k \in Supported}

LastWith(id) ==
  CHOOSE k \in Supported : /\ nodes[k].id = id
                           /\ \A j \in Supported : nodes[j].id = id => j <= k

(* find: the first start event, or the empty string.                       *)
CompiledStart ==
  IF Tagged(nodes, "startEvent") = {} THEN NoId
  ELSE nodes[CHOOSE k \in Tagged(nodes, "startEvent") :
               \A j \in Tagged(nodes, "startEvent") : k <= j].id

Absent == [op |-> "none", var |-> CHOOSE v \in Var : TRUE, val |-> CHOOSE v \in Val : TRUE]

CompiledFlow(f) ==
  [target |-> f.target, default |-> f.default,
   cond |-> IF f.condition = NoCondition THEN Absent ELSE f.condition]

(* The n-th smallest of the numbers in S.                                  *)
Nth(S, n) == CHOOSE k \in S : Cardinality({j \in S : j <= k}) = n

CompiledOutgoing(id) ==
  LET leaving == From(flows, id)
  IN [n \in 1..Cardinality(leaving) |-> CompiledFlow(flows[Nth(leaving, n)])]

CompiledType(id) == nodes[LastWith(id)].type

(* The compiled process as the graph the engine runs.                      *)
Graph == INSTANCE RuntimeGraph WITH
           Node <- CompiledNodes,
           StartNode <- CompiledStart,
           Kind <- [n \in CompiledNodes |-> CompiledKind(nodes[LastWith(n)].tag)],
           Outgoing <- [n \in CompiledNodes |-> CompiledOutgoing(n)],
           TaskType <- [n \in CompiledNodes |-> CompiledType(n)],
           Inputs <- [n \in CompiledNodes |-> {}],
           Outputs <- [n \in CompiledNodes |-> [v \in {} |-> v]]

-----------------------------------------------------------------------------
(* Properties.                                                             *)

(* Ids are unique in an XML document that is valid; no rule checks it.     *)
DistinctIds ==
  \A j, k \in DOMAIN nodes : nodes[j].id = nodes[k].id => j = k

Closed(S) ==
  \A n \in S \cap CompiledNodes :
    \A k \in DOMAIN CompiledOutgoing(n) : CompiledOutgoing(n)[k].target \in S

(* A process without diagnostics compiles to a graph that meets what the   *)
(* engine assumes of it: it starts at a start event that can be left, no   *)
(* flow leads out of it, and a token can get to every node (validate.rs    *)
(* 14-174, compile.rs 5-63, against step.rs 28-45 and events.rs 24-46).    *)
ValidGraphIsRunnable ==
  Valid /\ DistinctIds =>
    /\ Graph!GraphOK
    /\ CompiledKind(nodes[LastWith(CompiledStart)].tag) = "start"
    /\ Graph!HasNext(CompiledStart)
    /\ \A S \in SUBSET CompiledNodes :
         CompiledStart \in S /\ Closed(S) => S = CompiledNodes

(* A gateway of a process without diagnostics goes where a condition or    *)
(* the lack of one that holds sends it: it takes a flow whose condition is *)
(* true, the default flow only if no condition is true, and a flow without *)
(* condition only if there is no other (validate.rs 99-134, gateway.rs     *)
(* 42-113).                                                                *)
RoutesByConditions ==
  Valid =>
    \A g \in {n \in CompiledNodes : CompiledKind(nodes[LastWith(n)].tag) = "gateway"} :
      \A scope \in Graph!Scope :
        LET out == CompiledOutgoing(g)
            holds(k) == out[k].cond.op # "none" /\ Graph!Evaluate(out[k].cond, scope) = "true"
            to == Graph!GatewayTarget(g, scope)
        IN to # NoNode =>
             \E k \in DOMAIN out :
               /\ out[k].target = to
               /\ \/ holds(k) /\ ~out[k].default
                  \/ out[k].default /\ \A j \in DOMAIN out : out[j].default \/ ~holds(j)
                  \/ Len(out) = 1
=============================================================================
