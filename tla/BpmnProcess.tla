----------------------------- MODULE BpmnProcess -----------------------------
(***************************************************************************)
(* The parsed process (forge-bpmn model.rs) and how the parser builds it:  *)
(* nodes and flows are appended one at a time, in document order, and      *)
(* never change again.  Whether a flow is a default flow is decided when   *)
(* it is appended, from the gateways that were appended before it.         *)
(***************************************************************************)
EXTENDS Sequences

CONSTANTS
  Id,           \* values of id, default, sourceRef, targetRef and type
  NoId,         \* the empty string, also an absent attribute
  ConditionText,  \* what a flow may have as its condition
  NoCondition     \* None

NodeTag == {"startEvent", "endEvent", "exclusiveGateway", "serviceTask",
            "manualTask", "unsupported"}

Attribute == Id \cup {NoId}

(* default is the attribute of a gateway, type that of a service task.     *)
Node == [tag : NodeTag, id : Attribute, default : Attribute, type : Attribute]

Flow == [id : Attribute, source : Attribute, target : Attribute,
         condition : ConditionText \cup {NoCondition}, default : BOOLEAN]

VARIABLES nodes, flows

Init == nodes = <<>> /\ flows = <<>>

(* A gateway parsed so far names the flow as its default.                  *)
ListedAsDefault(ns, f) ==
  f # NoId /\ \E k \in DOMAIN ns : ns[k].tag = "exclusiveGateway" /\ ns[k].default = f

AddNode(n) ==
  /\ nodes' = Append(nodes, n)
  /\ UNCHANGED flows

AddFlow(f) ==
  /\ flows' = Append(flows, [f EXCEPT !.default = ListedAsDefault(nodes, f.id)])
  /\ UNCHANGED nodes

(* \E n \in Node : AddNode(n) or \E f \in Flow : AddFlow(f), with the only  *)
(* candidate named: TLC never enumerates the two sets.                     *)
Next ==
  \/ nodes' # <<>> /\ nodes'[Len(nodes')] \in Node /\ AddNode(nodes'[Len(nodes')])
  \/ flows' # <<>> /\ LET f == flows'[Len(flows')]
                     IN f \in Flow /\ AddFlow([f EXCEPT !.default = FALSE])

Spec == Init /\ [][Next]_<<nodes, flows>>

TypeOK == nodes \in Seq(Node) /\ flows \in Seq(Flow)
=============================================================================
