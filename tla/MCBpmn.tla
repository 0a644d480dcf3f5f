------------------------------- MODULE MCBpmn -------------------------------
(***************************************************************************)
(* Three sets of documents: short ones about tasks and their extensions    *)
(* (Tasks) and about processes, flows and their texts (Flows), nested in   *)
(* every way; and whole processes, any part of the list Elements in its    *)
(* order: some break a rule of the validator, and among the others are     *)
(* default flows before and after their gateway and gateways with one and  *)
(* with several flows.                                                     *)
(***************************************************************************)
EXTENDS BpmnDeployment

McId == {"p", "q", "s", "r", "g", "t", "e", "u", "f", "a", "b", "c", "d", "h", "k", "m", "w", "x"}
McText == {"yes", "malformed"}
McVar == {"x"}
McVal == {"yes", "no"}
IsYes == [op |-> "equals", var |-> "x", val |-> "yes"]
McConditionOf(texts) ==
  IF texts = <<"yes">> THEN IsYes ELSE [IsYes EXCEPT !.op = "malformed"]

T(tag) == [Blank EXCEPT !.tag = tag]
N(tag, id) == [T(tag) EXCEPT !.id = id]
F(id, source, target) == [N("sequenceFlow", id) EXCEPT !.source = source, !.target = target]
Definitions == T("definitions")
Executed == [N("process", "p") EXCEPT !.executable = TRUE]
Typed == [T("taskDefinition") EXCEPT !.type = "w"]

Tasks ==
  {Definitions, Executed, T("extensionElements"), T("other"), T("ignored"),
   N("serviceTask", "t"), N("manualTask", "t"), Typed, T("ioMapping"),
   [T("input") EXCEPT !.source = "p", !.target = "q"],
   [T("output") EXCEPT !.source = "q", !.target = "p"]}

Gateway == [N("exclusiveGateway", "g") EXCEPT !.default = "f"]

Flows ==
  {Definitions, Executed, T("other"), N("process", "q"), [Executed EXCEPT !.id = "q"],
   Gateway, F("f", "g", "t"), T("conditionExpression")}

Short(tags, texts, max) ==
  \/ \E t \in tags, e \in BOOLEAN : Len(doc) < max /\ Start(t, e)
  \/ \E x \in texts : Characters(x)
  \/ End
  \/ Eof

-----------------------------------------------------------------------------
(* The children of a whole process, and what an element contains if it is  *)
(* not empty.                                                              *)

Elements ==
  <<F("f", "g", "t"), N("startEvent", "s"), N("startEvent", "r"), Gateway,
    N("serviceTask", "t"), N("endEvent", "e"), N("other", "u"), F("f", "g", "e"),
    F("a", "s", "g"), F("b", "s", "t"), F("c", "g", "e"), F("h", "t", "e"),
    F("k", "e", "x"), F("m", "g", "t")>>

TextOf == [f |-> "yes", c |-> "yes", m |-> "malformed"]

Inside(t) ==
  CASE t.tag = "serviceTask" -> {T("extensionElements")}
    [] t.tag = "extensionElements" -> {Typed}
    [] t.tag = "sequenceFlow" /\ t.id \in DOMAIN TextOf -> {T("conditionExpression")}
    [] OTHER -> {}

Present(k) == \E j \in DOMAIN doc : doc[j].start = Elements[k]

Complete(k) ==
  /\ Inside(doc[k].start) # {} => k < Len(doc)
  /\ doc[k].start.tag = "conditionExpression" => doc[k].texts # <<>>

Whole ==
  \/ doc = <<>> /\ Start(Definitions, FALSE)
  \/ Len(doc) = 1 /\ Start(Executed, FALSE)
  \/ /\ Parent = 2
     /\ \E k \in DOMAIN Elements :
          /\ \A j \in k..Len(Elements) : ~Present(j)
          /\ \/ Start(Elements[k], TRUE)
             \/ Inside(Elements[k]) # {} /\ Start(Elements[k], FALSE)
  \/ /\ Parent > 2 /\ ~Complete(Parent)
     /\ \/ \E t \in Inside(doc[Parent].start) : Start(t, t = Typed)
        \/ Characters(TextOf[doc[doc[Parent].parent].start.id])
  \/ (Parent > 2 => Complete(Parent)) /\ End
  \/ open = <<>> /\ Eof

-----------------------------------------------------------------------------
McTag == Tasks \cup Flows \cup {Elements[k] : k \in DOMAIN Elements}

VARIABLE family  \* which of the three sets

McInit == Init /\ family \in {"tasks", "flows", "whole"}

McNext ==
  /\ \/ family = "tasks" /\ Short(Tasks, {}, 7)
     \/ family = "flows" /\ Short(Flows, {"yes"}, 6)
     \/ family = "whole" /\ Whole
  /\ UNCHANGED family

McSpec == McInit /\ [][McNext]_<<vars, family>>
=============================================================================
