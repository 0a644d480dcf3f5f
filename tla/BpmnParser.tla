----------------------------- MODULE BpmnParser -----------------------------
(***************************************************************************)
(* The streaming BPMN parser (forge-bpmn parse.rs): a stack of items       *)
(* driven by the start tags, texts and end tags of an XML document.  The   *)
(* reader (quick-xml) yields the events of a well-formed document whose    *)
(* elements nest as BPMN and its Zeebe extensions say (CanContain), and    *)
(* may meet the end of the input at any point: it does not insist that the *)
(* open elements are closed.                                               *)
(***************************************************************************)
EXTENDS Naturals, Sequences

CONSTANTS
  Id, NoId,      \* attribute values, see BpmnProcess
  StartTag,      \* the start tags that may occur in a document
  Text,          \* pieces of text, never blank (trim_text)
  MaxElements,   \* bound on the elements of a document
  MaxTexts       \* bound on its pieces of text

Attribute == Id \cup {NoId}
FlowNode == {"startEvent", "endEvent", "exclusiveGateway", "serviceTask", "manualTask"}

(* "other" stands for every BPMN element without a meaning of its own,     *)
(* "ignored" for incoming, outgoing, BPMNDiagram and foreign elements.     *)
Tag == FlowNode \cup
       {"definitions", "process", "sequenceFlow", "other", "ignored", "extensionElements",
        "conditionExpression", "taskDefinition", "ioMapping", "input", "output"}

Tagged == [tag : Tag, id : Attribute, executable : BOOLEAN, default : Attribute,
           type : Attribute, source : Attribute, target : Attribute]

ASSUME ParserAssumption ==
  NoId \notin Id /\ StartTag \subseteq Tagged /\ MaxElements \in Nat /\ MaxTexts \in Nat

VARIABLES
  stack,     \* items: see Item
  nodes, flows, process,  \* process: ids of the process found, none or one
  result,    \* "reading", "ok" or "none" (no executable process)
  doc,       \* history: the elements in document order
  open       \* history: positions in doc of the open elements

vars == <<stack, nodes, flows, process, result, doc, open>>

(* content: the texts of a condition, the condition of a flow (empty:      *)
(* None).  io: the entries of an ioMapping, and then of its task; None and *)
(* a mapping without entries mean the same to the engine (mapping.rs).     *)
Item(kind, t) == [kind |-> kind, start |-> t, content |-> <<>>, type |-> NoId, io |-> <<>>]

Blank == [tag |-> "ignored", id |-> NoId, executable |-> FALSE, default |-> NoId,
          type |-> NoId, source |-> NoId, target |-> NoId]

Top == stack[Len(stack)]

Init ==
  /\ stack = <<Item("root", Blank)>>
  /\ nodes = <<>> /\ flows = <<>> /\ process = {}
  /\ result = "reading"
  /\ doc = <<>> /\ open = <<>>

-----------------------------------------------------------------------------
(* finish_item and the two searches for the nearest task.                  *)

Nearest(s, kinds) ==
  LET found == {k \in DOMAIN s : s[k].kind \in kinds}
  IN IF found = {} THEN 0 ELSE CHOOSE k \in found : \A j \in found : j <= k

WithType(s, type) ==
  LET k == Nearest(s, {"serviceTask"})
  IN IF k = 0 THEN s ELSE [s EXCEPT ![k].type = type]

WithMapping(s, mapping) ==
  LET k == Nearest(s, {"serviceTask", "manualTask"})
  IN IF k = 0 THEN s ELSE [s EXCEPT ![k].io = mapping]

WithCondition(s, text) ==
  IF s[Len(s)].kind = "sequenceFlow" /\ text # <<>>
  THEN [s EXCEPT ![Len(s)].content = text] ELSE s

NodeOf(i) ==
  [tag |-> i.kind, id |-> i.start.id, io |-> i.io, type |-> i.type,
   default |-> IF i.kind = "exclusiveGateway" THEN i.start.default ELSE NoId]

FlowWithDefault(i, default) ==
  [id |-> i.start.id, source |-> i.start.source, target |-> i.start.target,
   condition |-> i.content, default |-> default]

MutNeverDefault(i) == FlowWithDefault(i, FALSE)

(* A flow is a default flow if a gateway finished before it says so.       *)
FlowOf(i) ==
  FlowWithDefault(i, i.start.id # NoId /\ \E k \in DOMAIN nodes :
                       nodes[k].tag = "exclusiveGateway" /\ nodes[k].default = i.start.id)

Finish(i, below) ==
  /\ nodes' = IF i.kind \in FlowNode \cup {"unsupported"} THEN Append(nodes, NodeOf(i)) ELSE nodes
  /\ flows' = IF i.kind = "sequenceFlow" THEN Append(flows, FlowOf(i)) ELSE flows
  /\ stack' = CASE i.kind = "conditionExpression" -> WithCondition(below, i.content)
                [] i.kind = "ioMapping" -> WithMapping(below, i.io)
                [] OTHER -> below

-----------------------------------------------------------------------------
(* handle_start, one definition per branch; e: the element is empty.       *)

PushUnless(e, s, i) == IF e THEN s ELSE Append(s, i)
Skip == Item("skip", Blank)

MutSkipFlat(t, e) ==
  Top.kind = "skip" /\ UNCHANGED <<stack, nodes, flows, process>>

SkipNested(t, e) ==
  /\ Top.kind = "skip"
  /\ stack' = PushUnless(e, stack, Skip)
  /\ UNCHANGED <<nodes, flows, process>>

TaskDefinition(t, e) ==
  /\ t.tag = "taskDefinition"
  /\ stack' = PushUnless(e, WithType(stack, t.type), Skip)
  /\ UNCHANGED <<nodes, flows, process>>

Entry(t, e) ==
  /\ t.tag \in {"input", "output"}
  /\ LET entry == [tag |-> t.tag, source |-> t.source, target |-> t.target]
         kept == IF Top.kind = "ioMapping"
                 THEN [stack EXCEPT ![Len(stack)].io = Append(@, entry)] ELSE stack
     IN stack' = PushUnless(e, kept, Skip)
  /\ UNCHANGED <<nodes, flows, process>>

(* An empty definitions element is pushed too, and never popped.           *)
Container(t, e) ==
  /\ t.tag \in {"definitions", "extensionElements", "conditionExpression", "ioMapping"}
  /\ stack' = PushUnless(e /\ t.tag # "definitions", stack, Item(t.tag, t))
  /\ UNCHANGED <<nodes, flows, process>>

MutFirstProcess(t) == process = {}

(* Only the first executable process is captured.                          *)
Captures(t) == t.executable /\ process = {}

Process(t, e) ==
  /\ t.tag = "process"
  /\ IF Captures(t)
     THEN /\ process' = {t.id}
          /\ stack' = PushUnless(e, stack, Item("process", t))
     ELSE /\ stack' = PushUnless(e, stack, Skip)
          /\ UNCHANGED process
  /\ UNCHANGED <<nodes, flows>>

InProcess(t, e) ==
  /\ Top.kind = "process"
  /\ t.tag \in FlowNode \cup {"sequenceFlow", "other"}
  /\ LET item == Item(IF t.tag = "other" THEN "unsupported" ELSE t.tag, t)
     IN IF e THEN Finish(item, stack)
        ELSE stack' = Append(stack, item) /\ UNCHANGED <<nodes, flows>>
  /\ UNCHANGED process

Elsewhere(t, e) ==
  /\ \/ t.tag = "ignored"
     \/ t.tag \in FlowNode \cup {"sequenceFlow", "other"} /\ Top.kind # "process"
  /\ stack' = PushUnless(e, stack, Skip)
  /\ UNCHANGED <<nodes, flows, process>>

HandleStart(t, e) ==
  \/ SkipNested(t, e)
  \/ Top.kind # "skip" /\ (\/ TaskDefinition(t, e) \/ Entry(t, e) \/ Container(t, e)
                           \/ Process(t, e) \/ InProcess(t, e) \/ Elsewhere(t, e))

-----------------------------------------------------------------------------
(* The document, as the reader yields it.                                  *)

Inner == {"extensionElements", "ignored", "other"}
Content == FlowNode \cup {"sequenceFlow"} \cup Inner

CanContain(parent) ==
  CASE parent = "definitions" -> {"process", "ignored", "other"}
    [] parent = "process" -> Content
    [] parent = "other" -> Content
    [] parent \in FlowNode -> Inner
    [] parent = "sequenceFlow" -> Inner \cup {"conditionExpression"}
    [] parent = "extensionElements" -> {"taskDefinition", "ioMapping", "ignored"}
    [] parent = "ioMapping" -> {"input", "output"}
    [] parent = "ignored" -> {"ignored"}
    [] OTHER -> {}

(* What an element contains at most once.                                  *)
Single == {"extensionElements", "conditionExpression", "taskDefinition", "ioMapping"}

Parent == IF open = <<>> THEN 0 ELSE open[Len(open)]

Allowed(tag) ==
  IF open = <<>> THEN doc = <<>> /\ tag = "definitions"
  ELSE /\ tag \in CanContain(doc[Parent].start.tag)
       /\ tag \in Single => \A k \in DOMAIN doc : doc[k].parent = Parent => doc[k].start.tag # tag

Start(t, e) ==
  /\ result = "reading" /\ Allowed(t.tag) /\ Len(doc) < MaxElements
  /\ doc' = Append(doc, [start |-> t, closed |-> e, texts |-> <<>>, parent |-> Parent])
  /\ open' = IF e THEN open ELSE Append(open, Len(doc) + 1)
  /\ HandleStart(t, e)
  /\ UNCHANGED result

MutReplaceText(s, x) == [s EXCEPT ![Len(s)].content = <<x>>]

PushText(s, x) == [s EXCEPT ![Len(s)].content = Append(@, x)]

(* Elsewhere a document has blank text only, which trim_text drops.        *)
HoldsText == {"conditionExpression", "other", "ignored"}

(* Text counts in a condition only.                                        *)
Characters(x) ==
  /\ result = "reading" /\ open # <<>> /\ doc[Parent].start.tag \in HoldsText
  /\ Len(doc[Parent].texts) < MaxTexts
  /\ doc' = [doc EXCEPT ![Parent].texts = Append(@, x)]
  /\ stack' = IF Top.kind = "conditionExpression" THEN PushText(stack, x) ELSE stack
  /\ UNCHANGED <<nodes, flows, process, result, open>>

(* handle_end: pop, then finish what was popped.                           *)
End ==
  /\ result = "reading" /\ open # <<>>
  /\ doc' = [doc EXCEPT ![Parent].closed = TRUE]
  /\ open' = SubSeq(open, 1, Len(open) - 1)
  /\ Finish(Top, SubSeq(stack, 1, Len(stack) - 1))
  /\ UNCHANGED <<process, result>>

Eof ==
  /\ result = "reading"
  /\ result' = IF process \subseteq {NoId} THEN "none" ELSE "ok"
  /\ UNCHANGED <<stack, nodes, flows, process, doc, open>>

Next ==
  \/ \E t \in StartTag, e \in BOOLEAN : Start(t, e)
  \/ \E x \in Text : Characters(x)
  \/ End
  \/ Eof

Spec == Init /\ [][Next]_vars
=============================================================================
