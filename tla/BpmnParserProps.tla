--------------------------- MODULE BpmnParserProps ---------------------------
(***************************************************************************)
(* What the parser promises: the process it returns says what the document *)
(* says, whatever is skipped on the way, and it only ever appends to it.   *)
(***************************************************************************)
EXTENDS BpmnParser, FiniteSets

-----------------------------------------------------------------------------
(* The reading of the document the parser must agree with.                 *)

(* The place of position k among those in S, in document order.            *)
Place(k, S) == Cardinality({j \in S : j <= k})

Executable(k) == doc[k].start.tag = "process" /\ doc[k].start.executable

Captured(k) == Executable(k) /\ \A j \in DOMAIN doc : Executable(j) => k <= j

(* A closed child of the captured process.                                 *)
Element(k) == doc[k].closed /\ doc[k].parent # 0 /\ Captured(doc[k].parent)

NodesOfDoc == {k \in DOMAIN doc : Element(k) /\ doc[k].start.tag \in FlowNode \cup {"other"}}
FlowsOfDoc == {k \in DOMAIN doc : Element(k) /\ doc[k].start.tag = "sequenceFlow"}

(* Elements named tag in the extensionElements of element k itself.        *)
Extensions(k, tag) ==
  {j \in DOMAIN doc : /\ doc[j].start.tag = tag
                      /\ doc[j].parent # 0
                      /\ doc[doc[j].parent].start.tag = "extensionElements"
                      /\ doc[doc[j].parent].parent = k}

(* The inputs and outputs in a closed mapping of element k.                *)
EntriesOf(k) ==
  LET ms == Extensions(k, "ioMapping")
  IN {j \in DOMAIN doc : \E m \in ms : doc[m].closed /\ doc[j].parent = m}

EntryMeant(k) ==
  [tag |-> doc[k].start.tag, source |-> doc[k].start.source, target |-> doc[k].start.target]

(* entries says what the positions in S say, in document order.            *)
Lists(entries, S) ==
  /\ Len(entries) = Cardinality(S)
  /\ \A k \in S : entries[Place(k, S)] = EntryMeant(k)

TypeMeant(k) ==
  LET ts == Extensions(k, "taskDefinition")
  IN IF ts = {} THEN NoId ELSE doc[CHOOSE j \in ts : TRUE].start.type

SaysNode(n, k) ==
  LET t == doc[k].start IN
  /\ n.tag = IF t.tag = "other" THEN "unsupported" ELSE t.tag
  /\ n.id = t.id
  /\ n.default = IF t.tag = "exclusiveGateway" THEN t.default ELSE NoId
  /\ n.type = IF t.tag = "serviceTask" THEN TypeMeant(k) ELSE NoId
  /\ Lists(n.io, IF t.tag \in {"serviceTask", "manualTask"} THEN EntriesOf(k) ELSE {})

(* The closed conditions of flow k.                                        *)
Conditions(k) ==
  {j \in DOMAIN doc : /\ doc[j].parent = k /\ doc[j].closed
                      /\ doc[j].start.tag = "conditionExpression"}

ConditionMeant(k) ==
  IF Conditions(k) = {} THEN <<>> ELSE doc[CHOOSE j \in Conditions(k) : TRUE].texts

SaysFlow(f, k) ==
  LET t == doc[k].start IN
  /\ f.id = t.id /\ f.source = t.source /\ f.target = t.target
  /\ f.condition = ConditionMeant(k)

(* The nodes are the closed children of the first executable process, in   *)
(* document order, each with the task type and the mapping of its own      *)
(* extension elements: nothing of a nested, skipped or foreign subtree     *)
(* leaks into the process or into a task (parse.rs 143-325, 431-460).      *)
NodesMatch ==
  LET S == NodesOfDoc IN
  /\ Len(nodes) = Cardinality(S)
  /\ \A k \in S : SaysNode(nodes[Place(k, S)], k)

(* The same for the flows; a condition is all the text of its element,     *)
(* however many pieces the reader delivers it in (parse.rs 106-110, 253,   *)
(* 384-423).                                                               *)
FlowsMatch ==
  LET S == FlowsOfDoc IN
  /\ Len(flows) = Cardinality(S)
  /\ \A k \in S : SaysFlow(flows[Place(k, S)], k)

(* A process is found if and only if the document has an executable one    *)
(* with an id, and it is the first executable one (parse.rs 119-125,       *)
(* 222-238).                                                               *)
FindsTheProcess ==
  result # "reading" =>
    (result = "ok") = \E k \in DOMAIN doc : Captured(k) /\ doc[k].start.id # NoId

-----------------------------------------------------------------------------
(* The inductive invariant: while the parser is inside a document, each    *)
(* open element has an item on the stack that says what has been read of   *)
(* it (parse.rs 88-141, 327-460).                                          *)

Task == {"serviceTask", "manualTask"}
InProcessKind == FlowNode \cup {"unsupported", "sequenceFlow"}
ContainerKind == {"definitions", "extensionElements", "conditionExpression", "ioMapping"}
Kind == {"root", "skip", "process"} \cup InProcessKind \cup ContainerKind

Mapping == [tag : {"input", "output"}, source : Attribute, target : Attribute]

Items == [kind : Kind, start : Tagged, content : Seq(Text), type : Attribute, io : Seq(Mapping)]

ParserTypeOK ==
  /\ doc \in Seq([start : Tagged, closed : BOOLEAN, texts : Seq(Text), parent : Nat])
  /\ open \in Seq(DOMAIN doc)
  /\ stack \in Seq(Items) /\ stack # <<>>
  /\ process \subseteq Attribute
  /\ result \in {"reading", "ok", "none"}

ParsedNode == [tag : FlowNode \cup {"unsupported"}, id : Attribute, io : Seq(Mapping),
               type : Attribute, default : Attribute]

ParsedFlow == [id : Attribute, source : Attribute, target : Attribute,
               condition : Seq(Text), default : BOOLEAN]

ParsedTypeOK == nodes \in Seq(ParsedNode) /\ flows \in Seq(ParsedFlow)

(* The document nests, and what is open is a path from its root to the     *)
(* last element that is not closed.                                        *)
DocOK ==
  /\ \A k \in DOMAIN doc :
       /\ doc[k].parent < k
       /\ doc[k].parent = 0 <=> k = 1
       /\ IF k = 1 THEN doc[k].start.tag = "definitions"
          ELSE doc[k].start.tag \in CanContain(doc[doc[k].parent].start.tag)
       /\ doc[k].start.tag \in Single =>
            \A j \in DOMAIN doc :
              doc[j].parent = doc[k].parent /\ doc[j].start.tag = doc[k].start.tag => j = k
       /\ Len(doc[k].texts) <= MaxTexts
       /\ doc[k].closed <=> \A n \in DOMAIN open : open[n] # k
  /\ \A n \in DOMAIN open :
       /\ doc[open[n]].parent = IF n = 1 THEN 0 ELSE open[n - 1]
       /\ \A m \in 1..(n - 1) : open[m] < open[n]
       /\ \A k \in DOMAIN doc : k > open[n] => doc[k].parent >= open[n]

(* The kind of the item of element k, on top of one of kind below.         *)
KindOn(below, k) ==
  LET tag == doc[k].start.tag IN
  CASE below # "skip" /\ tag \in ContainerKind -> tag
    [] below # "skip" /\ tag = "process" /\ Captured(k) -> "process"
    [] below = "process" /\ tag \in FlowNode \cup {"sequenceFlow"} -> tag
    [] below = "process" /\ tag = "other" -> "unsupported"
    [] OTHER -> "skip"

(* The entries item i should have by now if it is that of element k.       *)
EntriesSoFar(i, k) ==
  CASE i.kind \in Task -> EntriesOf(k)
    [] i.kind = "ioMapping" -> {j \in DOMAIN doc : doc[j].parent = k}
    [] OTHER -> {}

ItemOK(i, k) ==
  /\ i.kind # "skip" => i.start = doc[k].start
  /\ i.kind = "conditionExpression" => i.content = doc[k].texts
  /\ i.kind = "sequenceFlow" => i.content = ConditionMeant(k)
  /\ i.type = IF i.kind = "serviceTask" THEN TypeMeant(k) ELSE NoId
  /\ Lists(i.io, EntriesSoFar(i, k))

StackOK ==
  /\ doc = <<>> => open = <<>> /\ stack = <<Item("root", Blank)>>
  /\ open # <<>> => Len(stack) = Len(open) + 1 /\ stack[1].kind = "root"
  /\ \A n \in DOMAIN open :
       /\ stack[n + 1].kind = KindOn(stack[n].kind, open[n])
       /\ ItemOK(stack[n + 1], open[n])

ProcessIsCaptured == process = {doc[k].start.id : k \in {j \in DOMAIN doc : Captured(j)}}

ParserInv ==
  /\ ParserTypeOK /\ ParsedTypeOK
  /\ DocOK
  /\ StackOK
  /\ ProcessIsCaptured
  /\ NodesMatch
  /\ FlowsMatch
  /\ FindsTheProcess

-----------------------------------------------------------------------------
Plain(n) == [tag |-> n.tag, id |-> n.id, default |-> n.default, type |-> n.type]

ConditionText == UNION {[1..n -> Text] : n \in 1..MaxTexts}

Builder == INSTANCE BpmnProcess WITH
             ConditionText <- ConditionText,
             NoCondition <- <<>>,
             nodes <- [k \in DOMAIN nodes |-> Plain(nodes[k])],
             flows <- flows

(* The parser builds the process node by node and flow by flow; nothing    *)
(* appended is ever revised (finish_item, parse.rs 334-429).               *)
RefinesBuilder == Builder!Spec

-----------------------------------------------------------------------------
(* "A flow is the default of a gateway if a gateway lists it as `default`" *)
(* (parse.rs 391).                                                         *)
DefaultIffListed ==
  result = "ok" =>
    \A k \in DOMAIN flows :
      flows[k].default = \E n \in DOMAIN nodes : /\ nodes[n].tag = "exclusiveGateway"
                                                 /\ nodes[n].default = flows[k].id
                                                 /\ nodes[n].default # NoId
=============================================================================
