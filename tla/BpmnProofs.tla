----------------------------- MODULE BpmnProofs -----------------------------
(***************************************************************************)
(* The BPMN parser reads every document right, whatever its length, its    *)
(* nesting and the pieces its texts come in.                               *)
(*                                                                         *)
(* While the parser is inside a document, the open elements are a path     *)
(* from the root to the innermost one (DocOK), and the item on the stack   *)
(* for each says what has been read of it so far (StackOK): its start tag  *)
(* unless it is skipped, the text of a condition, the type and the entries *)
(* of a task. A start tag pushes an item of which nothing has been read; a *)
(* type, an entry or a text goes to the one item it belongs to, because    *)
(* there is one task at most on the stack (Depths, TypeWritten,            *)
(* MappingWritten); an end tag hands the item down or appends it. What is  *)
(* meant by a closed element never changes again (StartSays, TextSays,     *)
(* EndSays), so an appended node stays right, and the elements of a        *)
(* process close in document order (EndElements), so it is at its place.   *)
(* The theorems at the end follow from the invariant; the last one relates *)
(* the steps to those of the builder.                                      *)
(***************************************************************************)
EXTENDS BpmnDeployment, FiniteSetTheorems, SequenceTheorems, TLAPS

-----------------------------------------------------------------------------
(* Sequences.                                                              *)

(* A sequence over a set is one over a larger set.                         *)
LEMMA SeqMore ==
  ASSUME NEW A, NEW B, A \subseteq B, NEW s \in Seq(A)
  PROVE  s \in Seq(B)
OBVIOUS

(* A sequence without its last element.                                    *)
LEMMA Popped ==
  ASSUME NEW A, NEW s \in Seq(A), Len(s) >= 1
  PROVE  /\ SubSeq(s, 1, Len(s) - 1) \in Seq(A)
         /\ Len(SubSeq(s, 1, Len(s) - 1)) = Len(s) - 1
         /\ \A n \in 1..(Len(s) - 1) : SubSeq(s, 1, Len(s) - 1)[n] = s[n]
<1>1. Len(s) \in Nat /\ \A n \in 1..Len(s) : s[n] \in A
  OBVIOUS
<1> DEFINE l == Len(s) - 1
<1>2. /\ l \in Nat /\ l \in Int /\ 1 \in Int
      /\ l - 1 + 1 = l
      /\ 1 <= l \/ l = 0
      /\ \A i \in 1..l : i \in 1..Len(s)
      /\ \A i \in 1..l : 1 + i - 1 = i
  <2>1. l \in Nat /\ l < Len(s)
    BY <1>1
  <2> HIDE DEF l
  <2>2. \A i \in 1..l : i \in 1..Len(s)
    BY <1>1, <2>1
  <2>3. \A i \in 1..l : 1 + i - 1 = i
    OBVIOUS
  <2> QED
    BY <2>1, <2>2, <2>3
<1>3. \A i \in 1..l : s[i] \in A
  BY <1>1, <1>2
<1> HIDE DEF l
<1>4. SubSeq(s, 1, l) \in Seq(A)
  BY <1>2, <1>3, SubSeqProperties
<1>5. Len(SubSeq(s, 1, l)) = IF 1 <= l THEN l - 1 + 1 ELSE 0
  BY <1>2, <1>3, SubSeqProperties
<1>6. \A i \in 1..(l - 1 + 1) : SubSeq(s, 1, l)[i] = s[1 + i - 1]
  BY <1>2, <1>3, SubSeqProperties
<1>7. Len(SubSeq(s, 1, l)) = l
  BY <1>2, <1>5
<1>8. \A i \in 1..l : SubSeq(s, 1, l)[i] = s[i]
  BY <1>2, <1>6
<1> QED
  BY <1>4, <1>7, <1>8 DEF l

-----------------------------------------------------------------------------
(* Counting positions.                                                     *)

(* A position after all those in S is the last of them when it is added,   *)
(* and the others keep their places.                                       *)
LEMMA Places ==
  ASSUME NEW S, IsFiniteSet(S), S \subseteq Nat, NEW x \in Nat, \A j \in S : j < x
  PROVE  /\ Cardinality(S) \in Nat
         /\ Cardinality(S \cup {x}) = Cardinality(S) + 1
         /\ Place(x, S \cup {x}) = Cardinality(S) + 1
         /\ \A k \in S : /\ Place(k, S \cup {x}) = Place(k, S)
                         /\ Place(k, S) \in 1..Cardinality(S)
<1>1. Cardinality(S) \in Nat
  BY FS_CardinalityType
<1>2. Cardinality(S \cup {x}) = Cardinality(S) + 1
  BY FS_AddElement
<1>3. {j \in S \cup {x} : j <= x} = S \cup {x}
  <2>1. \A j \in S \cup {x} : j \in Nat /\ j <= x
    OBVIOUS
  <2> QED
    BY <2>1, Zenon
<1>4. ASSUME NEW k \in S
      PROVE  Place(k, S \cup {x}) = Place(k, S) /\ Place(k, S) \in 1..Cardinality(S)
  <2> DEFINE P == {j \in S : j <= k}
  <2>1. {j \in S \cup {x} : j <= k} = P
    OBVIOUS
  <2>2. P \subseteq S
    OBVIOUS
  <2>3. IsFiniteSet(P) /\ Cardinality(P) <= Cardinality(S)
    BY <2>2, FS_Subset
  <2>4. k \in P
    OBVIOUS
  <2>5. Cardinality(P) \in Nat /\ Cardinality(P) # 0
    BY <2>3, <2>4, FS_CardinalityType, FS_EmptySet
  <2> QED
    BY <1>1, <2>1, <2>3, <2>5 DEF Place
<1> QED
  BY <1>1, <1>2, <1>3, <1>4 DEF Place

(* Sets of positions of the document are finite.                           *)
LEMMA PositionsFinite ==
  ASSUME ParserTypeOK, NEW S, S \subseteq DOMAIN doc
  PROVE  IsFiniteSet(S) /\ S \subseteq Nat
<1>1. DOMAIN doc = 1..Len(doc) /\ Len(doc) \in Nat
  BY DEF ParserTypeOK
<1>2. IsFiniteSet(1..Len(doc))
  BY <1>1, FS_Interval
<1>3. IsFiniteSet(S)
  BY <1>1, <1>2, FS_Subset
<1>4. S \subseteq Nat
  BY <1>1
<1> QED
  BY <1>3, <1>4

(* The document, the open elements and the stack are sequences of          *)
(* positions, tags and items.                                              *)
LEMMA DocFacts ==
  ASSUME ParserTypeOK
  PROVE  /\ Len(doc) \in Nat /\ DOMAIN doc = 1..Len(doc)
         /\ Len(open) \in Nat /\ DOMAIN open = 1..Len(open)
         /\ Len(stack) \in Nat /\ Len(stack) >= 1 /\ DOMAIN stack = 1..Len(stack)
         /\ \A n \in 1..Len(open) : open[n] \in Nat /\ 1 <= open[n] /\ open[n] <= Len(doc)
         /\ \A k \in 1..Len(doc) : doc[k].parent \in Nat
         /\ open = <<>> <=> Len(open) = 0
         /\ doc = <<>> <=> Len(doc) = 0
<1> DEFINE E == [start : Tagged, closed : BOOLEAN, texts : Seq(Text), parent : Nat]
<1>1. doc \in Seq(E) /\ open \in Seq(DOMAIN doc) /\ stack \in Seq(Items) /\ stack # <<>>
  BY DEF ParserTypeOK
<1>2. \A r \in E : r.parent \in Nat
  OBVIOUS
<1> HIDE DEF E
<1>3. Len(doc) \in Nat /\ DOMAIN doc = 1..Len(doc) /\ \A k \in 1..Len(doc) : doc[k] \in E
  BY <1>1
<1>4. Len(open) \in Nat /\ DOMAIN open = 1..Len(open) /\ \A n \in 1..Len(open) : open[n] \in 1..Len(doc)
  BY <1>1, <1>3
<1>5. Len(stack) \in Nat /\ Len(stack) >= 1 /\ DOMAIN stack = 1..Len(stack)
  BY <1>1
<1>6. (open = <<>> <=> Len(open) = 0) /\ (doc = <<>> <=> Len(doc) = 0)
  BY <1>1
<1> QED
  BY <1>2, <1>3, <1>4, <1>5, <1>6

-----------------------------------------------------------------------------
(* The document.                                                           *)

(* How the document and its open elements nest.                            *)
LEMMA Parents ==
  ASSUME ParserTypeOK, DocOK, NEW k \in 1..Len(doc)
  PROVE  /\ doc[k].parent \in Nat /\ doc[k].parent < k
         /\ doc[k].parent = 0 <=> k = 1
         /\ k # 1 => doc[k].parent \in 1..Len(doc)
<1>1. doc[k].parent \in Nat /\ Len(doc) \in Nat /\ k \in DOMAIN doc
  BY DocFacts
<1>2. doc[k].parent < k /\ (doc[k].parent = 0 <=> k = 1)
  BY <1>1 DEF DocOK
<1> QED
  BY <1>1, <1>2

(* An element is one that its parent can contain; its texts are bounded.   *)
LEMMA Tags ==
  ASSUME ParserTypeOK, DocOK, NEW k \in 1..Len(doc)
  PROVE  /\ k = 1 => doc[k].start.tag = "definitions"
         /\ k # 1 => doc[k].start.tag \in CanContain(doc[doc[k].parent].start.tag)
         /\ Len(doc[k].texts) <= MaxTexts
BY DocFacts DEF DocOK

(* Siblings of one name are one element where BPMN allows only one.        *)
LEMMA Singles ==
  ASSUME ParserTypeOK, DocOK, NEW k \in 1..Len(doc), doc[k].start.tag \in Single,
         NEW j \in 1..Len(doc),
         doc[j].parent = doc[k].parent, doc[j].start.tag = doc[k].start.tag
  PROVE  j = k
BY DocFacts DEF DocOK

(* An element is closed if and only if it is not open.                     *)
LEMMA ClosedOrOpen ==
  ASSUME ParserTypeOK, DocOK, NEW k \in 1..Len(doc)
  PROVE  doc[k].closed <=> \A n \in 1..Len(open) : open[n] # k
BY DocFacts DEF DocOK

(* Each open element is the child of the one before it, and everything     *)
(* after it in the document is inside it.                                  *)
LEMMA OpenPath ==
  ASSUME ParserTypeOK, DocOK, NEW n \in 1..Len(open)
  PROVE  /\ open[n] \in 1..Len(doc)
         /\ doc[open[n]].parent = IF n = 1 THEN 0 ELSE open[n - 1]
         /\ \A m \in 1..(n - 1) : open[m] < open[n]
         /\ \A k \in 1..Len(doc) : k > open[n] => doc[k].parent >= open[n]
<1>1. DOMAIN open = 1..Len(open) /\ DOMAIN doc = 1..Len(doc) /\ Len(doc) \in Nat
      /\ open[n] \in 1..Len(doc)
  BY DocFacts
<1>2. n \in DOMAIN open
  BY <1>1
<1> QED
  BY <1>1, <1>2 DEF DocOK

(* The parent of what comes next is the last open element.                 *)
LEMMA InnermostOpen ==
  ASSUME ParserTypeOK, open # <<>>
  PROVE  /\ Len(open) \in 1..Len(open)
         /\ Parent = open[Len(open)]
         /\ Parent \in 1..Len(doc)
BY DocFacts DEF Parent

(* A new element is the last one, a child of the innermost open one.       *)
LEMMA StartInDoc ==
  ASSUME ParserTypeOK, DocOK, StackOK, NEW t \in Tagged, NEW e \in BOOLEAN, Start(t, e)
  PROVE  /\ doc' \in Seq([start : Tagged, closed : BOOLEAN, texts : Seq(Text), parent : Nat])
         /\ open' \in Seq(DOMAIN doc')
         /\ DOMAIN doc' = 1..(Len(doc) + 1)
         /\ \A k \in 1..Len(doc) : doc'[k] = doc[k]
         /\ doc'[Len(doc) + 1] = [start |-> t, closed |-> e, texts |-> <<>>, parent |-> Parent]
         /\ Parent \in 0..Len(doc)
         /\ open = <<>> => Parent = 0 /\ doc = <<>> /\ t.tag = "definitions"
         /\ open # <<>> =>
              /\ Parent = open[Len(open)] /\ Parent \in 1..Len(doc)
              /\ t.tag \in CanContain(doc[Parent].start.tag)
              /\ t.tag \in Single =>
                   \A k \in 1..Len(doc) : doc[k].parent = Parent => doc[k].start.tag # t.tag
         /\ DOMAIN open' = IF e THEN DOMAIN open ELSE 1..(Len(open) + 1)
         /\ ~e => open'[Len(open) + 1] = Len(doc) + 1
         /\ \A n \in 1..Len(open) : open'[n] = open[n]
<1> DEFINE E == [start : Tagged, closed : BOOLEAN, texts : Seq(Text), parent : Nat]
           x == Len(doc) + 1
           new == [start |-> t, closed |-> e, texts |-> <<>>, parent |-> Parent]
<1>1. /\ Len(doc) \in Nat /\ DOMAIN doc = 1..Len(doc)
      /\ Len(open) \in Nat /\ DOMAIN open = 1..Len(open)
      /\ \A n \in 1..Len(open) : open[n] \in 1..Len(doc)
      /\ open = <<>> <=> Len(open) = 0
  BY DocFacts
<1>2. Parent \in 0..Len(doc) /\ (open = <<>> => Parent = 0)
      /\ (open # <<>> => Parent = open[Len(open)] /\ Parent \in 1..Len(doc))
  BY <1>1 DEF Parent
<1>3. doc' = Append(doc, new) /\ doc \in Seq(E) /\ open \in Seq(DOMAIN doc)
  BY DEF Start, ParserTypeOK
<1>4. new \in E
  BY <1>2
<1>5. new = [start |-> t, closed |-> e, texts |-> <<>>, parent |-> Parent]
  OBVIOUS
<1> HIDE DEF E, new
<1>6. doc' \in Seq(E) /\ Len(doc') = x /\ DOMAIN doc' = 1..x /\ doc'[x] = new
      /\ \A k \in 1..Len(doc) : doc'[k] = doc[k]
  BY <1>1, <1>3, <1>4
<1>7. open' = IF e THEN open ELSE Append(open, x)
  BY DEF Start
<1>8. open \in Seq(DOMAIN doc') /\ x \in DOMAIN doc'
  <2>1. DOMAIN doc \subseteq DOMAIN doc' /\ x \in DOMAIN doc'
    BY <1>1, <1>6
  <2> QED
    BY <1>3, <2>1, SeqMore
<1>9. /\ open' \in Seq(DOMAIN doc')
      /\ DOMAIN open' = IF e THEN DOMAIN open ELSE 1..(Len(open) + 1)
      /\ ~e => open'[Len(open) + 1] = x
      /\ \A n \in 1..Len(open) : open'[n] = open[n]
  <2> DEFINE D == DOMAIN doc'
  <2> HIDE DEF D
  <2>1. open \in Seq(D) /\ x \in D
    BY <1>8 DEF D
  <2>2. CASE e
    BY <1>1, <1>7, <2>1, <2>2 DEF D
  <2>3. CASE ~e
    BY <1>1, <1>7, <2>1, <2>3 DEF D
  <2> QED
    BY <2>2, <2>3
<1>10. open = <<>> => doc = <<>> /\ t.tag = "definitions"
  BY DEF Start, Allowed
<1>11. open # <<>> =>
         /\ t.tag \in CanContain(doc[Parent].start.tag)
         /\ t.tag \in Single => \A k \in 1..Len(doc) : doc[k].parent = Parent => doc[k].start.tag # t.tag
  BY <1>1 DEF Start, Allowed
<1> QED
  BY <1>1, <1>2, <1>5, <1>6, <1>9, <1>10, <1>11 DEF E

(* The document still nests with it.                                       *)
LEMMA StartNests ==
  ASSUME ParserTypeOK, DocOK, StackOK, NEW t \in Tagged, NEW e \in BOOLEAN, Start(t, e)
  PROVE  DocOK'
<1> DEFINE x == Len(doc) + 1
           l == Len(open)
<1>1. /\ Len(doc) \in Nat /\ DOMAIN doc = 1..Len(doc)
      /\ l \in Nat /\ DOMAIN open = 1..l
      /\ \A n \in 1..l : open[n] \in 1..Len(doc)
      /\ \A k \in 1..Len(doc) : doc[k].parent \in Nat
      /\ open = <<>> <=> l = 0
      /\ doc = <<>> <=> Len(doc) = 0
  BY DocFacts
<1>2. /\ DOMAIN doc' = 1..x
      /\ \A k \in 1..Len(doc) : doc'[k] = doc[k]
      /\ doc'[x].start = t /\ doc'[x].closed = e /\ doc'[x].texts = <<>> /\ doc'[x].parent = Parent
      /\ Parent \in 0..Len(doc)
      /\ l = 0 => Parent = 0 /\ Len(doc) = 0 /\ t.tag = "definitions"
      /\ l # 0 =>
              /\ Parent = open[l] /\ Parent \in 1..Len(doc)
              /\ t.tag \in CanContain(doc[Parent].start.tag)
              /\ t.tag \in Single =>
                   \A k \in 1..Len(doc) : doc[k].parent = Parent => doc[k].start.tag # t.tag
      /\ DOMAIN open' = IF e THEN 1..l ELSE 1..(l + 1)
      /\ ~e => open'[l + 1] = x
      /\ \A n \in 1..l : open'[n] = open[n]
  <2>1. doc'[x] = [start |-> t, closed |-> e, texts |-> <<>>, parent |-> Parent]
    BY StartInDoc
  <2>2. doc'[x].start = t /\ doc'[x].closed = e /\ doc'[x].texts = <<>> /\ doc'[x].parent = Parent
    BY <2>1
  <2>3. /\ DOMAIN doc' = 1..x
        /\ \A k \in 1..Len(doc) : doc'[k] = doc[k]
        /\ Parent \in 0..Len(doc)
        /\ \A n \in 1..l : open'[n] = open[n]
    BY StartInDoc
  <2>4. l = 0 => Parent = 0 /\ Len(doc) = 0 /\ t.tag = "definitions"
    BY <1>1, StartInDoc
  <2>5. l # 0 =>
          /\ Parent = open[l] /\ Parent \in 1..Len(doc)
          /\ t.tag \in CanContain(doc[Parent].start.tag)
          /\ t.tag \in Single =>
               \A k \in 1..Len(doc) : doc[k].parent = Parent => doc[k].start.tag # t.tag
    BY <1>1, StartInDoc
  <2>6. (DOMAIN open' = IF e THEN 1..l ELSE 1..(l + 1)) /\ (~e => open'[l + 1] = x)
    BY <1>1, StartInDoc
  <2> QED
    BY <2>2, <2>3, <2>4, <2>5, <2>6
<1>3. \A k \in 1..Len(doc) :
        /\ doc[k].parent < k
        /\ doc[k].parent = 0 <=> k = 1
        /\ IF k = 1 THEN doc[k].start.tag = "definitions"
           ELSE doc[k].start.tag \in CanContain(doc[doc[k].parent].start.tag)
        /\ doc[k].start.tag \in Single =>
             \A j \in 1..Len(doc) :
               doc[j].parent = doc[k].parent /\ doc[j].start.tag = doc[k].start.tag => j = k
        /\ Len(doc[k].texts) <= MaxTexts
        /\ doc[k].closed <=> \A n \in 1..l : open[n] # k
  BY <1>1 DEF DocOK
<1>4. \A n \in 1..l :
        /\ doc[open[n]].parent = IF n = 1 THEN 0 ELSE open[n - 1]
        /\ \A m \in 1..(n - 1) : open[m] < open[n]
        /\ \A k \in 1..Len(doc) : k > open[n] => doc[k].parent >= open[n]
  BY <1>1 DEF DocOK
<1> HIDE DEF l
<1>5. ASSUME NEW k \in 1..x
      PROVE  /\ doc'[k].parent < k
             /\ doc'[k].parent = 0 <=> k = 1
             /\ IF k = 1 THEN doc'[k].start.tag = "definitions"
                ELSE doc'[k].start.tag \in CanContain(doc'[doc'[k].parent].start.tag)
             /\ Len(doc'[k].texts) <= MaxTexts
  <2>1. CASE k = x /\ l = 0
    BY <1>1, <1>2, <2>1, ParserAssumption
  <2>2. CASE k = x /\ l # 0
    <3>1. Len(doc) # 0 /\ x # 1 /\ Parent # 0 /\ Parent < x
      BY <1>1, <1>2, <2>2
    <3>2. doc'[x].parent = Parent /\ doc'[Parent] = doc[Parent]
      BY <1>2, <2>2
    <3>3. Len(doc'[x].texts) <= MaxTexts
      <4>1. Len(<<>>) <= MaxTexts
        BY ParserAssumption
      <4> QED
        BY <1>2, <4>1
    <3> QED
      BY <1>2, <2>2, <3>1, <3>2, <3>3
  <2>3. CASE k \in 1..Len(doc)
    <3>1. k # 1 => doc[k].parent \in 1..Len(doc)
      <4>1. doc[k].parent \in Nat
        BY <1>1, <2>3
      <4>2. doc[k].parent < k /\ (doc[k].parent = 0 <=> k = 1)
        BY <1>3, <2>3
      <4> QED
        BY <1>1, <2>3, <4>1, <4>2
    <3>2. doc'[k] = doc[k] /\ (k # 1 => doc'[doc[k].parent] = doc[doc[k].parent])
      BY <1>2, <2>3, <3>1
    <3> QED
      BY <1>3, <2>3, <3>2
  <2> QED
    BY <1>1, <2>1, <2>2, <2>3
<1>6. ASSUME NEW k \in 1..x, doc'[k].start.tag \in Single, NEW j \in 1..x,
             doc'[j].parent = doc'[k].parent, doc'[j].start.tag = doc'[k].start.tag
      PROVE  j = k
  <2>1. CASE l = 0
    BY <1>1, <1>2, <2>1
  <2>2. CASE l # 0 /\ k = x /\ j \in 1..Len(doc)
    <3>1. doc'[j] = doc[j] /\ doc[j].parent = Parent /\ doc[j].start.tag = t.tag /\ t.tag \in Single
      BY <1>2, <1>6, <2>2
    <3> QED
      BY <1>2, <2>2, <3>1
  <2>3. CASE l # 0 /\ k \in 1..Len(doc) /\ j = x
    <3>1. doc'[k] = doc[k] /\ doc[k].parent = Parent /\ doc[k].start.tag = t.tag /\ t.tag \in Single
      BY <1>2, <1>6, <2>3
    <3> QED
      BY <1>2, <2>3, <3>1
  <2>4. CASE k \in 1..Len(doc) /\ j \in 1..Len(doc)
    <3>1. doc'[k] = doc[k] /\ doc'[j] = doc[j]
      BY <1>2, <2>4
    <3> QED
      BY <1>3, <1>6, <2>4, <3>1
  <2> QED
    BY <1>1, <2>1, <2>2, <2>3, <2>4
<1>7. ASSUME NEW k \in 1..x
      PROVE  doc'[k].closed <=> \A n \in DOMAIN open' : open'[n] # k
  <2>1. CASE k = x /\ e
    <3>1. DOMAIN open' = 1..l /\ \A n \in 1..l : open'[n] # x
      BY <1>1, <1>2, <2>1
    <3> QED
      BY <1>2, <2>1, <3>1
  <2>2. CASE k = x /\ ~e
    <3>1. l + 1 \in DOMAIN open' /\ open'[l + 1] = x
      BY <1>1, <1>2, <2>2
    <3> QED
      BY <1>2, <2>2, <3>1
  <2>3. CASE k \in 1..Len(doc)
    <3>1. doc'[k] = doc[k] /\ (doc[k].closed <=> \A n \in 1..l : open[n] # k)
      BY <1>2, <1>3, <2>3
    <3>2. \A n \in DOMAIN open' : n \in 1..l \/ open'[n] = x
      BY <1>1, <1>2
    <3>3. k # x /\ 1..l \subseteq DOMAIN open'
      BY <1>1, <1>2, <2>3
    <3> QED
      BY <1>2, <3>1, <3>2, <3>3
  <2> QED
    BY <1>1, <2>1, <2>2, <2>3
<1>8. ASSUME NEW n \in DOMAIN open'
      PROVE  /\ doc'[open'[n]].parent = IF n = 1 THEN 0 ELSE open'[n - 1]
             /\ \A m \in 1..(n - 1) : open'[m] < open'[n]
             /\ \A k \in 1..x : k > open'[n] => doc'[k].parent >= open'[n]
  <2>1. CASE n \in 1..l
    <3>1. open'[n] = open[n] /\ doc'[open[n]] = doc[open[n]]
      BY <1>1, <1>2, <2>1
    <3>2. \A m \in 1..(n - 1) : m \in 1..l /\ open'[m] = open[m]
      BY <1>1, <1>2, <2>1
    <3>3. n # 1 => open'[n - 1] = open[n - 1]
      BY <1>1, <2>1, <3>2
    <3>4. Parent >= open[n]
      <4>1. l \in 1..l /\ n <= l /\ Parent = open[l] /\ open[l] \in Nat /\ open[n] \in Nat
        BY <1>1, <1>2, <2>1
      <4>2. n < l => n \in 1..(l - 1)
        BY <1>1, <2>1
      <4>3. n < l => open[n] < open[l]
        BY <1>4, <4>1, <4>2
      <4> QED
        BY <1>1, <2>1, <4>1, <4>3
    <3>5. \A k \in 1..x : k > open[n] => doc'[k].parent >= open[n]
      <4>1. \A k \in 1..Len(doc) : k > open[n] => doc'[k].parent >= open[n]
        BY <1>2, <1>4, <2>1
      <4>2. doc'[x].parent >= open[n]
        BY <1>2, <3>4
      <4>3. \A k \in 1..x : k = x \/ k \in 1..Len(doc)
        BY <1>1
      <4> QED
        BY <4>1, <4>2, <4>3
    <3>6. \A m \in 1..(n - 1) : open'[m] < open'[n]
      BY <1>4, <2>1, <3>1, <3>2
    <3> QED
      BY <1>4, <2>1, <3>1, <3>3, <3>5, <3>6
  <2>2. CASE n \notin 1..l
    <3>1. ~e /\ n = l + 1 /\ open'[n] = x
      BY <1>1, <1>2, <2>2
    <3>2. doc'[x].parent = IF n = 1 THEN 0 ELSE open'[n - 1]
      BY <1>1, <1>2, <3>1
    <3>3. \A m \in 1..(n - 1) : open'[m] < x
      BY <1>1, <1>2, <3>1
    <3>4. \A k \in 1..x : ~(k > x)
      BY <1>1
    <3> QED
      BY <3>1, <3>2, <3>3, <3>4
  <2> QED
    BY <2>1, <2>2
<1> QED
  BY <1>2, <1>5, <1>6, <1>7, <1>8 DEF DocOK

(* An end tag closes the innermost open element.                           *)
LEMMA EndInDoc ==
  ASSUME ParserTypeOK, End
  PROVE  /\ open # <<>>
         /\ doc' \in Seq([start : Tagged, closed : BOOLEAN, texts : Seq(Text), parent : Nat])
         /\ Len(doc') = Len(doc) /\ DOMAIN doc' = 1..Len(doc)
         /\ \A k \in 1..Len(doc) :
              /\ doc'[k].start = doc[k].start /\ doc'[k].parent = doc[k].parent
              /\ doc'[k].texts = doc[k].texts
              /\ doc'[k].closed <=> doc[k].closed \/ k = Parent
         /\ open' \in Seq(DOMAIN doc')
         /\ Len(open') = Len(open) - 1 /\ DOMAIN open' = 1..(Len(open) - 1)
         /\ \A n \in 1..(Len(open) - 1) : open'[n] = open[n]
<1> DEFINE E == [start : Tagged, closed : BOOLEAN, texts : Seq(Text), parent : Nat]
           l == Len(open)
           p == Parent
<1>1. open # <<>> /\ doc' = [doc EXCEPT ![p].closed = TRUE] /\ open' = SubSeq(open, 1, l - 1)
  BY DEF End
<1>2. l \in Nat /\ l >= 1 /\ p \in 1..Len(doc) /\ DOMAIN doc = 1..Len(doc) /\ Len(doc) \in Nat
  BY <1>1, DocFacts, InnermostOpen
<1>3. doc \in Seq(E) /\ open \in Seq(DOMAIN doc)
  BY DEF ParserTypeOK
<1>4. \A r \in E : /\ [r EXCEPT !.closed = TRUE] \in E
                   /\ [r EXCEPT !.closed = TRUE].start = r.start
                   /\ [r EXCEPT !.closed = TRUE].parent = r.parent
                   /\ [r EXCEPT !.closed = TRUE].texts = r.texts
                   /\ [r EXCEPT !.closed = TRUE].closed = TRUE
  OBVIOUS
<1> HIDE DEF E, p
<1>5. \A k \in 1..Len(doc) : doc[k] \in E
  BY <1>2, <1>3
<1>6. doc' = [doc EXCEPT ![p] = [doc[p] EXCEPT !.closed = TRUE]]
  BY <1>1
<1>7. [doc[p] EXCEPT !.closed = TRUE] \in E
  BY <1>2, <1>4, <1>5
<1> DEFINE closed == [doc[p] EXCEPT !.closed = TRUE]
<1> HIDE DEF closed
<1>8. doc' = [doc EXCEPT ![p] = closed] /\ closed \in E
  BY <1>6, <1>7 DEF closed
<1>9. doc' \in Seq(E) /\ Len(doc') = Len(doc) /\ DOMAIN doc' = 1..Len(doc)
      /\ doc'[p] = closed /\ \A k \in 1..Len(doc) : k # p => doc'[k] = doc[k]
  BY <1>2, <1>3, <1>8
<1>10. /\ closed.start = doc[p].start /\ closed.parent = doc[p].parent
       /\ closed.texts = doc[p].texts /\ closed.closed = TRUE
  BY <1>2, <1>4, <1>5 DEF closed
<1>11. open' \in Seq(DOMAIN doc) /\ Len(open') = l - 1 /\ DOMAIN open' = 1..(l - 1)
       /\ \A n \in 1..(l - 1) : open'[n] = open[n]
  <2> DEFINE D == DOMAIN doc
  <2> HIDE DEF D
  <2>1. open \in Seq(D) /\ Len(open) = l
    BY <1>3 DEF D
  <2>2. SubSeq(open, 1, l - 1) \in Seq(D) /\ Len(SubSeq(open, 1, l - 1)) = l - 1
        /\ \A n \in 1..(l - 1) : SubSeq(open, 1, l - 1)[n] = open[n]
    BY <1>2, <2>1, Popped
  <2> QED
    BY <1>1, <1>2, <2>2 DEF D
<1> QED
  BY <1>1, <1>2, <1>9, <1>10, <1>11 DEF E, p

(* The end of an element keeps the document nested.                        *)
LEMMA EndNests ==
  ASSUME ParserTypeOK, DocOK, End
  PROVE  DocOK'
<1> DEFINE l == Len(open)
<1>1. /\ Len(doc) \in Nat /\ l \in Nat /\ l >= 1
      /\ \A n \in 1..l : open[n] \in 1..Len(doc)
      /\ Parent = open[l]
  BY DocFacts, InnermostOpen, EndInDoc
<1>2. /\ DOMAIN doc' = 1..Len(doc)
      /\ \A k \in 1..Len(doc) :
           /\ doc'[k].start = doc[k].start /\ doc'[k].parent = doc[k].parent
           /\ doc'[k].texts = doc[k].texts
           /\ doc'[k].closed <=> doc[k].closed \/ k = Parent
      /\ DOMAIN open' = 1..(l - 1)
      /\ \A n \in 1..(l - 1) : open'[n] = open[n]
  BY EndInDoc
<1> HIDE DEF l
<1>3. ASSUME NEW k \in 1..Len(doc)
      PROVE  /\ doc'[k].parent < k
             /\ doc'[k].parent = 0 <=> k = 1
             /\ k # 1 => doc'[k].parent \in 1..Len(doc)
  BY <1>2, Parents
<1>4. ASSUME NEW k \in 1..Len(doc)
      PROVE  /\ IF k = 1 THEN doc'[k].start.tag = "definitions"
                ELSE doc'[k].start.tag \in CanContain(doc'[doc'[k].parent].start.tag)
             /\ Len(doc'[k].texts) <= MaxTexts
  BY <1>2, <1>3, Tags
<1>7. ASSUME NEW k \in 1..Len(doc), doc'[k].start.tag \in Single, NEW j \in 1..Len(doc),
             doc'[j].parent = doc'[k].parent, doc'[j].start.tag = doc'[k].start.tag
      PROVE  j = k
  BY <1>2, <1>7, Singles
<1>5. ASSUME NEW k \in 1..Len(doc)
      PROVE  doc'[k].closed <=> \A n \in 1..(l - 1) : open'[n] # k
  <2>1. doc[k].closed <=> \A n \in 1..l : open[n] # k
    BY ClosedOrOpen DEF l
  <2>2. k = Parent => \A n \in 1..(l - 1) : open[n] # k
    BY <1>1, OpenPath DEF l
  <2>3. \A n \in 1..l : n = l \/ n \in 1..(l - 1)
    BY <1>1
  <2>4. (\A n \in 1..l : open[n] # k) <=> k # Parent /\ \A n \in 1..(l - 1) : open[n] # k
    BY <1>1, <2>3
  <2> QED
    BY <1>2, <2>1, <2>2, <2>4
<1>6. ASSUME NEW n \in 1..(l - 1)
      PROVE  /\ doc'[open'[n]].parent = IF n = 1 THEN 0 ELSE open'[n - 1]
             /\ \A m \in 1..(n - 1) : open'[m] < open'[n]
             /\ \A k \in 1..Len(doc) : k > open'[n] => doc'[k].parent >= open'[n]
  <2>1. n \in 1..l /\ open'[n] = open[n] /\ doc'[open[n]].parent = doc[open[n]].parent
    BY <1>1, <1>2
  <2>2. \A m \in 1..(n - 1) : open'[m] = open[m]
    BY <1>1, <1>2
  <2>3. n # 1 => open'[n - 1] = open[n - 1]
    BY <1>1, <2>2
  <2>4. /\ doc[open[n]].parent = IF n = 1 THEN 0 ELSE open[n - 1]
        /\ \A m \in 1..(n - 1) : open[m] < open[n]
        /\ \A k \in 1..Len(doc) : k > open[n] => doc[k].parent >= open[n]
    BY <2>1, OpenPath DEF l
  <2> QED
    BY <1>2, <2>1, <2>2, <2>3, <2>4
<1> QED
  BY <1>2, <1>3, <1>4, <1>5, <1>6, <1>7 DEF DocOK

(* A text is added to the innermost open element.                          *)
LEMMA TextInDoc ==
  ASSUME ParserTypeOK, NEW x \in Text, Characters(x)
  PROVE  /\ open # <<>> /\ UNCHANGED open
         /\ doc' \in Seq([start : Tagged, closed : BOOLEAN, texts : Seq(Text), parent : Nat])
         /\ Len(doc') = Len(doc) /\ DOMAIN doc' = 1..Len(doc)
         /\ \A k \in 1..Len(doc) :
              /\ doc'[k].start = doc[k].start /\ doc'[k].parent = doc[k].parent
              /\ doc'[k].closed = doc[k].closed
              /\ doc'[k].texts = IF k = Parent THEN Append(doc[k].texts, x) ELSE doc[k].texts
         /\ Len(doc[Parent].texts) < MaxTexts
         /\ Len(doc'[Parent].texts) <= MaxTexts
<1> DEFINE E == [start : Tagged, closed : BOOLEAN, texts : Seq(Text), parent : Nat]
           p == Parent
           said == [doc[p] EXCEPT !.texts = Append(@, x)]
<1>1. open # <<>> /\ doc' = [doc EXCEPT ![p].texts = Append(@, x)] /\ open' = open
      /\ Len(doc[p].texts) < MaxTexts
  BY DEF Characters
<1>2. p \in 1..Len(doc) /\ DOMAIN doc = 1..Len(doc) /\ Len(doc) \in Nat
  BY <1>1, DocFacts, InnermostOpen
<1>3. doc \in Seq(E)
  BY DEF ParserTypeOK
<1>4. \A r \in E : LET s == [r EXCEPT !.texts = Append(@, x)] IN
        /\ s \in E /\ s.start = r.start /\ s.parent = r.parent /\ s.closed = r.closed
        /\ s.texts = Append(r.texts, x) /\ Len(s.texts) = Len(r.texts) + 1 /\ Len(r.texts) \in Nat
  OBVIOUS
<1>5. doc' = [doc EXCEPT ![p] = said]
  BY <1>1
<1> HIDE DEF E, p
<1>6. \A k \in 1..Len(doc) : doc[k] \in E
  BY <1>2, <1>3
<1>7. /\ said \in E /\ said.start = doc[p].start /\ said.parent = doc[p].parent
      /\ said.closed = doc[p].closed /\ said.texts = Append(doc[p].texts, x)
      /\ Len(said.texts) = Len(doc[p].texts) + 1 /\ Len(doc[p].texts) \in Nat
  BY <1>2, <1>4, <1>6
<1> HIDE DEF said
<1>8. doc' \in Seq(E) /\ Len(doc') = Len(doc) /\ DOMAIN doc' = 1..Len(doc)
      /\ doc'[p] = said /\ \A k \in 1..Len(doc) : k # p => doc'[k] = doc[k]
  BY <1>2, <1>3, <1>5, <1>7
<1>9. Len(said.texts) <= MaxTexts
  BY <1>1, <1>7, ParserAssumption
<1> QED
  BY <1>1, <1>2, <1>7, <1>8, <1>9 DEF E, p

(* A text keeps the document nested.                                       *)
LEMMA TextNests ==
  ASSUME ParserTypeOK, DocOK, NEW x \in Text, Characters(x)
  PROVE  DocOK'
<1>1. /\ DOMAIN doc' = 1..Len(doc) /\ open' = open /\ DOMAIN open = 1..Len(open)
      /\ \A k \in 1..Len(doc) :
           /\ doc'[k].start = doc[k].start /\ doc'[k].parent = doc[k].parent
           /\ doc'[k].closed = doc[k].closed
           /\ k # Parent => doc'[k].texts = doc[k].texts
      /\ Len(doc'[Parent].texts) <= MaxTexts
  BY DocFacts, TextInDoc
<1>2. ASSUME NEW k \in 1..Len(doc)
      PROVE  /\ doc'[k].parent < k
             /\ doc'[k].parent = 0 <=> k = 1
             /\ k # 1 => doc'[k].parent \in 1..Len(doc)
  BY <1>1, Parents
<1>3. ASSUME NEW k \in 1..Len(doc)
      PROVE  /\ IF k = 1 THEN doc'[k].start.tag = "definitions"
                ELSE doc'[k].start.tag \in CanContain(doc'[doc'[k].parent].start.tag)
             /\ Len(doc'[k].texts) <= MaxTexts
  BY <1>1, <1>2, Tags
<1>5. ASSUME NEW k \in 1..Len(doc), doc'[k].start.tag \in Single, NEW j \in 1..Len(doc),
             doc'[j].parent = doc'[k].parent, doc'[j].start.tag = doc'[k].start.tag
      PROVE  j = k
  BY <1>1, <1>5, Singles
<1>6. ASSUME NEW k \in 1..Len(doc)
      PROVE  doc'[k].closed <=> \A n \in 1..Len(open) : open'[n] # k
  BY <1>1, ClosedOrOpen
<1>4. ASSUME NEW n \in 1..Len(open)
      PROVE  /\ doc'[open[n]].parent = IF n = 1 THEN 0 ELSE open[n - 1]
             /\ \A m \in 1..(n - 1) : open[m] < open[n]
             /\ \A k \in 1..Len(doc) : k > open[n] => doc'[k].parent >= open[n]
  <2>1. open[n] \in 1..Len(doc)
    BY DocFacts
  <2> QED
    BY <1>1, <2>1, OpenPath
<1> QED
  BY <1>1, <1>2, <1>3, <1>4, <1>5, <1>6 DEF DocOK

-----------------------------------------------------------------------------
(* The stack.                                                              *)

(* Where elements may be.                                                  *)
LEMMA Contained ==
  ASSUME NEW p, NEW c \in CanContain(p)
  PROVE  /\ c # "definitions"
         /\ c = "process" => p = "definitions"
         /\ c = "extensionElements" => p \in FlowNode \cup {"sequenceFlow", "process", "other"}
         /\ c = "conditionExpression" => p = "sequenceFlow"
         /\ c \in {"taskDefinition", "ioMapping"} => p = "extensionElements"
         /\ c \in {"input", "output"} <=> p = "ioMapping"
BY DEF CanContain, Content, Inner, FlowNode

(* Only the root of a document is a definitions element, and processes are *)
(* its children.                                                           *)
LEMMA TagDepth ==
  ASSUME ParserTypeOK, DocOK, NEW n \in 1..Len(open)
  PROVE  /\ doc[open[n]].start.tag = "definitions" <=> n = 1
         /\ n = 1 <=> open[n] = 1
         /\ doc[open[n]].start.tag = "process" => n = 2
         /\ n # 1 => /\ n - 1 \in 1..Len(open)
                     /\ doc[open[n]].start.tag \in CanContain(doc[open[n - 1]].start.tag)
<1>1. Len(open) \in Nat
  BY DocFacts
<1>2. ASSUME NEW m \in 1..Len(open)
      PROVE  /\ doc[open[m]].start.tag = "definitions" <=> m = 1
             /\ m = 1 <=> open[m] = 1
             /\ m # 1 => /\ m - 1 \in 1..Len(open)
                         /\ doc[open[m]].start.tag \in CanContain(doc[open[m - 1]].start.tag)
  <2>1. open[m] \in 1..Len(doc) /\ doc[open[m]].parent = IF m = 1 THEN 0 ELSE open[m - 1]
    BY OpenPath
  <2>2. m # 1 => m - 1 \in 1..Len(open)
    BY <1>1
  <2>3. m # 1 => open[m - 1] \in 1..Len(doc)
    BY <2>2, OpenPath
  <2>4. 0 \notin 1..Len(doc)
    OBVIOUS
  <2>5. m = 1 <=> open[m] = 1
    BY <2>1, <2>3, <2>4, Parents
  <2>6. /\ open[m] = 1 => doc[open[m]].start.tag = "definitions"
        /\ open[m] # 1 => doc[open[m]].start.tag \in CanContain(doc[doc[open[m]].parent].start.tag)
    BY <2>1, Tags
  <2> QED
    BY <2>1, <2>2, <2>5, <2>6, Contained
<1>3. ASSUME doc[open[n]].start.tag = "process"
      PROVE  n = 2
  <2>1. n # 1 /\ n - 1 \in 1..Len(open)
    BY <1>2, <1>3
  <2>2. doc[open[n - 1]].start.tag = "definitions"
    BY <1>2, <1>3, <2>1, Contained
  <2>3. n - 1 = 1
    BY <1>2, <2>1, <2>2
  <2> QED
    BY <2>3
<1> QED
  BY <1>2, <1>3

(* What the items of open elements are.                                    *)
LEMMA Kinds ==
  ASSUME ParserTypeOK, DocOK, StackOK, NEW n \in 1..Len(open)
  PROVE  LET kind == stack[n + 1].kind
             below == stack[n].kind
             k == open[n]
             tag == doc[k].start.tag IN
         /\ kind # "root"
         /\ kind # "skip" => below # "skip"
         /\ kind \in ContainerKind \cup FlowNode \cup {"sequenceFlow"} => tag = kind
         /\ kind = "unsupported" => tag = "other"
         /\ kind \in InProcessKind => below = "process"
         /\ kind = "process" => tag = "process" /\ Captured(k)
         /\ below # "skip" /\ tag \in ContainerKind => kind = tag
         /\ below # "skip" /\ kind = "skip" =>
              tag \notin {"definitions", "extensionElements", "conditionExpression", "ioMapping"}
<1>1. stack[n + 1].kind = KindOn(stack[n].kind, open[n])
  BY DocFacts DEF StackOK
<1> QED
  BY <1>1 DEF KindOn, ContainerKind, FlowNode, InProcessKind

(* Where on the stack the kinds are: a process under the definitions, a    *)
(* node or a flow in a process, extensions, mappings and conditions in     *)
(* those.                                                                  *)
LEMMA Depths ==
  ASSUME ParserTypeOK, DocOK, StackOK, NEW n \in 1..Len(open)
  PROVE  LET kind == stack[n + 1].kind
             below == stack[n].kind
             k == open[n] IN
         /\ kind = "definitions" <=> n = 1
         /\ kind = "process" <=> doc[k].start.tag = "process" /\ Captured(k)
         /\ kind = "process" => n = 2
         /\ kind \in InProcessKind => n = 3
         /\ kind = "extensionElements" => below \in {"process"} \cup InProcessKind
         /\ kind = "conditionExpression" => below = "sequenceFlow"
         /\ kind = "ioMapping" => below = "extensionElements"
<1>1. Len(open) \in Nat /\ open # <<>> /\ DOMAIN open = 1..Len(open)
  BY DocFacts
<1>2. stack[1].kind = "root"
  BY <1>1 DEF StackOK
<1>3. \A m \in 1..Len(open) : stack[m + 1].kind = KindOn(stack[m].kind, open[m])
  BY <1>1 DEF StackOK
<1>4. \A m \in 1..Len(open) : stack[m + 1].kind = "definitions" <=> m = 1
  <2> TAKE m \in 1..Len(open)
  <2>1. doc[open[m]].start.tag = "definitions" <=> m = 1
    BY TagDepth
  <2>2. m = 1 => stack[m].kind = "root"
    BY <1>2
  <2> QED
    BY <1>3, <2>1, <2>2 DEF KindOn, ContainerKind, FlowNode
<1>5. \A m \in 1..Len(open) : stack[m + 1].kind = "process" <=> doc[open[m]].start.tag = "process" /\ Captured(open[m])
  <2> TAKE m \in 1..Len(open)
  <2>1. stack[m + 1].kind = "process" => doc[open[m]].start.tag = "process" /\ Captured(open[m])
    BY Kinds
  <2>2. ASSUME doc[open[m]].start.tag = "process", Captured(open[m])
        PROVE  stack[m + 1].kind = "process"
    <3>1. m = 2 /\ 1 \in 1..Len(open)
      BY <1>1, <2>2, TagDepth
    <3>2. stack[m].kind = "definitions"
      BY <1>4, <3>1
    <3> QED
      BY <1>3, <2>2, <3>2 DEF KindOn, ContainerKind
  <2> QED
    BY <2>1, <2>2
<1>6. \A m \in 1..Len(open) : stack[m + 1].kind = "process" => m = 2
  BY <1>5, TagDepth
<1>7. ASSUME stack[n + 1].kind \in InProcessKind
      PROVE  n = 3
  <2>1. stack[n].kind = "process"
    BY <1>7, Kinds
  <2>2. n # 1 /\ n - 1 \in 1..Len(open) /\ n - 1 + 1 = n
    BY <1>1, <1>2, <2>1
  <2>3. n - 1 = 2
    BY <1>6, <2>1, <2>2
  <2> QED
    BY <2>3
<1>8. ASSUME stack[n + 1].kind \in {"extensionElements", "conditionExpression", "ioMapping"}
      PROVE  /\ n # 1 /\ n - 1 \in 1..Len(open) /\ n - 1 + 1 = n
             /\ stack[n].kind = KindOn(stack[n - 1].kind, open[n - 1])
             /\ stack[n].kind # "skip"
             /\ stack[n + 1].kind \in CanContain(doc[open[n - 1]].start.tag)
  <2>1. doc[open[n]].start.tag = stack[n + 1].kind /\ stack[n].kind # "skip"
    BY <1>8, Kinds DEF ContainerKind
  <2>2. n # 1 /\ n - 1 \in 1..Len(open) /\ n - 1 + 1 = n
    BY <1>1, <1>8, <2>1, TagDepth
  <2> QED
    BY <1>3, <2>1, <2>2, TagDepth
<1>9. ASSUME stack[n + 1].kind = "extensionElements"
      PROVE  stack[n].kind \in {"process"} \cup InProcessKind
  <2>1. doc[open[n - 1]].start.tag \in FlowNode \cup {"sequenceFlow", "process", "other"}
    BY <1>8, <1>9, Contained
  <2> QED
    BY <1>8, <1>9, <2>1 DEF KindOn, ContainerKind, InProcessKind, FlowNode
<1>10. ASSUME stack[n + 1].kind = "conditionExpression"
       PROVE  stack[n].kind = "sequenceFlow"
  <2>1. doc[open[n - 1]].start.tag = "sequenceFlow"
    BY <1>8, <1>10, Contained
  <2> QED
    BY <1>8, <1>10, <2>1 DEF KindOn, ContainerKind, FlowNode
<1>11. ASSUME stack[n + 1].kind = "ioMapping"
       PROVE  stack[n].kind = "extensionElements"
  <2>1. doc[open[n - 1]].start.tag = "extensionElements"
    BY <1>8, <1>11, Contained
  <2> QED
    BY <1>8, <1>11, <2>1 DEF KindOn, ContainerKind, FlowNode
<1> QED
  BY <1>4, <1>5, <1>6, <1>7, <1>9, <1>10, <1>11

-----------------------------------------------------------------------------
(* What the document means so far.                                         *)

(* An element has at most one task definition and one mapping.             *)
LEMMA OneExtension ==
  ASSUME ParserTypeOK, DocOK, NEW k, NEW tag \in Single,
         NEW i \in Extensions(k, tag), NEW j \in Extensions(k, tag)
  PROVE  i = j
<1> DEFINE p == doc[i].parent
           q == doc[j].parent
<1>1. /\ i \in 1..Len(doc) /\ doc[i].start.tag = tag
      /\ p # 0 /\ doc[p].start.tag = "extensionElements" /\ doc[p].parent = k
      /\ j \in 1..Len(doc) /\ doc[j].start.tag = tag
      /\ q # 0 /\ doc[q].start.tag = "extensionElements" /\ doc[q].parent = k
  BY DocFacts DEF Extensions
<1>2. p \in 1..Len(doc) /\ q \in 1..Len(doc)
  BY <1>1, Parents
<1>3. p = q
  BY <1>1, <1>2, Singles DEF Single
<1> QED
  BY <1>1, <1>3, Singles

(* A flow has at most one condition.                                       *)
LEMMA OneCondition ==
  ASSUME ParserTypeOK, DocOK, NEW k, NEW i \in Conditions(k), NEW j \in Conditions(k)
  PROVE  i = j
BY DocFacts, Singles DEF Conditions, Single

(* If there is an executable process there is a first one.                 *)
LEMMA FirstExecutable ==
  ASSUME ParserTypeOK, NEW k \in 1..Len(doc), Executable(k)
  PROVE  \E j \in 1..Len(doc) : Captured(j)
<1> DEFINE T == {j \in 1..Len(doc) : Executable(j)}
<1>1. Len(doc) \in Nat /\ DOMAIN doc = 1..Len(doc)
  BY DocFacts
<1>2. T \subseteq Nat /\ T # {}
  BY <1>1
<1>3. PICK j \in T : \A i \in T : ~(<<i, j>> \in OpToRel(<, Nat))
  BY <1>2, NatLessThanWellFounded, WFMin
<1>4. \A i \in T : ~(i < j)
  BY <1>2, <1>3 DEF OpToRel
<1>5. \A i \in 1..Len(doc) : Executable(i) => j <= i
  BY <1>1, <1>2, <1>4
<1> QED
  BY <1>1, <1>5 DEF Captured

(* At most one process is captured.                                        *)
LEMMA OneCaptured ==
  ASSUME ParserTypeOK, NEW i \in 1..Len(doc), Captured(i), NEW j \in 1..Len(doc), Captured(j)
  PROVE  i = j
<1>1. i <= j /\ j <= i
  BY DocFacts DEF Captured
<1> QED
  BY <1>1

(* A start tag changes what the elements around it mean only in that it is *)
(* a further extension or an (empty) condition.                            *)
LEMMA StartMeans ==
  ASSUME ParserTypeOK, DocOK, StackOK, NEW t \in Tagged, NEW e \in BOOLEAN, Start(t, e),
         NEW k \in 1..Len(doc)
  PROVE  /\ Executable(k)' <=> Executable(k)
         /\ Captured(k)' <=> Captured(k)
         /\ EntryMeant(k)' = EntryMeant(k)
         /\ \A tag :
              Extensions(k, tag)' = Extensions(k, tag) \cup
                IF /\ t.tag = tag /\ Parent # 0 /\ doc[Parent].start.tag = "extensionElements"
                   /\ doc[Parent].parent = k
                THEN {Len(doc) + 1} ELSE {}
         /\ EntriesOf(k)' = EntriesOf(k)
         /\ Conditions(k)' = Conditions(k) \cup
              IF e /\ t.tag = "conditionExpression" /\ Parent = k THEN {Len(doc) + 1} ELSE {}
         /\ ConditionMeant(k)' = ConditionMeant(k)
<1> DEFINE x == Len(doc) + 1
<1>1. /\ DOMAIN doc' = 1..x /\ DOMAIN doc = 1..Len(doc) /\ Len(doc) \in Nat
      /\ \A j \in 1..Len(doc) : doc'[j] = doc[j]
      /\ Parent \in 0..Len(doc)
  BY DocFacts, StartInDoc
<1>2. doc'[x].start = t /\ doc'[x].closed = e /\ doc'[x].texts = <<>> /\ doc'[x].parent = Parent
  <2>1. doc'[x] = [start |-> t, closed |-> e, texts |-> <<>>, parent |-> Parent]
    BY StartInDoc
  <2> QED
    BY <2>1
<1>3. \A j \in 1..Len(doc) : doc[j].parent \in Nat /\ doc[j].parent < j
                             /\ (doc[j].parent # 0 => doc[j].parent \in 1..Len(doc))
  BY Parents
<1>4. x \notin 1..Len(doc) /\ \A j \in 1..x : j = x \/ j \in 1..Len(doc)
  BY <1>1
<1>5. \A j \in 1..Len(doc) : Executable(j)' <=> Executable(j)
  BY <1>1 DEF Executable
<1>6. Captured(k)' <=> Captured(k)
  <2>1. k <= x
    BY <1>1
  <2>2. (\A j \in 1..x : Executable(j)' => k <= j) <=> \A j \in 1..Len(doc) : Executable(j) => k <= j
    BY <1>4, <1>5, <2>1, <1>1
  <2> QED
    BY <1>1, <1>5, <2>2 DEF Captured
<1>7. EntryMeant(k)' = EntryMeant(k)
  BY <1>1 DEF EntryMeant
<1>8. ASSUME NEW tag
      PROVE  Extensions(k, tag)' = Extensions(k, tag) \cup
                IF /\ t.tag = tag /\ Parent # 0 /\ doc[Parent].start.tag = "extensionElements"
                   /\ doc[Parent].parent = k
                THEN {x} ELSE {}
  <2>1. Parent # 0 => doc'[Parent] = doc[Parent]
    BY <1>1
  <2>2. x \in Extensions(k, tag)' <=> /\ t.tag = tag /\ Parent # 0
                                      /\ doc[Parent].start.tag = "extensionElements"
                                      /\ doc[Parent].parent = k
    BY <1>1, <1>2, <2>1 DEF Extensions
  <2>3. \A j \in 1..Len(doc) : doc[j].parent # 0 => doc'[doc[j].parent] = doc[doc[j].parent]
    BY <1>1, <1>3
  <2>4. \A j \in 1..Len(doc) : j \in Extensions(k, tag)' <=> j \in Extensions(k, tag)
    BY <1>1, <2>3 DEF Extensions
  <2>5. Extensions(k, tag)' \subseteq 1..x /\ Extensions(k, tag) \subseteq 1..Len(doc)
    BY <1>1 DEF Extensions
  <2> QED
    BY <1>4, <2>2, <2>4, <2>5
<1>9. EntriesOf(k)' = EntriesOf(k)
  <2>1. \A j \in 1..Len(doc) : doc[j].parent # x
    BY <1>1, <1>3
  <2>2. Parent # 0 => ~doc'[Parent].closed
    <3>1. ASSUME Parent # 0
          PROVE  open # <<>>
      BY <3>1 DEF Parent
    <3>2. ASSUME open # <<>>
          PROVE  ~doc[Parent].closed /\ Parent \in 1..Len(doc)
      BY <3>2, InnermostOpen, ClosedOrOpen
    <3> QED
      BY <1>1, <3>1, <3>2
  <2>3. \A m \in Extensions(k, "ioMapping") : m \in 1..Len(doc) /\ doc'[m] = doc[m]
    BY <1>1 DEF Extensions
  <2>4. \A m \in Extensions(k, "ioMapping")' : m \in Extensions(k, "ioMapping") \/ m = x
    BY <1>8
  <2>5. Extensions(k, "ioMapping") \subseteq Extensions(k, "ioMapping")'
    BY <1>8
  <2>6. x \notin EntriesOf(k)'
    <3>1. ASSUME NEW m \in Extensions(k, "ioMapping")', doc'[m].closed, doc'[x].parent = m
          PROVE  FALSE
      <4>1. m = Parent /\ m # x
        BY <1>1, <1>2, <1>4, <3>1
      <4>2. m # 0
        BY <2>3, <2>4, <3>1, <4>1
      <4> QED
        BY <2>2, <3>1, <4>1, <4>2
    <3> QED
      BY <3>1 DEF EntriesOf
  <2>7. \A j \in 1..Len(doc) : j \in EntriesOf(k)' <=> j \in EntriesOf(k)
    <3> TAKE j \in 1..Len(doc)
    <3>1. doc'[j] = doc[j] /\ doc[j].parent # x
      BY <1>1, <2>1
    <3>2. j \in EntriesOf(k)' => j \in EntriesOf(k)
      BY <1>1, <2>3, <2>4, <3>1 DEF EntriesOf
    <3>3. j \in EntriesOf(k) => j \in EntriesOf(k)'
      BY <1>1, <2>3, <2>5, <3>1 DEF EntriesOf
    <3> QED
      BY <3>2, <3>3
  <2>8. EntriesOf(k)' \subseteq 1..x /\ EntriesOf(k) \subseteq 1..Len(doc)
    BY <1>1 DEF EntriesOf
  <2> QED
    BY <1>4, <2>6, <2>7, <2>8
<1>10. Conditions(k)' = Conditions(k) \cup
              IF e /\ t.tag = "conditionExpression" /\ Parent = k THEN {x} ELSE {}
  <2>1. x \in Conditions(k)' <=> e /\ t.tag = "conditionExpression" /\ Parent = k
    BY <1>1, <1>2 DEF Conditions
  <2>2. \A j \in 1..Len(doc) : j \in Conditions(k)' <=> j \in Conditions(k)
    BY <1>1 DEF Conditions
  <2>3. Conditions(k)' \subseteq 1..x /\ Conditions(k) \subseteq 1..Len(doc)
    BY <1>1 DEF Conditions
  <2> QED
    BY <1>4, <2>1, <2>2, <2>3
<1>11. ConditionMeant(k)' = ConditionMeant(k)
  <2>1. CASE e /\ t.tag = "conditionExpression" /\ Parent = k
    <3>1. open # <<>>
      BY <2>1, DocFacts DEF Parent
    <3>2. Conditions(k) = {}
      <4>1. \A j \in 1..Len(doc) : doc[j].parent = Parent => doc[j].start.tag # t.tag
        BY <2>1, <3>1, StartInDoc DEF Single
      <4> QED
        BY <1>1, <2>1, <4>1 DEF Conditions
    <3>3. Conditions(k)' = {x}
      BY <1>10, <2>1, <3>2
    <3> QED
      BY <1>2, <3>2, <3>3 DEF ConditionMeant
  <2>2. CASE ~(e /\ t.tag = "conditionExpression" /\ Parent = k)
    <3>1. Conditions(k)' = Conditions(k)
      BY <1>10, <2>2
    <3>2. Conditions(k) # {} => (CHOOSE j \in Conditions(k) : TRUE) \in 1..Len(doc)
      BY <1>1 DEF Conditions
    <3> QED
      BY <1>1, <3>1, <3>2 DEF ConditionMeant
  <2> QED
    BY <2>1, <2>2
<1> QED
  BY <1>5, <1>6, <1>7, <1>8, <1>9, <1>10, <1>11

(* The new element has no content yet.                                     *)
LEMMA NewMeans ==
  ASSUME ParserTypeOK, DocOK, StackOK, ProcessIsCaptured,
         NEW t \in Tagged, NEW e \in BOOLEAN, Start(t, e), NEW x, x = Len(doc) + 1
  PROVE  /\ Captured(x)' <=> t.tag = "process" /\ Captures(t)
         /\ EntryMeant(x)' = [tag |-> t.tag, source |-> t.source, target |-> t.target]
         /\ EntriesOf(x)' = {}
         /\ ConditionMeant(x)' = <<>>
         /\ TypeMeant(x)' = NoId
         /\ {j \in DOMAIN doc : doc[j].parent = x}' = {}
         /\ \A k \in 1..Len(doc) :
              {j \in DOMAIN doc : doc[j].parent = k}' =
                {j \in DOMAIN doc : doc[j].parent = k} \cup IF Parent = k THEN {x} ELSE {}
<1>1. /\ DOMAIN doc' = 1..x /\ DOMAIN doc = 1..Len(doc) /\ Len(doc) \in Nat
      /\ \A j \in 1..Len(doc) : doc'[j] = doc[j]
      /\ Parent \in 0..Len(doc)
  BY DocFacts, StartInDoc
<1>2. doc'[x].start = t /\ doc'[x].closed = e /\ doc'[x].texts = <<>> /\ doc'[x].parent = Parent
  <2>1. doc'[x] = [start |-> t, closed |-> e, texts |-> <<>>, parent |-> Parent]
    BY StartInDoc
  <2> QED
    BY <2>1
<1>3. \A j \in 1..Len(doc) : doc[j].parent \in Nat /\ doc[j].parent < j
  BY Parents
<1>4. x \in 1..x /\ x \notin 1..Len(doc) /\ \A j \in 1..x : j = x \/ j \in 1..Len(doc)
  BY <1>1
<1>5. \A j \in 1..x : doc'[j].parent # x
  BY <1>1, <1>2, <1>3, <1>4
<1>6. \A tag : Extensions(x, tag)' = {}
  <2> SUFFICES ASSUME NEW tag, NEW j \in Extensions(x, tag)'
               PROVE  FALSE
    OBVIOUS
  <2>1. j \in 1..x /\ doc'[j].parent # 0 /\ doc'[doc'[j].parent].parent = x
    BY <1>1 DEF Extensions
  <2>2. doc'[j].parent \in 1..x
    BY <1>1, <1>2, <1>3, <1>4, <2>1
  <2> QED
    BY <1>5, <2>1, <2>2
<1>7. EntriesOf(x)' = {}
  BY <1>6 DEF EntriesOf
<1>8. TypeMeant(x)' = NoId
  BY <1>6 DEF TypeMeant
<1>9. {j \in DOMAIN doc : doc[j].parent = x}' = {}
  BY <1>1, <1>5
<1>10. Conditions(x)' = {}
  BY <1>1, <1>5 DEF Conditions
<1>11. ConditionMeant(x)' = <<>>
  BY <1>10 DEF ConditionMeant
<1>12. EntryMeant(x)' = [tag |-> t.tag, source |-> t.source, target |-> t.target]
  BY <1>2 DEF EntryMeant
<1>13. Captured(x)' <=> t.tag = "process" /\ Captures(t)
  <2>1. Executable(x)' <=> t.tag = "process" /\ t.executable
    BY <1>2 DEF Executable
  <2>2. \A j \in 1..Len(doc) : Executable(j)' <=> Executable(j)
    BY <1>1 DEF Executable
  <2>3. Captured(x)' <=> Executable(x)' /\ \A j \in 1..Len(doc) : ~Executable(j)
    <3>1. \A j \in 1..Len(doc) : ~(x <= j)
      BY <1>1
    <3> QED
      BY <1>1, <1>4, <2>2, <3>1 DEF Captured
  <2>4. process = {} <=> \A j \in 1..Len(doc) : ~Captured(j)
    BY <1>1 DEF ProcessIsCaptured
  <2>5. (\A j \in 1..Len(doc) : ~Captured(j)) <=> \A j \in 1..Len(doc) : ~Executable(j)
    BY FirstExecutable DEF Captured
  <2> QED
    BY <2>1, <2>3, <2>4, <2>5 DEF Captures
<1>14. ASSUME NEW k \in 1..Len(doc)
       PROVE  {j \in DOMAIN doc : doc[j].parent = k}' =
                {j \in DOMAIN doc : doc[j].parent = k} \cup IF Parent = k THEN {x} ELSE {}
  <2> DEFINE Old == {j \in 1..Len(doc) : doc[j].parent = k}
             New == {j \in 1..x : doc'[j].parent = k}
  <2>1. x \in New <=> Parent = k
    BY <1>2, <1>4
  <2>2. \A j \in 1..Len(doc) : j \in New <=> j \in Old
    BY <1>1
  <2>3. \A j \in New : j = x \/ j \in 1..Len(doc)
    BY <1>4
  <2>4. New = Old \cup IF Parent = k THEN {x} ELSE {}
    BY <2>1, <2>2, <2>3
  <2> QED
    BY <1>1, <2>4
<1> QED
  BY <1>7, <1>8, <1>9, <1>11, <1>12, <1>13, <1>14

-----------------------------------------------------------------------------
(* What a start tag does to the stack and to the process.                  *)

(* The stack below the new element, once it has been read.                 *)
StackRead(t) ==
  IF Top.kind # "skip" /\ t.tag = "taskDefinition" THEN WithType(stack, t.type)
  ELSE IF Top.kind = "ioMapping" /\ t.tag \in {"input", "output"}
  THEN [stack EXCEPT ![Len(stack)].io =
          Append(@, [tag |-> t.tag, source |-> t.source, target |-> t.target])]
  ELSE stack

NewKind(t) ==
  CASE Top.kind # "skip" /\ t.tag \in ContainerKind -> t.tag
    [] Top.kind # "skip" /\ t.tag = "process" /\ Captures(t) -> "process"
    [] Top.kind = "process" /\ t.tag \in FlowNode \cup {"sequenceFlow"} -> t.tag
    [] Top.kind = "process" /\ t.tag = "other" -> "unsupported"
    [] OTHER -> "skip"

NewItem(t) == IF NewKind(t) = "skip" THEN Skip ELSE Item(NewKind(t), t)

(* What handle_start does, in one line for each of the variables.          *)
LEMMA StartReads ==
  ASSUME NEW t \in Tagged, NEW e \in BOOLEAN, HandleStart(t, e)
  PROVE  /\ stack' = PushUnless(e /\ ~(Top.kind # "skip" /\ t.tag = "definitions"),
                                StackRead(t), NewItem(t))
         /\ process' = IF Top.kind # "skip" /\ t.tag = "process" /\ Captures(t)
                       THEN {t.id} ELSE process
         /\ nodes' = IF e /\ NewKind(t) \in FlowNode \cup {"unsupported"}
                     THEN Append(nodes, NodeOf(NewItem(t))) ELSE nodes
         /\ flows' = IF e /\ NewKind(t) = "sequenceFlow"
                     THEN Append(flows, FlowOf(NewItem(t))) ELSE flows
<1>1. CASE SkipNested(t, e)
  BY <1>1 DEF SkipNested, StackRead, NewKind, NewItem, FlowNode, PushUnless
<1>2. CASE Top.kind # "skip" /\ TaskDefinition(t, e)
  BY <1>2 DEF TaskDefinition, StackRead, NewKind, NewItem, FlowNode, ContainerKind, PushUnless
<1>3. CASE Top.kind # "skip" /\ Entry(t, e)
  BY <1>3 DEF Entry, StackRead, NewKind, NewItem, FlowNode, ContainerKind, PushUnless
<1>4. CASE Top.kind # "skip" /\ Container(t, e)
  BY <1>4 DEF Container, StackRead, NewKind, NewItem, FlowNode, ContainerKind, PushUnless
<1>5. CASE Top.kind # "skip" /\ Process(t, e)
  BY <1>5 DEF Process, StackRead, NewKind, NewItem, FlowNode, ContainerKind, PushUnless
<1>6. CASE Top.kind # "skip" /\ InProcess(t, e)
  <2>1. /\ NewKind(t) = IF t.tag = "other" THEN "unsupported" ELSE t.tag
        /\ StackRead(t) = stack
        /\ NewKind(t) \in FlowNode \cup {"sequenceFlow", "unsupported"}
    BY <1>6 DEF InProcess, StackRead, NewKind, FlowNode, ContainerKind
  <2>2. NewItem(t) = Item(NewKind(t), t) /\ NewItem(t).kind = NewKind(t)
    BY <2>1 DEF NewItem, Item, FlowNode
  <2>3. /\ t.tag # "process" /\ t.tag # "definitions" /\ process' = process
        /\ IF e THEN Finish(NewItem(t), stack)
           ELSE stack' = Append(stack, NewItem(t)) /\ UNCHANGED <<nodes, flows>>
    BY <1>6, <2>1, <2>2 DEF InProcess, FlowNode
  <2>4. CASE e
    BY <2>1, <2>2, <2>3, <2>4 DEF Finish, FlowNode, PushUnless
  <2>5. CASE ~e
    BY <2>1, <2>2, <2>3, <2>5 DEF PushUnless
  <2> QED
    BY <2>4, <2>5
<1>7. CASE Top.kind # "skip" /\ Elsewhere(t, e)
  BY <1>7 DEF Elsewhere, StackRead, NewKind, NewItem, FlowNode, ContainerKind, PushUnless
<1> QED
  BY <1>1, <1>2, <1>3, <1>4, <1>5, <1>6, <1>7 DEF HandleStart

-----------------------------------------------------------------------------
(* Items and what is written into them.                                    *)

(* A new item has nothing but its kind and its start tag.                  *)
LEMMA NewItems ==
  ASSUME NEW kind \in Kind, NEW t \in Tagged
  PROVE  /\ Item(kind, t) \in Items
         /\ Item(kind, t).kind = kind /\ Item(kind, t).start = t /\ Item(kind, t).content = <<>>
         /\ Item(kind, t).type = NoId /\ Item(kind, t).io = <<>>
<1>1. NoId \in Attribute
  BY DEF Attribute
<1>2. <<>> \in Seq(Text) /\ <<>> \in Seq(Mapping)
  OBVIOUS
<1> QED
  BY <1>1, <1>2 DEF Item, Items

(* An item of a skipped element has nothing at all.                        *)
LEMMA SkipItem ==
  /\ Skip \in Items
  /\ Skip.kind = "skip" /\ Skip.content = <<>> /\ Skip.type = NoId /\ Skip.io = <<>>
<1>1. Blank \in Tagged
  BY DEF Blank, Tagged, Tag, FlowNode, Attribute
<1>2. "skip" \in Kind
  BY DEF Kind
<1> QED
  BY <1>1, <1>2, NewItems DEF Skip

(* A stack with one item replaced.                                         *)
LEMMA Rewritten ==
  ASSUME NEW s \in Seq(Items), NEW k \in 1..Len(s), NEW i \in Items
  PROVE  /\ [s EXCEPT ![k] = i] \in Seq(Items)
         /\ Len([s EXCEPT ![k] = i]) = Len(s)
         /\ \A m \in 1..Len(s) : [s EXCEPT ![k] = i][m] = IF m = k THEN i ELSE s[m]
OBVIOUS

(* Writing one field of an item leaves the others.                         *)
LEMMA ItemFields ==
  ASSUME NEW i \in Items
  PROVE  /\ i.kind \in Kind /\ i.start \in Tagged /\ i.content \in Seq(Text)
         /\ i.type \in Attribute /\ i.io \in Seq(Mapping)
         /\ \A type \in Attribute :
              LET j == [i EXCEPT !.type = type] IN
              /\ j \in Items /\ j.type = type
              /\ j.kind = i.kind /\ j.start = i.start /\ j.content = i.content /\ j.io = i.io
         /\ \A io \in Seq(Mapping) :
              LET j == [i EXCEPT !.io = io] IN
              /\ j \in Items /\ j.io = io
              /\ j.kind = i.kind /\ j.start = i.start /\ j.content = i.content /\ j.type = i.type
         /\ \A text \in Seq(Text) :
              LET j == [i EXCEPT !.content = text] IN
              /\ j \in Items /\ j.content = text
              /\ j.kind = i.kind /\ j.start = i.start /\ j.type = i.type /\ j.io = i.io
<1> DEFINE Texts == Seq(Text)
           Mappings == Seq(Mapping)
<1>1. i \in [kind : Kind, start : Tagged, content : Texts, type : Attribute, io : Mappings]
  BY DEF Items
<1> HIDE DEF Texts, Mappings
<1>2. /\ i.kind \in Kind /\ i.start \in Tagged /\ i.content \in Texts
      /\ i.type \in Attribute /\ i.io \in Mappings
  BY <1>1
<1>3. \A type \in Attribute :
        LET j == [i EXCEPT !.type = type] IN
        /\ j \in [kind : Kind, start : Tagged, content : Texts, type : Attribute, io : Mappings]
        /\ j.type = type
        /\ j.kind = i.kind /\ j.start = i.start /\ j.content = i.content /\ j.io = i.io
  BY <1>1
<1>4. \A io \in Mappings :
        LET j == [i EXCEPT !.io = io] IN
        /\ j \in [kind : Kind, start : Tagged, content : Texts, type : Attribute, io : Mappings]
        /\ j.io = io
        /\ j.kind = i.kind /\ j.start = i.start /\ j.content = i.content /\ j.type = i.type
  BY <1>1
<1>5. \A text \in Texts :
        LET j == [i EXCEPT !.content = text] IN
        /\ j \in [kind : Kind, start : Tagged, content : Texts, type : Attribute, io : Mappings]
        /\ j.content = text
        /\ j.kind = i.kind /\ j.start = i.start /\ j.type = i.type /\ j.io = i.io
  BY <1>1
<1> QED
  BY <1>2, <1>3, <1>4, <1>5 DEF Items, Texts, Mappings

(* Below its extension elements there is one task at most.                 *)
LEMMA NearestTask ==
  ASSUME NEW s \in Seq(Items), \A m \in 1..Len(s) : s[m].kind \in InProcessKind => m = 4,
         NEW kinds, kinds \subseteq InProcessKind
  PROVE  Nearest(s, kinds) = IF 4 \in 1..Len(s) /\ s[4].kind \in kinds THEN 4 ELSE 0
<1> DEFINE found == {k \in DOMAIN s : s[k].kind \in kinds}
<1>1. DOMAIN s = 1..Len(s)
  OBVIOUS
<1>2. found \subseteq {4}
  BY <1>1
<1>3. 4 \in found <=> 4 \in 1..Len(s) /\ s[4].kind \in kinds
  BY <1>1
<1>4. CASE 4 \in found
  <2>1. found = {4}
    BY <1>2, <1>4
  <2>2. (CHOOSE k \in found : \A j \in found : j <= k) = 4
    BY <2>1
  <2> QED
    BY <1>3, <1>4, <2>1, <2>2 DEF Nearest
<1>5. CASE 4 \notin found
  BY <1>2, <1>3, <1>5 DEF Nearest
<1> QED
  BY <1>4, <1>5

(* The type goes to the service task on the stack, if there is one: no     *)
(* other item can take it.                                                 *)
LEMMA TypeWritten ==
  ASSUME NEW s \in Seq(Items), \A m \in 1..Len(s) : s[m].kind \in InProcessKind => m = 4,
         NEW type \in Attribute
  PROVE  LET r == WithType(s, type) IN
         /\ r \in Seq(Items) /\ Len(r) = Len(s)
         /\ \A m \in 1..Len(s) :
              /\ r[m].kind = s[m].kind /\ r[m].start = s[m].start
              /\ r[m].content = s[m].content /\ r[m].io = s[m].io
              /\ r[m].type = IF s[m].kind = "serviceTask" THEN type ELSE s[m].type
<1> DEFINE i == [s[4] EXCEPT !.type = type]
<1>1. {"serviceTask"} \subseteq InProcessKind
  BY DEF InProcessKind, FlowNode
<1>2. Nearest(s, {"serviceTask"}) = IF 4 \in 1..Len(s) /\ s[4].kind = "serviceTask" THEN 4 ELSE 0
  BY <1>1, NearestTask
<1>3. \A m \in 1..Len(s) : s[m] \in Items
  OBVIOUS
<1>4. CASE 4 \in 1..Len(s) /\ s[4].kind = "serviceTask"
  <2>1. WithType(s, type) = [s EXCEPT ![4] = i]
    <3>1. Nearest(s, {"serviceTask"}) = 4
      BY <1>2, <1>4
    <3>2. WithType(s, type) = IF 4 = 0 THEN s ELSE [s EXCEPT ![4].type = type]
      BY <3>1, Zenon DEF WithType
    <3> QED
      BY <3>2
  <2>2. /\ i \in Items /\ i.type = type
        /\ i.kind = s[4].kind /\ i.start = s[4].start /\ i.content = s[4].content /\ i.io = s[4].io
    BY <1>3, <1>4, ItemFields
  <2> HIDE DEF i
  <2>3. /\ [s EXCEPT ![4] = i] \in Seq(Items)
        /\ Len([s EXCEPT ![4] = i]) = Len(s)
        /\ \A m \in 1..Len(s) : [s EXCEPT ![4] = i][m] = IF m = 4 THEN i ELSE s[m]
    BY <1>4, <2>2, Rewritten
  <2>4. \A m \in 1..Len(s) : s[m].kind = "serviceTask" => m = 4
    BY <1>1
  <2> QED
    BY <1>4, <2>1, <2>2, <2>3, <2>4
<1>5. CASE ~(4 \in 1..Len(s) /\ s[4].kind = "serviceTask")
  <2>1. WithType(s, type) = s
    BY <1>2, <1>5 DEF WithType
  <2>2. \A m \in 1..Len(s) : s[m].kind # "serviceTask"
    BY <1>1, <1>5
  <2> QED
    BY <2>1, <2>2
<1> QED
  BY <1>4, <1>5

(* The mapping goes to the task on the stack, if there is one.             *)
LEMMA MappingWritten ==
  ASSUME NEW s \in Seq(Items), \A m \in 1..Len(s) : s[m].kind \in InProcessKind => m = 4,
         NEW mapping \in Seq(Mapping)
  PROVE  LET r == WithMapping(s, mapping) IN
         /\ r \in Seq(Items) /\ Len(r) = Len(s)
         /\ \A m \in 1..Len(s) :
              /\ r[m].kind = s[m].kind /\ r[m].start = s[m].start
              /\ r[m].content = s[m].content /\ r[m].type = s[m].type
              /\ r[m].io = IF s[m].kind \in Task THEN mapping ELSE s[m].io
<1> DEFINE i == [s[4] EXCEPT !.io = mapping]
<1>1. Task \subseteq InProcessKind
  BY DEF InProcessKind, FlowNode, Task
<1>2. Nearest(s, Task) = IF 4 \in 1..Len(s) /\ s[4].kind \in Task THEN 4 ELSE 0
  BY <1>1, NearestTask
<1>3. \A m \in 1..Len(s) : s[m] \in Items
  OBVIOUS
<1>4. CASE 4 \in 1..Len(s) /\ s[4].kind \in Task
  <2>1. WithMapping(s, mapping) = [s EXCEPT ![4] = i]
    <3>1. Nearest(s, Task) = 4
      BY <1>2, <1>4
    <3>2. WithMapping(s, mapping) = IF 4 = 0 THEN s ELSE [s EXCEPT ![4].io = mapping]
      BY <3>1, Zenon DEF WithMapping, Task
    <3> QED
      BY <3>2
  <2>2. /\ i \in Items /\ i.io = mapping
        /\ i.kind = s[4].kind /\ i.start = s[4].start /\ i.content = s[4].content /\ i.type = s[4].type
    BY <1>3, <1>4, ItemFields
  <2> HIDE DEF i
  <2>3. /\ [s EXCEPT ![4] = i] \in Seq(Items)
        /\ Len([s EXCEPT ![4] = i]) = Len(s)
        /\ \A m \in 1..Len(s) : [s EXCEPT ![4] = i][m] = IF m = 4 THEN i ELSE s[m]
    BY <1>4, <2>2, Rewritten
  <2>4. \A m \in 1..Len(s) : s[m].kind \in Task => m = 4
    BY <1>1
  <2> QED
    BY <1>4, <2>1, <2>2, <2>3, <2>4
<1>5. CASE ~(4 \in 1..Len(s) /\ s[4].kind \in Task)
  <2>1. WithMapping(s, mapping) = s
    BY <1>2, <1>5 DEF WithMapping, Task
  <2>2. \A m \in 1..Len(s) : s[m].kind \notin Task
    BY <1>1, <1>5
  <2> QED
    BY <2>1, <2>2
<1> QED
  BY <1>4, <1>5

(* A condition that has text goes to the flow it ends in.                  *)
LEMMA ConditionWritten ==
  ASSUME NEW s \in Seq(Items), Len(s) >= 1, NEW text \in Seq(Text)
  PROVE  LET r == WithCondition(s, text) IN
         /\ r \in Seq(Items) /\ Len(r) = Len(s)
         /\ \A m \in 1..Len(s) :
              /\ r[m].kind = s[m].kind /\ r[m].start = s[m].start
              /\ r[m].io = s[m].io /\ r[m].type = s[m].type
              /\ r[m].content = IF m = Len(s) /\ s[m].kind = "sequenceFlow" /\ text # <<>>
                                THEN text ELSE s[m].content
<1> DEFINE l == Len(s)
           i == [s[l] EXCEPT !.content = text]
<1>1. l \in 1..Len(s) /\ \A m \in 1..Len(s) : s[m] \in Items
  OBVIOUS
<1>2. CASE s[l].kind = "sequenceFlow" /\ text # <<>>
  <2>1. WithCondition(s, text) = [s EXCEPT ![l] = i]
    BY <1>2 DEF WithCondition
  <2>2. /\ i \in Items /\ i.content = text
        /\ i.kind = s[l].kind /\ i.start = s[l].start /\ i.io = s[l].io /\ i.type = s[l].type
    BY <1>1, ItemFields
  <2> HIDE DEF i
  <2>3. /\ [s EXCEPT ![l] = i] \in Seq(Items)
        /\ Len([s EXCEPT ![l] = i]) = Len(s)
        /\ \A m \in 1..Len(s) : [s EXCEPT ![l] = i][m] = IF m = l THEN i ELSE s[m]
    BY <1>1, <2>2, Rewritten
  <2> QED
    BY <1>2, <2>1, <2>2, <2>3
<1>3. CASE ~(s[l].kind = "sequenceFlow" /\ text # <<>>)
  <2>1. WithCondition(s, text) = s
    BY <1>3 DEF WithCondition
  <2> QED
    BY <1>3, <2>1
<1> QED
  BY <1>2, <1>3

(* The top item is that of the innermost open element.                     *)
LEMMA TopItem ==
  ASSUME ParserTypeOK, DocOK, StackOK
  PROVE  /\ Len(stack) \in 1..Len(stack) /\ Top = stack[Len(stack)] /\ Top \in Items
         /\ open # <<>> => Len(stack) = Len(open) + 1
         /\ doc = <<>> => open = <<>> /\ Len(stack) = 1 /\ Top.kind = "root"
         /\ open # <<>> \/ doc = <<>> =>
              \A m \in 1..Len(stack) : stack[m].kind \in InProcessKind => m = 4
<1>1. /\ Len(stack) \in Nat /\ Len(stack) >= 1 /\ DOMAIN stack = 1..Len(stack)
      /\ Len(open) \in Nat /\ stack \in Seq(Items)
  BY DocFacts DEF ParserTypeOK
<1>2. Len(stack) \in 1..Len(stack) /\ Top = stack[Len(stack)] /\ Top \in Items
  BY <1>1 DEF Top
<1>3. open # <<>> => Len(stack) = Len(open) + 1 /\ stack[1].kind = "root"
  BY DEF StackOK
<1>4. ASSUME doc = <<>>
      PROVE  open = <<>> /\ Len(stack) = 1 /\ stack[1].kind = "root"
  <2>1. open = <<>> /\ stack = <<Item("root", Blank)>>
    BY <1>4 DEF StackOK
  <2>2. Len(stack) = 1 /\ stack[1] = Item("root", Blank)
    BY <2>1
  <2> QED
    BY <2>1, <2>2 DEF Item
<1>5. "root" \notin InProcessKind
  BY DEF InProcessKind, FlowNode
<1>6. ASSUME open # <<>>, NEW m \in 1..Len(stack), stack[m].kind \in InProcessKind
      PROVE  m = 4
  <2>1. m # 1
    BY <1>3, <1>5, <1>6
  <2>2. m - 1 \in 1..Len(open) /\ m - 1 + 1 = m
    BY <1>1, <1>3, <1>6, <2>1
  <2>3. m - 1 = 3
    BY <1>6, <2>2, Depths
  <2> QED
    BY <1>1, <2>3
<1>7. ASSUME doc = <<>>
      PROVE  Top.kind = "root" /\ \A m \in 1..Len(stack) : stack[m].kind \notin InProcessKind
  <2>1. Len(stack) = 1 /\ stack[1].kind = "root"
    BY <1>4, <1>7
  <2>2. \A m \in 1..Len(stack) : m = 1
    BY <2>1
  <2> QED
    BY <1>2, <1>5, <2>1, <2>2
<1> QED
  BY <1>2, <1>3, <1>4, <1>6, <1>7

(* What a start tag leaves of the items below the new one.                 *)
LEMMA StartStack ==
  ASSUME ParserTypeOK, DocOK, StackOK, NEW t \in Tagged, NEW e \in BOOLEAN, Start(t, e)
  PROVE  /\ stack' \in Seq(Items) /\ stack' # <<>>
         /\ NewItem(t) \in Items
         /\ open # <<>> \/ ~e => Len(stack') = IF e THEN Len(stack) ELSE Len(stack) + 1
         /\ \A m \in 1..Len(stack) :
              /\ stack'[m].kind = stack[m].kind /\ stack'[m].start = stack[m].start
              /\ stack'[m].content = stack[m].content
              /\ stack'[m].type = IF /\ stack[m].kind = "serviceTask"
                                     /\ Top.kind # "skip" /\ t.tag = "taskDefinition"
                                  THEN t.type ELSE stack[m].type
              /\ stack'[m].io = IF /\ m = Len(stack) /\ Top.kind = "ioMapping"
                                   /\ t.tag \in {"input", "output"}
                                THEN Append(stack[m].io, [tag |-> t.tag, source |-> t.source,
                                                          target |-> t.target])
                                ELSE stack[m].io
         /\ ~e => stack'[Len(stack) + 1] = NewItem(t)
<1> DEFINE r == StackRead(t)
           l == Len(stack)
           entry == [tag |-> t.tag, source |-> t.source, target |-> t.target]
<1>1. l \in Nat /\ l >= 1 /\ l \in 1..l /\ stack \in Seq(Items) /\ Top = stack[l] /\ Top \in Items
  BY DocFacts, TopItem DEF ParserTypeOK
<1>2. open # <<>> \/ doc = <<>>
  BY DEF Start, Allowed
<1>3. \A m \in 1..l : stack[m].kind \in InProcessKind => m = 4
  BY <1>2, TopItem
<1>4. /\ t.tag \in Tag /\ t.type \in Attribute /\ t.source \in Attribute /\ t.target \in Attribute
  BY DEF Tagged
<1>5. /\ r \in Seq(Items) /\ Len(r) = l
      /\ \A m \in 1..l :
              /\ r[m].kind = stack[m].kind /\ r[m].start = stack[m].start
              /\ r[m].content = stack[m].content
              /\ r[m].type = IF /\ stack[m].kind = "serviceTask"
                                /\ Top.kind # "skip" /\ t.tag = "taskDefinition"
                             THEN t.type ELSE stack[m].type
              /\ r[m].io = IF /\ m = l /\ Top.kind = "ioMapping" /\ t.tag \in {"input", "output"}
                           THEN Append(stack[m].io, entry) ELSE stack[m].io
  <2>1. CASE Top.kind # "skip" /\ t.tag = "taskDefinition"
    <3>1. r = WithType(stack, t.type)
      BY <2>1 DEF StackRead
    <3> QED
      BY <1>1, <1>3, <1>4, <2>1, <3>1, TypeWritten
  <2>2. CASE Top.kind = "ioMapping" /\ t.tag \in {"input", "output"}
    <3> DEFINE i == [stack[l] EXCEPT !.io = Append(@, entry)]
    <3>1. r = [stack EXCEPT ![l] = i]
      BY <2>2 DEF StackRead
    <3>2. entry \in Mapping
      BY <1>4, <2>2 DEF Mapping
    <3>3. stack[l].io \in Seq(Mapping)
      BY <1>1, ItemFields
    <3> DEFINE io == Append(stack[l].io, entry)
    <3>4. io \in Seq(Mapping)
      BY <3>2, <3>3
    <3>5. i = [stack[l] EXCEPT !.io = io] /\ stack[l] \in Items
      BY <1>1
    <3> HIDE DEF entry, io, i
    <3>6. /\ i \in Items /\ i.io = io /\ i.kind = stack[l].kind /\ i.start = stack[l].start
          /\ i.content = stack[l].content /\ i.type = stack[l].type
      BY <3>4, <3>5, ItemFields
    <3> HIDE DEF r
    <3>7. r \in Seq(Items) /\ Len(r) = l
          /\ \A m \in 1..l : r[m] = IF m = l THEN i ELSE stack[m]
      BY <1>1, <3>1, <3>6, Rewritten
    <3>8. ~(Top.kind # "skip" /\ t.tag = "taskDefinition")
      BY <2>2
    <3> QED
      BY <2>2, <3>6, <3>7, <3>8 DEF io
  <2>3. CASE ~(Top.kind # "skip" /\ t.tag = "taskDefinition")
             /\ ~(Top.kind = "ioMapping" /\ t.tag \in {"input", "output"})
    <3>1. r = stack
      BY <2>3 DEF StackRead
    <3> QED
      BY <1>1, <2>3, <3>1
  <2> QED
    BY <2>1, <2>2, <2>3
<1>6. NewKind(t) \in Kind
  BY <1>4 DEF NewKind, Kind, ContainerKind, InProcessKind, FlowNode
<1>7. NewItem(t) \in Items
  BY <1>6, NewItems, SkipItem DEF NewItem
<1>8. stack' = PushUnless(e /\ ~(Top.kind # "skip" /\ t.tag = "definitions"), r, NewItem(t))
  BY StartReads DEF Start
<1>9. open # <<>> => t.tag # "definitions"
  <2>1. open # <<>> => t.tag \in CanContain(doc[Parent].start.tag)
    BY StartInDoc
  <2> QED
    BY <2>1, Contained
<1> HIDE DEF r
<1> DEFINE i == NewItem(t)
<1> HIDE DEF i
<1>10. /\ i \in Items
       /\ Append(r, i) \in Seq(Items) /\ Append(r, i) # <<>> /\ Len(Append(r, i)) = l + 1
       /\ \A m \in 1..l : Append(r, i)[m] = r[m]
       /\ Append(r, i)[l + 1] = i
  BY <1>1, <1>5, <1>7 DEF i
<1>11. CASE e /\ ~(Top.kind # "skip" /\ t.tag = "definitions")
  <2>1. stack' = r /\ r # <<>>
    BY <1>1, <1>5, <1>8, <1>11 DEF PushUnless
  <2> QED
    BY <1>5, <1>10, <1>11, <2>1 DEF i
<1>12. CASE ~(e /\ ~(Top.kind # "skip" /\ t.tag = "definitions"))
  <2>1. stack' = Append(r, i)
    BY <1>8, <1>12 DEF PushUnless, i
  <2>2. open # <<>> => ~e
    BY <1>9, <1>12
  <2> QED
    BY <1>5, <1>10, <2>1, <2>2 DEF i
<1> QED
  BY <1>11, <1>12

(* Extension elements that are not skipped belong to the open task, if any.*)
LEMMA ExtensionPath ==
  ASSUME ParserTypeOK, DocOK, StackOK,
         NEW n \in 1..Len(open), stack[n + 1].kind \in InProcessKind,
         NEW m \in 1..Len(open), doc[open[m]].start.tag = "extensionElements"
  PROVE  stack[m + 1].kind # "skip" <=> doc[open[m]].parent = open[n]
<1>1. n = 3 /\ stack[n + 1].kind # "skip" /\ Len(open) \in Nat
  BY Depths, DocFacts DEF InProcessKind, FlowNode
<1>2. m # 1 /\ m - 1 \in 1..Len(open) /\ m - 1 + 1 = m
  BY <1>1, TagDepth
<1>3. doc[open[m]].parent = open[m - 1]
  BY <1>2, OpenPath
<1>4. stack[m + 1].kind # "skip" <=> stack[m].kind # "skip"
  BY Kinds DEF ContainerKind
<1>5. ASSUME stack[m].kind # "skip"
      PROVE  m - 1 = n
  <2>1. stack[m + 1].kind = "extensionElements"
    BY <1>5, Kinds DEF ContainerKind
  <2>2. stack[m].kind \in {"process"} \cup InProcessKind
    BY <2>1, Depths
  <2> DEFINE i == m - 1
  <2>6. i \in 1..Len(open) /\ i + 1 = m
    BY <1>2
  <2> HIDE DEF i
  <2>7. stack[i + 1].kind = "process" => i = 2
    BY <2>6, Depths
  <2>8. stack[i + 1].kind \in InProcessKind => i = 3
    BY <2>6, Depths
  <2>3. stack[m].kind = "process" => m - 1 = 2
    BY <2>6, <2>7 DEF i
  <2>4. stack[m].kind \in InProcessKind => m - 1 = 3
    BY <2>6, <2>8 DEF i
  <2>5. m # n
    BY <2>1 DEF InProcessKind, FlowNode
  <2> QED
    BY <1>1, <1>2, <2>2, <2>3, <2>4, <2>5
<1>6. ASSUME open[m - 1] = open[n]
      PROVE  m - 1 = n
  <2> DEFINE i == m - 1
  <2>1. i \in 1..Len(open) /\ open[i] = open[n] /\ open[i] \in Nat
    BY <1>2, <1>6, DocFacts
  <2> HIDE DEF i
  <2>2. n < i => n \in 1..(i - 1)
    BY <1>1, <2>1
  <2>3. i < n => i \in 1..(n - 1)
    BY <1>1, <2>1
  <2>4. ~(n < i) /\ ~(i < n)
    BY <2>1, <2>2, <2>3, OpenPath
  <2>5. i = n
    BY <2>1, <2>4
  <2> QED
    BY <2>5 DEF i
<1>7. m - 1 = n => open[m - 1] = open[n] /\ stack[m] = stack[n + 1]
  BY <1>2
<1> QED
  BY <1>1, <1>3, <1>4, <1>5, <1>6, <1>7

(* A task definition below a service task is one of its own extensions.    *)
LEMMA TypeOfTask ==
  ASSUME ParserTypeOK, DocOK, StackOK, NEW t \in Tagged, NEW e \in BOOLEAN, Start(t, e),
         NEW n \in 1..Len(open), NEW k, k = open[n], stack[n + 1].kind = "serviceTask"
  PROVE  TypeMeant(k)' = IF Top.kind # "skip" /\ t.tag = "taskDefinition"
                         THEN t.type ELSE TypeMeant(k)
<1> DEFINE x == Len(doc) + 1
           l == Len(open)
           ts == Extensions(k, "taskDefinition")
           own == /\ t.tag = "taskDefinition" /\ Parent # 0
                  /\ doc[Parent].start.tag = "extensionElements" /\ doc[Parent].parent = k
<1>1. open # <<>> /\ Len(doc) \in Nat
  BY DocFacts
<1>2. l \in 1..l /\ Parent = open[l] /\ Parent \in 1..Len(doc) /\ Parent # 0
  <2>1. l \in 1..l /\ Parent = open[l] /\ Parent \in 1..Len(doc)
    BY <1>1, InnermostOpen
  <2> QED
    BY <2>1
<1>3. k \in 1..Len(doc)
  BY OpenPath
<1>4. Top = stack[l + 1]
  BY <1>1, TopItem
<1>5. doc'[x].start = t
  <2>1. doc'[x] = [start |-> t, closed |-> e, texts |-> <<>>, parent |-> Parent]
    BY StartInDoc
  <2> QED
    BY <2>1
<1>6. \A j \in 1..Len(doc) : doc'[j] = doc[j]
  BY StartInDoc
<1>7. Extensions(k, "taskDefinition")' = ts \cup IF own THEN {x} ELSE {}
  BY <1>3, StartMeans
<1>8. ASSUME t.tag = "taskDefinition"
      PROVE  /\ doc[Parent].start.tag = "extensionElements"
             /\ own <=> Top.kind # "skip"
  <2>1. doc[Parent].start.tag = "extensionElements"
    <3>1. t.tag \in CanContain(doc[Parent].start.tag)
      BY <1>1, StartInDoc
    <3> QED
      BY <1>8, <3>1, Contained
  <2>2. stack[n + 1].kind \in InProcessKind
    BY DEF InProcessKind, FlowNode
  <2>3. stack[l + 1].kind # "skip" <=> doc[Parent].parent = k
    BY <1>2, <2>1, <2>2, ExtensionPath
  <2> QED
    BY <1>2, <1>4, <1>8, <2>1, <2>3
<1>9. ASSUME own
      PROVE  ts = {}
  <2> SUFFICES ASSUME NEW j \in ts
               PROVE  FALSE
    OBVIOUS
  <2> DEFINE p == doc[j].parent
  <2>1. /\ j \in 1..Len(doc) /\ doc[j].start.tag = "taskDefinition" /\ p # 0
        /\ doc[p].start.tag = "extensionElements" /\ doc[p].parent = k
    BY DocFacts DEF Extensions
  <2>2. p \in 1..Len(doc)
    BY <2>1, Parents
  <2> HIDE DEF p
  <2>3. p = Parent
    BY <1>2, <1>9, <2>1, <2>2, Singles DEF Single
  <2>4. \A i \in 1..Len(doc) : doc[i].parent = Parent => doc[i].start.tag # t.tag
    BY <1>1, <1>9, StartInDoc DEF Single
  <2> QED
    BY <1>9, <2>1, <2>3, <2>4 DEF p
<1> HIDE DEF x, ts, own
<1>10. CASE own
  <2>1. Extensions(k, "taskDefinition")' = {x}
    BY <1>7, <1>9, <1>10
  <2>2. (CHOOSE j \in {x} : TRUE) = x
    OBVIOUS
  <2>3. TypeMeant(k)' = t.type
    BY <1>5, <2>1, <2>2 DEF TypeMeant
  <2>4. t.tag = "taskDefinition" /\ Top.kind # "skip"
    BY <1>8, <1>10 DEF own
  <2> QED
    BY <2>3, <2>4
<1>11. CASE ~own
  <2>1. Extensions(k, "taskDefinition")' = ts
    BY <1>7, <1>11
  <2>2. ts # {} => (CHOOSE j \in ts : TRUE) \in 1..Len(doc)
    BY DocFacts DEF ts, Extensions
  <2>3. ts # {} => doc'[CHOOSE j \in ts : TRUE] = doc[CHOOSE j \in ts : TRUE]
    BY <1>6, <2>2
  <2> DEFINE TypeIn(S) == IF S = {} THEN NoId ELSE doc'[CHOOSE j \in S : TRUE].start.type
  <2>6. TypeMeant(k)' = TypeIn(Extensions(k, "taskDefinition")')
    BY DEF TypeMeant
  <2> HIDE DEF TypeIn
  <2>7. TypeMeant(k)' = TypeIn(ts)
    BY <2>1, <2>6
  <2>4. TypeMeant(k)' = IF ts = {} THEN NoId ELSE doc'[CHOOSE j \in ts : TRUE].start.type
    BY <2>7 DEF TypeIn
  <2>5. TypeMeant(k)' = TypeMeant(k)
    BY <2>3, <2>4 DEF TypeMeant, ts
  <2> QED
    BY <1>8, <1>11, <2>5
<1> QED
  BY <1>10, <1>11
-----------------------------------------------------------------------------
(* The items of open elements say what has been read of them.              *)

(* What a list says stays what the document says.                          *)
LEMMA ListsStay ==
  ASSUME NEW S, NEW io, Lists(io, S), \A j \in S : EntryMeant(j)' = EntryMeant(j)
  PROVE  Lists(io, S)'
BY DEF Lists, Place

(* One entry more, for the last position.                                  *)
LEMMA ListsGrow ==
  ASSUME ParserTypeOK, NEW S, S \subseteq DOMAIN doc, NEW io \in Seq(Mapping), Lists(io, S),
         \A j \in S : EntryMeant(j)' = EntryMeant(j),
         NEW x, x = Len(doc) + 1, NEW entry \in Mapping, EntryMeant(x)' = entry
  PROVE  Lists(Append(io, entry), S \cup {x})'
<1>1. Len(doc) \in Nat /\ DOMAIN doc = 1..Len(doc)
  BY DocFacts
<1>2. IsFiniteSet(S) /\ S \subseteq Nat
  BY PositionsFinite
<1>3. x \in Nat /\ \A j \in S : j < x
  BY <1>1
<1>4. /\ Cardinality(S) \in Nat
      /\ Cardinality(S \cup {x}) = Cardinality(S) + 1
      /\ Place(x, S \cup {x}) = Cardinality(S) + 1
      /\ \A k \in S : /\ Place(k, S \cup {x}) = Place(k, S)
                      /\ Place(k, S) \in 1..Cardinality(S)
  BY <1>2, <1>3, Places
<1>5. Len(io) = Cardinality(S) /\ \A k \in S : io[Place(k, S)] = EntryMeant(k)
  BY DEF Lists
<1> DEFINE more == Append(io, entry)
<1>6. Len(more) = Len(io) + 1 /\ more[Len(io) + 1] = entry
      /\ \A m \in 1..Len(io) : more[m] = io[m]
  OBVIOUS
<1> HIDE DEF more
<1>7. Len(more) = Cardinality(S \cup {x})
  BY <1>4, <1>5, <1>6
<1>8. \A k \in S : more[Place(k, S \cup {x})] = EntryMeant(k)'
  BY <1>4, <1>5, <1>6
<1>9. more[Place(x, S \cup {x})] = EntryMeant(x)'
  BY <1>4, <1>5, <1>6
<1>10. Lists(more, S \cup {x})'
  BY <1>7, <1>8, <1>9 DEF Lists, Place
<1> QED
  BY <1>10 DEF more

(* After a start tag each open element still has the item that says what   *)
(* has been read of it.                                                    *)
LEMMA StartKeepsItem ==
  ASSUME ParserTypeOK, DocOK, StackOK, ProcessIsCaptured,
         NEW t \in Tagged, NEW e \in BOOLEAN, Start(t, e),
         NEW n \in 1..Len(open), NEW k, k = open[n], NEW i, i = stack'[n + 1],
         NEW below, below = stack[n].kind
  PROVE  i.kind = KindOn(below, k)' /\ ItemOK(i, k)'
<1> DEFINE l == Len(open)
           j == stack[n + 1]
           entry == [tag |-> t.tag, source |-> t.source, target |-> t.target]
<1>1. /\ open # <<>> /\ l \in Nat /\ Len(doc) \in Nat /\ Len(stack) = l + 1
      /\ n + 1 \in 1..Len(stack) /\ k \in 1..Len(doc) /\ n \in DOMAIN open
      /\ DOMAIN doc = 1..Len(doc)
  <2>1. open # <<>> /\ l \in Nat /\ Len(doc) \in Nat /\ DOMAIN doc = 1..Len(doc) /\ n \in DOMAIN open
    BY DocFacts
  <2>2. Len(stack) = l + 1 /\ k \in 1..Len(doc)
    BY <2>1, TopItem, OpenPath
  <2> QED
    BY <2>1, <2>2
<1>2. j.kind = KindOn(below, k) /\ ItemOK(j, k)
  BY <1>1 DEF StackOK
<1>3. /\ i.kind = j.kind /\ i.start = j.start /\ i.content = j.content
      /\ i.type = IF j.kind = "serviceTask" /\ Top.kind # "skip" /\ t.tag = "taskDefinition"
                  THEN t.type ELSE j.type
      /\ i.io = IF n + 1 = Len(stack) /\ Top.kind = "ioMapping" /\ t.tag \in {"input", "output"}
                THEN Append(j.io, entry) ELSE j.io
  BY <1>1, StartStack
<1>4. doc'[k] = doc[k] /\ (Captured(k)' <=> Captured(k)) /\ EntriesOf(k)' = EntriesOf(k)
      /\ ConditionMeant(k)' = ConditionMeant(k)
  BY <1>1, StartInDoc, StartMeans
<1>5. i.kind = KindOn(below, k)'
  BY <1>2, <1>3, <1>4 DEF KindOn
<1>6. i.kind # "skip" => i.start = doc'[k].start
  BY <1>2, <1>3, <1>4 DEF ItemOK
<1>7. /\ i.kind = "conditionExpression" => i.content = doc'[k].texts
      /\ i.kind = "sequenceFlow" => i.content = ConditionMeant(k)'
  BY <1>2, <1>3, <1>4 DEF ItemOK
<1>8. i.type = IF i.kind = "serviceTask" THEN TypeMeant(k)' ELSE NoId
  <2>1. j.type = IF j.kind = "serviceTask" THEN TypeMeant(k) ELSE NoId
    BY <1>2 DEF ItemOK
  <2>2. j.kind = "serviceTask" =>
          TypeMeant(k)' = IF Top.kind # "skip" /\ t.tag = "taskDefinition"
                          THEN t.type ELSE TypeMeant(k)
    BY TypeOfTask
  <2> QED
    BY <1>3, <2>1, <2>2
<1>9. Lists(i.io, EntriesSoFar(i, k))'
  <2>1. PICK S : S = EntriesSoFar(j, k)
    OBVIOUS
  <2>2. PICK io : io = j.io
    OBVIOUS
  <2>3. PICK x : x = Len(doc) + 1
    OBVIOUS
  <2>4. Lists(io, S)
    BY <1>2, <2>1, <2>2 DEF ItemOK
  <2>5. \A m \in 1..Len(doc) : EntryMeant(m)' = EntryMeant(m)
    BY StartMeans
  <2>6. S \subseteq DOMAIN doc
    BY <2>1 DEF EntriesSoFar, EntriesOf
  <2>7. CASE i.kind # "ioMapping"
    <3>1. i.io = io
      BY <1>1, <1>3, <2>2, <2>7, TopItem
    <3>2. EntriesSoFar(i, k)' = S
      BY <1>3, <1>4, <2>1, <2>7 DEF EntriesSoFar
    <3> QED
      BY <1>1, <2>4, <2>5, <2>6, <3>1, <3>2, ListsStay
  <2>8. CASE i.kind = "ioMapping"
    <3>1. S = {m \in DOMAIN doc : doc[m].parent = k}
      BY <1>3, <2>1, <2>8 DEF EntriesSoFar, Task
    <3>2. EntriesSoFar(i, k)' = {m \in DOMAIN doc : doc[m].parent = k}'
      BY <2>8 DEF EntriesSoFar, Task
    <3>3. EntriesSoFar(i, k)' = S \cup IF Parent = k THEN {x} ELSE {}
      <4>1. {m \in DOMAIN doc : doc[m].parent = k}' =
              {m \in DOMAIN doc : doc[m].parent = k} \cup IF Parent = k THEN {x} ELSE {}
        BY <1>1, <2>3, NewMeans
      <4> QED
        BY <3>1, <3>2, <4>1
    <3>4. CASE n = l
      <4>1. Parent = k /\ Top = j
        BY <1>1, <3>4, InnermostOpen, TopItem
      <4>2. t.tag \in {"input", "output"}
        <5>1. doc[k].start.tag = "ioMapping"
          BY <1>3, <2>8, Kinds DEF ContainerKind
        <5>2. t.tag \in CanContain("ioMapping")
          BY <1>1, <4>1, <5>1, StartInDoc
        <5> QED
          BY <5>2 DEF CanContain, FlowNode
      <4>3. PICK new : new = [tag |-> t.tag, source |-> t.source, target |-> t.target]
        OBVIOUS
      <4>4. i.io = Append(io, new)
        BY <1>1, <1>3, <2>2, <2>8, <3>4, <4>1, <4>2, <4>3
      <4>5. EntryMeant(x)' = new
        BY <2>3, <4>3, NewMeans
      <4>6. new \in Mapping
        BY <4>2, <4>3 DEF Mapping, Tagged
      <4>7. io \in Seq(Mapping)
        <5>1. j \in Items
          BY <1>1 DEF ParserTypeOK
        <5> QED
          BY <2>2, <5>1, ItemFields
      <4>8. Lists(Append(io, new), S \cup {x})'
        BY <1>1, <2>3, <2>4, <2>5, <2>6, <4>5, <4>6, <4>7, ListsGrow
      <4>9. EntriesSoFar(i, k)' = S \cup {x}
        BY <3>3, <4>1
      <4> QED
        BY <4>4, <4>8, <4>9
    <3>5. CASE n # l
      <4>1. Parent # k
        <5>1. n \in 1..(l - 1) /\ l \in 1..l /\ open[n] \in Nat
          BY <1>1, <3>5, DocFacts
        <5>2. open[n] < open[l] /\ Parent = open[l]
          BY <1>1, <5>1, OpenPath, InnermostOpen
        <5> QED
          BY <5>1, <5>2
      <4>2. i.io = io
        BY <1>1, <1>3, <2>2, <3>5
      <4>3. EntriesSoFar(i, k)' = S
        BY <3>3, <4>1
      <4> QED
        BY <1>1, <2>4, <2>5, <2>6, <4>2, <4>3, ListsStay
    <3> QED
      BY <3>4, <3>5
  <2> QED
    BY <2>7, <2>8
<1> QED
  BY <1>5, <1>6, <1>7, <1>8, <1>9 DEF ItemOK

(* The item of a new element says nothing yet.                             *)
LEMMA NewItemOK ==
  ASSUME ParserTypeOK, DocOK, StackOK, ProcessIsCaptured,
         NEW t \in Tagged, NEW e \in BOOLEAN, Start(t, e), NEW x, x = Len(doc) + 1,
         NEW i, i = NewItem(t), NEW below, below = Top.kind
  PROVE  i.kind = KindOn(below, x)' /\ ItemOK(i, x)'
<1>1. doc'[x].start = t /\ doc'[x].texts = <<>>
  <2>1. doc'[x] = [start |-> t, closed |-> e, texts |-> <<>>, parent |-> Parent]
    BY StartInDoc
  <2> QED
    BY <2>1
<1>2. /\ Captured(x)' <=> t.tag = "process" /\ Captures(t)
      /\ EntriesOf(x)' = {}
      /\ ConditionMeant(x)' = <<>>
      /\ TypeMeant(x)' = NoId
      /\ {j \in DOMAIN doc : doc[j].parent = x}' = {}
  BY NewMeans
<1>3. /\ i.kind = NewKind(t) /\ i.content = <<>> /\ i.type = NoId /\ i.io = <<>>
      /\ i.kind # "skip" => i.start = t
  <2>1. NewKind(t) = "skip" => i = Skip
    BY DEF NewItem
  <2>2. NewKind(t) # "skip" => i = Item(NewKind(t), t)
    BY DEF NewItem
  <2> QED
    BY <2>1, <2>2 DEF Item, Skip
<1>4. i.kind = KindOn(below, x)'
  BY <1>1, <1>2, <1>3 DEF KindOn, NewKind
<1>5. Lists(i.io, EntriesSoFar(i, x))'
  <2>1. EntriesSoFar(i, x)' = {}
    BY <1>2 DEF EntriesSoFar
  <2>2. Cardinality({}) = 0 /\ Len(<<>>) = 0
    BY FS_EmptySet
  <2> QED
    BY <1>3, <2>1, <2>2 DEF Lists
<1> QED
  BY <1>1, <1>2, <1>3, <1>4, <1>5 DEF ItemOK

(* A start tag keeps the stack true to the document.                       *)
LEMMA StartKeepsStack ==
  ASSUME ParserTypeOK, DocOK, StackOK, ProcessIsCaptured,
         NEW t \in Tagged, NEW e \in BOOLEAN, Start(t, e)
  PROVE  ParserTypeOK' /\ StackOK' /\ ProcessIsCaptured'
<1> DEFINE l == Len(open)
           x == Len(doc) + 1
<1>1. /\ Len(doc) \in Nat /\ DOMAIN doc = 1..Len(doc)
      /\ l \in Nat /\ DOMAIN open = 1..l
      /\ open = <<>> <=> l = 0
      /\ doc = <<>> <=> Len(doc) = 0
  BY DocFacts
<1>2. /\ doc' \in Seq([start : Tagged, closed : BOOLEAN, texts : Seq(Text), parent : Nat])
      /\ open' \in Seq(DOMAIN doc')
      /\ DOMAIN doc' = 1..x
      /\ DOMAIN open' = IF e THEN 1..l ELSE 1..(l + 1)
      /\ ~e => open'[l + 1] = x
      /\ \A n \in 1..l : open'[n] = open[n]
      /\ open = <<>> => doc = <<>>
  BY <1>1, StartInDoc
<1>3. /\ stack' \in Seq(Items) /\ stack' # <<>>
      /\ open # <<>> \/ ~e => Len(stack') = IF e THEN Len(stack) ELSE Len(stack) + 1
      /\ \A m \in 1..Len(stack) : stack'[m].kind = stack[m].kind
      /\ ~e => stack'[Len(stack) + 1] = NewItem(t)
  BY StartStack
<1>4. ParserTypeOK'
  <2>1. process' \subseteq Attribute
    <3>1. process' = process \/ process' = {t.id}
      BY StartReads DEF Start
    <3>2. t.id \in Attribute
      BY DEF Tagged
    <3> QED
      BY <3>1, <3>2 DEF ParserTypeOK
  <2>2. result' = result
    BY DEF Start
  <2> QED
    BY <1>2, <1>3, <2>1, <2>2 DEF ParserTypeOK
<1>5. doc' # <<>>
  <2>1. x \in DOMAIN doc'
    BY <1>1, <1>2
  <2>2. DOMAIN <<>> = {}
    OBVIOUS
  <2> QED
    BY <2>1, <2>2
<1>6. Len(stack) = l + 1 /\ stack[1].kind = "root" /\ Top = stack[l + 1]
  <2>1. CASE open = <<>>
    <3>1. l = 0 /\ Len(stack) = 1 /\ Top.kind = "root" /\ Top = stack[Len(stack)]
      BY <1>1, <1>2, <2>1, TopItem
    <3> QED
      BY <3>1
  <2>2. CASE open # <<>>
    BY <2>2, TopItem DEF StackOK
  <2> QED
    BY <2>1, <2>2
<1>7. open' # <<>> => open # <<>> \/ ~e
  <2>1. open' = IF e THEN open ELSE Append(open, x)
    BY DEF Start
  <2> QED
    BY <2>1
<1>8. Len(open') = IF e THEN l ELSE l + 1
  <2>1. Len(open') \in Nat /\ DOMAIN open' = 1..Len(open')
    <3> DEFINE D == DOMAIN doc'
    <3> HIDE DEF D
    <3>1. open' \in Seq(D)
      BY <1>2 DEF D
    <3> QED
      BY <3>1
  <2> QED
    BY <1>1, <1>2, <2>1
<1>9. open' # <<>> => Len(stack') = Len(open') + 1 /\ stack'[1].kind = "root"
  <2>1. 1 \in 1..Len(stack)
    BY <1>1, <1>6
  <2> QED
    BY <1>1, <1>3, <1>6, <1>7, <1>8, <2>1
<1>10. ASSUME NEW n \in DOMAIN open'
       PROVE  stack'[n + 1].kind = KindOn(stack[n].kind, open[n])' /\ ItemOK(stack[n + 1], open[n])'
  <2>1. PICK i : i = stack'[n + 1]
    OBVIOUS
  <2>2. PICK k : k = open'[n]
    OBVIOUS
  <2>3. PICK below : below = stack[n].kind
    OBVIOUS
  <2>4. n \in 1..Len(stack) /\ stack'[n].kind = below
    <3>1. n \in 1..(l + 1)
      BY <1>1, <1>2
    <3> QED
      BY <1>3, <1>6, <2>3, <3>1
  <2>5. i.kind = KindOn(below, k)' /\ ItemOK(i, k)'
    <3>1. CASE n \in 1..l
      <4>1. k = open[n]
        BY <1>2, <2>2, <3>1
      <4> QED
        BY <2>1, <2>3, <3>1, <4>1, StartKeepsItem
    <3>2. CASE n \notin 1..l
      <4>1. ~e /\ n = l + 1
        BY <1>1, <1>2, <3>2
      <4>2. k = Len(doc) + 1 /\ i = NewItem(t) /\ below = Top.kind
        BY <1>2, <1>3, <1>6, <2>1, <2>2, <2>3, <4>1
      <4> QED
        BY <4>2, NewItemOK
    <3> QED
      BY <3>1, <3>2
  <2> QED
    BY <2>1, <2>2, <2>4, <2>5
<1>11. StackOK'
  BY <1>5, <1>9, <1>10 DEF StackOK
<1>12. ProcessIsCaptured'
  <2> DEFINE Old == {j \in 1..Len(doc) : Captured(j)}
             New == {j \in 1..x : Captured(j)'}
  <2>1. \A j \in 1..Len(doc) : doc'[j] = doc[j] /\ (Captured(j)' <=> Captured(j))
    BY StartInDoc, StartMeans
  <2>2. doc'[x].start = t
    <3>1. doc'[x] = [start |-> t, closed |-> e, texts |-> <<>>, parent |-> Parent]
      BY StartInDoc
    <3> QED
      BY <3>1
  <2>3. PICK y : y = x
    OBVIOUS
  <2>4. Captured(y)' <=> t.tag = "process" /\ Captures(t)
    BY <2>3, NewMeans
  <2>5. New = Old \cup IF t.tag = "process" /\ Captures(t) THEN {x} ELSE {}
    <3>1. \A j \in New : j = x \/ j \in Old
      BY <1>1, <2>1
    <3>2. \A j \in Old : j \in New /\ j # x
      BY <1>1, <2>1
    <3>3. x \in New <=> t.tag = "process" /\ Captures(t)
      BY <1>1, <2>3, <2>4
    <3> QED
      BY <3>1, <3>2, <3>3
  <2>6. process = {doc[k].start.id : k \in Old}
    BY <1>1 DEF ProcessIsCaptured
  <2>7. process' = IF Top.kind # "skip" /\ t.tag = "process" /\ Captures(t) THEN {t.id} ELSE process
    BY StartReads DEF Start
  <2>8. t.tag = "process" => Top.kind # "skip"
    <3> SUFFICES ASSUME t.tag = "process"
                 PROVE  Top.kind # "skip"
      OBVIOUS
    <3>1. open # <<>>
      BY <1>1, StartInDoc
    <3>2. doc[open[l]].start.tag = "definitions" /\ l \in 1..l
      <4>1. t.tag \in CanContain(doc[Parent].start.tag) /\ Parent = open[l]
        BY <3>1, StartInDoc
      <4> QED
        BY <1>1, <3>1, <4>1, Contained
    <3>3. l = 1
      BY <3>2, TagDepth
    <3>4. stack[l + 1].kind = "definitions"
      BY <3>2, <3>3, Depths
    <3> QED
      BY <1>6, <3>4
  <2>9. process' = {doc'[k].start.id : k \in New}
    <3>1. CASE t.tag = "process" /\ Captures(t)
      <4>1. Old = {}
        BY <2>6, <3>1 DEF Captures
      <4>2. New = {x}
        BY <2>5, <3>1, <4>1
      <4> QED
        BY <2>2, <2>7, <2>8, <3>1, <4>2
    <3>2. CASE ~(t.tag = "process" /\ Captures(t))
      <4>1. New = Old /\ process' = process
        BY <2>5, <2>7, <3>2
      <4>2. \A k \in Old : doc'[k].start.id = doc[k].start.id
        BY <2>1
      <4> QED
        BY <2>6, <4>1, <4>2
    <3> QED
      BY <3>1, <3>2
  <2> QED
    BY <1>2, <2>9 DEF ProcessIsCaptured
<1> QED
  BY <1>4, <1>11, <1>12
-----------------------------------------------------------------------------
(* Texts.                                                                  *)

(* A step that only adds texts to elements or closes some changes little   *)
(* of what the document means.                                             *)
LEMMA SameShape ==
  ASSUME ParserTypeOK, DocOK, DOMAIN doc' = DOMAIN doc,
         \A j \in 1..Len(doc) : doc'[j].start = doc[j].start /\ doc'[j].parent = doc[j].parent,
         NEW k \in 1..Len(doc)
  PROVE  /\ Captured(k)' <=> Captured(k)
         /\ EntryMeant(k)' = EntryMeant(k)
         /\ \A tag : Extensions(k, tag)' = Extensions(k, tag)
         /\ TypeMeant(k)' = TypeMeant(k)
         /\ {j \in DOMAIN doc : doc[j].parent = k}' = {j \in DOMAIN doc : doc[j].parent = k}
<1>1. DOMAIN doc = 1..Len(doc)
  BY DocFacts
<1>2. \A j \in 1..Len(doc) : Executable(j)' <=> Executable(j)
  BY DEF Executable
<1>3. Captured(k)' <=> Captured(k)
  BY <1>1, <1>2 DEF Captured
<1>4. EntryMeant(k)' = EntryMeant(k)
  BY DEF EntryMeant
<1>5. ASSUME NEW tag
      PROVE  Extensions(k, tag)' = Extensions(k, tag)
  <2>1. \A j \in 1..Len(doc) : doc[j].parent # 0 => doc[j].parent \in 1..Len(doc)
    BY Parents
  <2> QED
    BY <1>1, <2>1 DEF Extensions
<1>6. TypeMeant(k)' = TypeMeant(k)
  <2>1. PICK ts : ts = Extensions(k, "taskDefinition")
    OBVIOUS
  <2>2. Extensions(k, "taskDefinition")' = ts
    BY <1>5, <2>1
  <2>3. ts # {} => (CHOOSE j \in ts : TRUE) \in 1..Len(doc)
    BY <1>1, <2>1 DEF Extensions
  <2> DEFINE TypeIn(S) == IF S = {} THEN NoId ELSE doc[CHOOSE j \in S : TRUE].start.type
             NextTypeIn(S) == IF S = {} THEN NoId ELSE doc'[CHOOSE j \in S : TRUE].start.type
  <2>4. NextTypeIn(ts) = TypeIn(ts)
    BY <2>3
  <2>5. TypeMeant(k) = TypeIn(Extensions(k, "taskDefinition"))
    BY DEF TypeMeant
  <2>6. TypeMeant(k)' = NextTypeIn(Extensions(k, "taskDefinition")')
    BY DEF TypeMeant
  <2> HIDE DEF TypeIn, NextTypeIn
  <2> QED
    BY <2>1, <2>2, <2>4, <2>5, <2>6
<1>7. {j \in DOMAIN doc : doc[j].parent = k}' = {j \in DOMAIN doc : doc[j].parent = k}
  BY <1>1
<1> QED
  BY <1>3, <1>4, <1>5, <1>6, <1>7

(* A text changes the meaning of its own element only, which is not        *)
(* closed.                                                                 *)
LEMMA TextMeans ==
  ASSUME ParserTypeOK, DocOK, NEW x \in Text, Characters(x), NEW k \in 1..Len(doc)
  PROVE  /\ Captured(k)' <=> Captured(k)
         /\ EntryMeant(k)' = EntryMeant(k)
         /\ EntriesOf(k)' = EntriesOf(k)
         /\ TypeMeant(k)' = TypeMeant(k)
         /\ {j \in DOMAIN doc : doc[j].parent = k}' = {j \in DOMAIN doc : doc[j].parent = k}
         /\ ConditionMeant(k)' = ConditionMeant(k)
<1>1. /\ DOMAIN doc' = 1..Len(doc) /\ DOMAIN doc = 1..Len(doc)
      /\ \A j \in 1..Len(doc) :
           /\ doc'[j].start = doc[j].start /\ doc'[j].parent = doc[j].parent
           /\ doc'[j].closed = doc[j].closed
           /\ j # Parent => doc'[j].texts = doc[j].texts
  BY DocFacts, TextInDoc
<1>2. /\ Captured(k)' <=> Captured(k)
      /\ EntryMeant(k)' = EntryMeant(k)
      /\ Extensions(k, "ioMapping")' = Extensions(k, "ioMapping")
      /\ TypeMeant(k)' = TypeMeant(k)
      /\ {j \in DOMAIN doc : doc[j].parent = k}' = {j \in DOMAIN doc : doc[j].parent = k}
  BY <1>1, SameShape
<1>3. EntriesOf(k)' = EntriesOf(k)
  <2>1. Extensions(k, "ioMapping") \subseteq 1..Len(doc)
    BY <1>1 DEF Extensions
  <2> QED
    BY <1>1, <1>2, <2>1 DEF EntriesOf
<1>4. ConditionMeant(k)' = ConditionMeant(k)
  <2>1. PICK cs : cs = Conditions(k)
    OBVIOUS
  <2>2. Conditions(k)' = cs
    BY <1>1, <2>1 DEF Conditions
  <2>3. ~doc[Parent].closed
    <3>1. open # <<>>
      BY TextInDoc
    <3> QED
      BY <3>1, InnermostOpen, ClosedOrOpen
  <2>4. cs # {} => LET c == CHOOSE j \in cs : TRUE IN c \in 1..Len(doc) /\ c # Parent
    BY <1>1, <2>1, <2>3 DEF Conditions
  <2> DEFINE TextIn(S) == IF S = {} THEN <<>> ELSE doc[CHOOSE j \in S : TRUE].texts
             NextTextIn(S) == IF S = {} THEN <<>> ELSE doc'[CHOOSE j \in S : TRUE].texts
  <2>5. NextTextIn(cs) = TextIn(cs)
    BY <1>1, <2>4
  <2>6. ConditionMeant(k) = TextIn(Conditions(k))
    BY DEF ConditionMeant
  <2>7. ConditionMeant(k)' = NextTextIn(Conditions(k)')
    BY DEF ConditionMeant
  <2> HIDE DEF TextIn, NextTextIn
  <2> QED
    BY <2>1, <2>2, <2>5, <2>6, <2>7
<1> QED
  BY <1>2, <1>3, <1>4

(* A text goes to the condition on top of the stack, or nowhere.           *)
LEMMA TextOnStack ==
  ASSUME ParserTypeOK, DocOK, StackOK, NEW x \in Text, Characters(x)
  PROVE  /\ stack' \in Seq(Items) /\ Len(stack') = Len(stack)
         /\ \A m \in 1..Len(stack) :
              /\ stack'[m].kind = stack[m].kind /\ stack'[m].start = stack[m].start
              /\ stack'[m].type = stack[m].type /\ stack'[m].io = stack[m].io
              /\ stack'[m].content = IF m = Len(stack) /\ Top.kind = "conditionExpression"
                                     THEN Append(stack[m].content, x) ELSE stack[m].content
<1> DEFINE l == Len(stack)
           text == Append(Top.content, x)
           i == [Top EXCEPT !.content = text]
<1>1. l \in 1..l /\ Top = stack[l] /\ Top \in Items /\ stack \in Seq(Items)
  BY TopItem DEF ParserTypeOK
<1>2. CASE Top.kind = "conditionExpression"
  <2>1. stack' = [stack EXCEPT ![l] = i]
    BY <1>1, <1>2 DEF Characters, PushText
  <2>2. text \in Seq(Text)
    <3>1. Top.content \in Seq(Text)
      BY <1>1, ItemFields
    <3> QED
      BY <3>1
  <2> HIDE DEF text
  <2>3. /\ i \in Items /\ i.content = text
        /\ i.kind = Top.kind /\ i.start = Top.start /\ i.io = Top.io /\ i.type = Top.type
    BY <1>1, <2>2, ItemFields
  <2> HIDE DEF i
  <2>4. /\ [stack EXCEPT ![l] = i] \in Seq(Items)
        /\ Len([stack EXCEPT ![l] = i]) = Len(stack)
        /\ \A m \in 1..Len(stack) : [stack EXCEPT ![l] = i][m] = IF m = l THEN i ELSE stack[m]
    BY <1>1, <2>3, Rewritten
  <2>5. /\ stack' \in Seq(Items) /\ Len(stack') = Len(stack)
        /\ \A m \in 1..Len(stack) : stack'[m] = IF m = l THEN i ELSE stack[m]
    BY <2>1, <2>4
  <2>6. /\ i.kind = stack[l].kind /\ i.start = stack[l].start /\ i.io = stack[l].io
        /\ i.type = stack[l].type /\ i.content = Append(stack[l].content, x)
    BY <1>1, <2>3 DEF text
  <2> QED
    BY <1>2, <2>5, <2>6
<1>3. CASE Top.kind # "conditionExpression"
  <2>1. stack' = stack
    BY <1>3 DEF Characters
  <2> QED
    BY <1>1, <1>3, <2>1
<1> QED
  BY <1>2, <1>3

(* A text keeps the stack true to the document.                            *)
LEMMA TextKeepsStack ==
  ASSUME ParserTypeOK, DocOK, StackOK, ProcessIsCaptured, NEW x \in Text, Characters(x)
  PROVE  ParserTypeOK' /\ StackOK' /\ ProcessIsCaptured'
<1> DEFINE l == Len(open)
<1>1. /\ Len(doc) \in Nat /\ DOMAIN doc = 1..Len(doc) /\ l \in Nat /\ DOMAIN open = 1..l
      /\ open # <<>> /\ doc # <<>> /\ Len(stack) = l + 1 /\ stack[1].kind = "root"
      /\ Top = stack[l + 1]
  <2>1. open # <<>>
    BY TextInDoc
  <2>2. Parent \in 1..Len(doc)
    BY <2>1, InnermostOpen
  <2> QED
    BY <2>1, <2>2, DocFacts, TopItem DEF StackOK
<1>10. l \in Nat
  BY <1>1
<1>2. /\ open' = open
      /\ doc' \in Seq([start : Tagged, closed : BOOLEAN, texts : Seq(Text), parent : Nat])
      /\ DOMAIN doc' = 1..Len(doc) /\ Len(doc') = Len(doc)
      /\ \A k \in 1..Len(doc) :
           /\ doc'[k].start = doc[k].start
           /\ doc'[k].texts = IF k = Parent THEN Append(doc[k].texts, x) ELSE doc[k].texts
  BY TextInDoc
<1>3. /\ stack' \in Seq(Items) /\ Len(stack') = l + 1
      /\ \A m \in 1..(l + 1) :
           /\ stack'[m].kind = stack[m].kind /\ stack'[m].start = stack[m].start
           /\ stack'[m].type = stack[m].type /\ stack'[m].io = stack[m].io
           /\ stack'[m].content = IF m = l + 1 /\ Top.kind = "conditionExpression"
                                  THEN Append(stack[m].content, x) ELSE stack[m].content
  BY <1>1, TextOnStack
<1>4. process' = process /\ result' = result
  BY DEF Characters
<1>5. stack' # <<>> /\ doc' # <<>>
  <2>1. Len(stack') # 0 /\ Len(doc') # 0
    BY <1>1, <1>2, <1>3, DocFacts
  <2>2. Len(<<>>) = 0
    OBVIOUS
  <2> QED
    BY <2>1, <2>2
<1>6. ParserTypeOK'
  <2>1. open' \in Seq(DOMAIN doc')
    BY <1>1, <1>2 DEF ParserTypeOK
  <2> QED
    BY <1>2, <1>3, <1>4, <1>5, <2>1 DEF ParserTypeOK
<1>7. ASSUME NEW n \in 1..l
      PROVE  stack'[n + 1].kind = KindOn(stack[n].kind, open[n])' /\ ItemOK(stack[n + 1], open[n])'
  <2>1. PICK i : i = stack'[n + 1]
    OBVIOUS
  <2>2. PICK j : j = stack[n + 1]
    OBVIOUS
  <2>3. PICK k : k = open[n]
    OBVIOUS
  <2>4. PICK below : below = stack[n].kind
    OBVIOUS
  <2>5. k \in 1..Len(doc) /\ n \in DOMAIN open /\ n + 1 \in 1..(l + 1) /\ n \in 1..(l + 1)
    BY <1>1, <2>3, OpenPath
  <2>6. j.kind = KindOn(below, k) /\ ItemOK(j, k)
    BY <2>2, <2>3, <2>4, <2>5 DEF StackOK
  <2>7. /\ i.kind = j.kind /\ i.start = j.start /\ i.type = j.type /\ i.io = j.io
        /\ i.content = IF n = l /\ j.kind = "conditionExpression"
                       THEN Append(j.content, x) ELSE j.content
    BY <1>1, <1>3, <2>1, <2>2, <2>5
  <2>8. /\ Captured(k)' <=> Captured(k)
        /\ EntriesOf(k)' = EntriesOf(k)
        /\ TypeMeant(k)' = TypeMeant(k)
        /\ {m \in DOMAIN doc : doc[m].parent = k}' = {m \in DOMAIN doc : doc[m].parent = k}
        /\ ConditionMeant(k)' = ConditionMeant(k)
    BY <2>5, TextMeans
  <2>9. i.kind = KindOn(below, k)'
    BY <1>2, <2>5, <2>6, <2>7, <2>8 DEF KindOn
  <2>10. k = Parent <=> n = l
    <3>1. l \in 1..l /\ Parent = open[l]
      BY <1>1, InnermostOpen
    <3>2. n # l => open[n] < open[l]
      <4>1. n # l => n \in 1..(l - 1)
        <5> HIDE DEF l
        <5> QED
          BY <1>10
      <4> QED
        BY <3>1, <4>1, OpenPath
    <3>3. open[n] \in Nat
      BY DocFacts
    <3> QED
      BY <2>3, <3>1, <3>2, <3>3
  <2>11. /\ i.kind # "skip" => i.start = doc'[k].start
         /\ i.kind = "conditionExpression" => i.content = doc'[k].texts
         /\ i.kind = "sequenceFlow" => i.content = ConditionMeant(k)'
    BY <1>2, <2>5, <2>6, <2>7, <2>8, <2>10 DEF ItemOK
  <2>12. i.type = IF i.kind = "serviceTask" THEN TypeMeant(k)' ELSE NoId
    BY <2>6, <2>7, <2>8 DEF ItemOK
  <2>13. Lists(i.io, EntriesSoFar(i, k))'
    <3>1. PICK S : S = EntriesSoFar(j, k)
      OBVIOUS
    <3>2. EntriesSoFar(i, k)' = S
      BY <2>7, <2>8, <3>1 DEF EntriesSoFar
    <3>3. S \subseteq 1..Len(doc)
      BY <1>1, <3>1 DEF EntriesSoFar, EntriesOf
    <3>4. \A m \in S : EntryMeant(m)' = EntryMeant(m)
      BY <3>3, TextMeans
    <3>5. Lists(j.io, S)
      BY <2>6, <3>1 DEF ItemOK
    <3> QED
      BY <2>7, <3>2, <3>4, <3>5, ListsStay
  <2>14. ItemOK(i, k)'
    BY <2>11, <2>12, <2>13 DEF ItemOK
  <2> QED
    BY <1>2, <1>3, <2>1, <2>3, <2>4, <2>5, <2>9, <2>14
<1>8. StackOK'
  <2>1. Len(stack') = Len(open') + 1 /\ stack'[1].kind = "root" /\ DOMAIN open' = 1..l
    BY <1>1, <1>2, <1>3
  <2> QED
    BY <1>2, <1>5, <1>7, <2>1 DEF StackOK
<1>9. ProcessIsCaptured'
  <2>1. \A k \in 1..Len(doc) : Captured(k)' <=> Captured(k)
    BY TextMeans
  <2> QED
    BY <1>1, <1>2, <1>4, <2>1 DEF ProcessIsCaptured
<1> QED
  BY <1>6, <1>8, <1>9
-----------------------------------------------------------------------------
(* End tags.                                                               *)

(* The innermost open element but one contains the innermost one.          *)
LEMMA ChildPath ==
  ASSUME ParserTypeOK, DocOK, NEW m \in 1..Len(open), NEW n \in 1..Len(open)
  PROVE  doc[open[m]].parent = open[n] <=> m = n + 1
<1>1. Len(open) \in Nat /\ \A i \in 1..Len(open) : open[i] \in Nat /\ open[i] # 0
  BY DocFacts
<1>2. doc[open[m]].parent = IF m = 1 THEN 0 ELSE open[m - 1]
  BY OpenPath
<1>3. CASE m = 1
  BY <1>1, <1>2, <1>3
<1>4. CASE m # 1
  <2> DEFINE i == m - 1
  <2>1. i \in 1..Len(open) /\ (m = n + 1 <=> i = n)
    BY <1>1, <1>4
  <2> HIDE DEF i
  <2>2. n < i => n \in 1..(i - 1)
    BY <1>1, <2>1
  <2>3. i < n => i \in 1..(n - 1)
    BY <1>1, <2>1
  <2>4. (n < i => open[n] < open[i]) /\ (i < n => open[i] < open[n])
    BY <2>1, <2>2, <2>3, OpenPath
  <2>5. open[i] = open[n] <=> i = n
    BY <1>1, <2>1, <2>4
  <2> QED
    BY <1>2, <1>4, <2>1, <2>5 DEF i
<1> QED
  BY <1>3, <1>4

(* The end of a mapping tells its task the entries, that of a condition    *)
(* its flow the text.                                                      *)
LEMMA EndMeans ==
  ASSUME ParserTypeOK, DocOK, End, NEW k \in 1..Len(doc)
  PROVE  /\ Captured(k)' <=> Captured(k)
         /\ EntryMeant(k)' = EntryMeant(k)
         /\ TypeMeant(k)' = TypeMeant(k)
         /\ {j \in DOMAIN doc : doc[j].parent = k}' = {j \in DOMAIN doc : doc[j].parent = k}
         /\ EntriesOf(k)' = IF Parent \in Extensions(k, "ioMapping")
                            THEN {j \in DOMAIN doc : doc[j].parent = Parent} ELSE EntriesOf(k)
         /\ IF doc[Parent].parent = k /\ doc[Parent].start.tag = "conditionExpression"
            THEN ConditionMeant(k)' = doc[Parent].texts /\ ConditionMeant(k) = <<>>
            ELSE ConditionMeant(k)' = ConditionMeant(k)
<1> DEFINE p == Parent
<1>1. /\ DOMAIN doc' = 1..Len(doc) /\ DOMAIN doc = 1..Len(doc) /\ open # <<>>
      /\ \A j \in 1..Len(doc) :
           /\ doc'[j].start = doc[j].start /\ doc'[j].parent = doc[j].parent
           /\ doc'[j].texts = doc[j].texts
           /\ doc'[j].closed <=> doc[j].closed \/ j = p
  BY DocFacts, EndInDoc
<1>2. p \in 1..Len(doc) /\ ~doc[p].closed
  BY <1>1, InnermostOpen, ClosedOrOpen
<1>3. /\ Captured(k)' <=> Captured(k)
      /\ EntryMeant(k)' = EntryMeant(k)
      /\ Extensions(k, "ioMapping")' = Extensions(k, "ioMapping")
      /\ TypeMeant(k)' = TypeMeant(k)
      /\ {j \in DOMAIN doc : doc[j].parent = k}' = {j \in DOMAIN doc : doc[j].parent = k}
  BY <1>1, SameShape
<1> HIDE DEF p
<1>4. EntriesOf(k)' = IF p \in Extensions(k, "ioMapping")
                      THEN {j \in DOMAIN doc : doc[j].parent = p} ELSE EntriesOf(k)
  <2>1. PICK ms : ms = Extensions(k, "ioMapping")
    OBVIOUS
  <2>2. ms \subseteq 1..Len(doc) /\ Extensions(k, "ioMapping")' = ms
    BY <1>1, <1>3, <2>1 DEF Extensions
  <2>3. EntriesOf(k) = {j \in 1..Len(doc) : \E m \in ms : doc[m].closed /\ doc[j].parent = m}
    BY <1>1, <2>1 DEF EntriesOf
  <2>4. EntriesOf(k)' = {j \in 1..Len(doc) : \E m \in ms : doc'[m].closed /\ doc'[j].parent = m}
    BY <1>1, <2>2 DEF EntriesOf
  <2>5. CASE p \in ms
    <3>1. \A m \in ms : m = p
      BY <2>1, <2>5, OneExtension DEF Single
    <3>2. EntriesOf(k)' = {j \in 1..Len(doc) : doc[j].parent = p}
      BY <1>1, <1>2, <2>4, <2>5, <3>1
    <3> QED
      BY <1>1, <2>1, <2>5, <3>2
  <2>6. CASE p \notin ms
    <3>1. \A m \in ms : doc'[m].closed <=> doc[m].closed
      BY <1>1, <2>2, <2>6
    <3>2. EntriesOf(k)' = EntriesOf(k)
      BY <1>1, <2>3, <2>4, <3>1
    <3> QED
      BY <2>1, <2>6, <3>2
  <2> QED
    BY <2>5, <2>6
<1> DEFINE TextIn(S) == IF S = {} THEN <<>> ELSE doc[CHOOSE j \in S : TRUE].texts
           NextTextIn(S) == IF S = {} THEN <<>> ELSE doc'[CHOOSE j \in S : TRUE].texts
<1>5. ConditionMeant(k) = TextIn(Conditions(k))
  BY DEF ConditionMeant
<1>6. ConditionMeant(k)' = NextTextIn(Conditions(k)')
  BY DEF ConditionMeant
<1>7. CASE doc[p].parent = k /\ doc[p].start.tag = "conditionExpression"
  <2>1. Conditions(k) = {}
    <3> SUFFICES ASSUME NEW j \in Conditions(k)
                 PROVE  FALSE
      OBVIOUS
    <3>1. j \in 1..Len(doc) /\ doc[j].parent = k /\ doc[j].closed
          /\ doc[j].start.tag = "conditionExpression"
      BY <1>1 DEF Conditions
    <3>2. j = p
      BY <1>2, <1>7, <3>1, Singles DEF Single
    <3> QED
      BY <1>2, <3>1, <3>2
  <2>2. Conditions(k)' = {p}
    <3>1. p \in Conditions(k)'
      BY <1>1, <1>2, <1>7 DEF Conditions
    <3>2. \A j \in Conditions(k)' : j = p
      <4> SUFFICES ASSUME NEW j \in Conditions(k)', j # p
                   PROVE  FALSE
        OBVIOUS
      <4>1. j \in Conditions(k)
        BY <1>1 DEF Conditions
      <4> QED
        BY <2>1, <4>1
    <3> QED
      BY <3>1, <3>2
  <2>3. (CHOOSE j \in {p} : TRUE) = p
    OBVIOUS
  <2>4. NextTextIn({p}) = doc[p].texts
    BY <1>1, <1>2, <2>3
  <2> HIDE DEF NextTextIn
  <2>5. ConditionMeant(k)' = doc[p].texts
    BY <1>6, <2>2, <2>4
  <2>6. ConditionMeant(k) = <<>>
    BY <2>1 DEF ConditionMeant
  <2> QED
    BY <1>3, <1>4, <1>7, <2>5, <2>6 DEF p
<1>8. CASE ~(doc[p].parent = k /\ doc[p].start.tag = "conditionExpression")
  <2>1. PICK cs : cs = Conditions(k)
    OBVIOUS
  <2>2. Conditions(k)' = cs
    BY <1>1, <1>8, <2>1 DEF Conditions
  <2>3. cs # {} => (CHOOSE j \in cs : TRUE) \in 1..Len(doc)
    BY <1>1, <2>1 DEF Conditions
  <2>4. NextTextIn(cs) = TextIn(cs)
    BY <1>1, <2>3
  <2> HIDE DEF TextIn, NextTextIn
  <2>5. ConditionMeant(k)' = ConditionMeant(k)
    BY <1>5, <1>6, <2>1, <2>2, <2>4
  <2> QED
    BY <1>3, <1>4, <1>8, <2>5 DEF p
<1> QED
  BY <1>7, <1>8

(* What the end of an element leaves of the items below it: the item that  *)
(* ends hands its text or its entries down.                                *)
LEMMA EndOnStack ==
  ASSUME ParserTypeOK, DocOK, StackOK, End
  PROVE  /\ stack' \in Seq(Items) /\ Len(stack') = Len(open)
         /\ \A m \in 1..Len(open) :
              /\ stack'[m].kind = stack[m].kind /\ stack'[m].start = stack[m].start
              /\ stack'[m].type = stack[m].type
              /\ stack'[m].content = IF /\ m = Len(open) /\ stack[m].kind = "sequenceFlow"
                                        /\ Top.kind = "conditionExpression" /\ Top.content # <<>>
                                     THEN Top.content ELSE stack[m].content
              /\ stack'[m].io = IF Top.kind = "ioMapping" /\ stack[m].kind \in Task
                                THEN Top.io ELSE stack[m].io
<1> DEFINE l == Len(open)
           below == SubSeq(stack, 1, Len(stack) - 1)
<1>1. /\ l \in Nat /\ l >= 1 /\ Len(stack) = l + 1 /\ stack \in Seq(Items)
      /\ Top \in Items /\ \A m \in 1..(l + 1) : stack[m].kind \in InProcessKind => m = 4
  <2>1. open # <<>>
    BY EndInDoc
  <2> QED
    BY <2>1, DocFacts, TopItem DEF ParserTypeOK
<1>2. Len(stack) - 1 = l /\ Len(stack) >= 1
  BY <1>1
<1>3. below \in Seq(Items) /\ Len(below) = l /\ \A m \in 1..l : below[m] = stack[m]
  BY <1>1, <1>2, Popped
<1>4. \A m \in 1..l : below[m].kind \in InProcessKind => m = 4
  BY <1>1, <1>3
<1>5. stack' = CASE Top.kind = "conditionExpression" -> WithCondition(below, Top.content)
                 [] Top.kind = "ioMapping" -> WithMapping(below, Top.io)
                 [] OTHER -> below
  BY DEF End, Finish
<1>6. Top.content \in Seq(Text) /\ Top.io \in Seq(Mapping)
  BY <1>1, ItemFields
<1> HIDE DEF l, below
<1>7. CASE Top.kind = "conditionExpression"
  <2>1. stack' = WithCondition(below, Top.content)
    BY <1>5, <1>7
  <2>2. /\ stack' \in Seq(Items) /\ Len(stack') = Len(below)
        /\ \A m \in 1..Len(below) :
             /\ stack'[m].kind = below[m].kind /\ stack'[m].start = below[m].start
             /\ stack'[m].io = below[m].io /\ stack'[m].type = below[m].type
             /\ stack'[m].content = IF /\ m = Len(below) /\ below[m].kind = "sequenceFlow"
                                       /\ Top.content # <<>>
                                    THEN Top.content ELSE below[m].content
    <3>1. Len(below) >= 1
      BY <1>1, <1>3
    <3> QED
      BY <1>3, <1>6, <2>1, <3>1, ConditionWritten
  <2> QED
    BY <1>3, <1>7, <2>2 DEF l
<1>8. CASE Top.kind = "ioMapping"
  <2>1. stack' = WithMapping(below, Top.io)
    BY <1>5, <1>8
  <2> QED
    BY <1>3, <1>4, <1>6, <1>8, <2>1, MappingWritten DEF l
<1>9. CASE Top.kind \notin {"conditionExpression", "ioMapping"}
  <2>1. stack' = below
    BY <1>5, <1>9
  <2> QED
    BY <1>3, <1>9, <2>1 DEF l
<1> QED
  BY <1>7, <1>8, <1>9

(* The position before the one at hand.                                    *)
LEMMA Before ==
  ASSUME NEW l \in Nat, NEW n \in 1..l, n # 1
  PROVE  n - 1 \in 1..l /\ n - 1 + 1 = n
OBVIOUS

(* What is below the innermost element when it ends.                       *)
LEMMA EndPath ==
  ASSUME ParserTypeOK, DocOK, StackOK, End
  PROVE  /\ Len(open) \in Nat /\ Len(open) \in 1..Len(open) /\ Parent = open[Len(open)]
         /\ Parent \in 1..Len(doc) /\ Top = stack[Len(open) + 1] /\ Len(stack) = Len(open) + 1
         /\ Top.kind = KindOn(stack[Len(open)].kind, Parent) /\ ItemOK(Top, Parent)
<1>1. open # <<>>
  BY EndInDoc
<1>2. Len(open) \in Nat /\ Len(open) \in 1..Len(open) /\ Parent = open[Len(open)]
      /\ Parent \in 1..Len(doc) /\ Len(open) \in DOMAIN open
  BY <1>1, DocFacts, InnermostOpen
<1>3. Top = stack[Len(open) + 1] /\ Len(stack) = Len(open) + 1
  BY <1>1, TopItem
<1> QED
  BY <1>2, <1>3 DEF StackOK

(* The mapping that ends is that of the open task.                         *)
LEMMA MappingOfTask ==
  ASSUME ParserTypeOK, DocOK, StackOK, End,
         NEW n \in 1..Len(open), stack[n + 1].kind \in Task
  PROVE  Top.kind = "ioMapping" <=> Parent \in Extensions(open[n], "ioMapping")
<1> DEFINE l == Len(open)
           i == l - 1
<1>1. l \in Nat /\ l \in 1..l /\ Parent = open[l] /\ Parent \in 1..Len(doc) /\ Top = stack[l + 1]
  BY EndPath
<1>2. stack[n + 1].kind \in InProcessKind
  BY DEF Task, InProcessKind, FlowNode
<1>3. doc[Parent].parent = IF l = 1 THEN 0 ELSE open[i]
  BY <1>1, OpenPath
<1>4. l # 1 => i \in 1..l /\ i + 1 = l
  BY <1>1, Before
<1>5. \A m \in 1..l : open[m] \in 1..Len(doc) /\ open[m] # 0
  BY DocFacts
<1> HIDE DEF i
<1>6. ASSUME Top.kind = "ioMapping"
      PROVE  Parent \in Extensions(open[n], "ioMapping")
  <2>1. doc[Parent].start.tag = "ioMapping" /\ stack[l].kind = "extensionElements"
    BY <1>1, <1>6, Kinds, Depths DEF ContainerKind
  <2>2. l # 1
    BY <1>1, <2>1, TagDepth
  <2>3. doc[open[i]].start.tag = "extensionElements" /\ stack[i + 1].kind # "skip"
    BY <1>4, <2>1, <2>2, Kinds DEF ContainerKind
  <2>4. doc[open[i]].parent = open[n]
    BY <1>2, <1>4, <2>2, <2>3, ExtensionPath
  <2> QED
    BY <1>1, <1>3, <1>4, <1>5, <2>1, <2>2, <2>3, <2>4, DocFacts DEF Extensions
<1>7. ASSUME Parent \in Extensions(open[n], "ioMapping")
      PROVE  Top.kind = "ioMapping"
  <2>1. /\ doc[Parent].start.tag = "ioMapping" /\ doc[Parent].parent # 0
        /\ doc[doc[Parent].parent].start.tag = "extensionElements"
        /\ doc[doc[Parent].parent].parent = open[n]
    BY <1>7 DEF Extensions
  <2>2. l # 1 /\ doc[open[i]].start.tag = "extensionElements" /\ doc[open[i]].parent = open[n]
    BY <1>3, <2>1
  <2>3. stack[i + 1].kind # "skip"
    BY <1>2, <1>4, <2>2, ExtensionPath
  <2>4. stack[l].kind # "skip"
    BY <1>4, <2>2, <2>3
  <2> QED
    BY <1>1, <2>1, <2>4, Kinds DEF ContainerKind
<1> QED
  BY <1>6, <1>7

(* The condition that ends is that of the open flow.                       *)
LEMMA ConditionOfFlow ==
  ASSUME ParserTypeOK, DocOK, StackOK, End,
         NEW n \in 1..Len(open), stack[n + 1].kind = "sequenceFlow"
  PROVE  /\ Top.kind = "conditionExpression" <=>
              doc[Parent].parent = open[n] /\ doc[Parent].start.tag = "conditionExpression"
         /\ Top.kind = "conditionExpression" => Len(open) = n + 1
<1> DEFINE l == Len(open)
<1>1. l \in Nat /\ l \in 1..l /\ Parent = open[l] /\ Top = stack[l + 1]
  BY EndPath
<1>2. doc[Parent].parent = open[n] <=> l = n + 1
  BY <1>1, ChildPath
<1>3. n = 3 /\ stack[n + 1].kind # "skip"
  BY Depths DEF InProcessKind
<1>4. ASSUME Top.kind = "conditionExpression"
      PROVE  doc[Parent].start.tag = "conditionExpression" /\ l = n + 1
  <2>1. doc[Parent].start.tag = "conditionExpression" /\ stack[l].kind = "sequenceFlow"
    BY <1>1, <1>4, Kinds, Depths DEF ContainerKind
  <2>2. l # 1
    BY <1>1, <2>1, TagDepth
  <2> DEFINE i == l - 1
  <2>3. i \in 1..l /\ i + 1 = l
    BY <1>1, <2>2, Before
  <2> HIDE DEF i
  <2>4. i = 3
    BY <2>1, <2>3, Depths DEF InProcessKind
  <2> QED
    BY <1>3, <2>1, <2>3, <2>4
<1>5. ASSUME doc[Parent].start.tag = "conditionExpression", l = n + 1
      PROVE  Top.kind = "conditionExpression"
  BY <1>1, <1>3, <1>5, Kinds DEF ContainerKind
<1> QED
  BY <1>2, <1>4, <1>5

(* After an end tag each element still open has the item that says what    *)
(* has been read of it.                                                    *)
LEMMA EndKeepsItem ==
  ASSUME ParserTypeOK, DocOK, StackOK, End,
         NEW n \in 1..(Len(open) - 1), NEW k, k = open[n], NEW i, i = stack'[n + 1],
         NEW below, below = stack[n].kind
  PROVE  i.kind = KindOn(below, k)' /\ ItemOK(i, k)'
<1> DEFINE l == Len(open)
           p == Parent
<1>1. /\ l \in Nat /\ l \in 1..l /\ p = open[l] /\ p \in 1..Len(doc) /\ Top = stack[l + 1]
      /\ ItemOK(Top, p)
  BY EndPath
<1>2. n \in 1..l /\ n + 1 \in 1..l /\ n # l
  BY <1>1
<1>3. k \in 1..Len(doc) /\ DOMAIN doc = 1..Len(doc) /\ n \in DOMAIN open
  BY <1>2, OpenPath, DocFacts
<1>4. PICK j : j = stack[n + 1]
  OBVIOUS
<1>5. j.kind = KindOn(below, k) /\ ItemOK(j, k)
  BY <1>3, <1>4 DEF StackOK
<1>6. /\ i.kind = j.kind /\ i.start = j.start /\ i.type = j.type
      /\ i.content = IF /\ n + 1 = l /\ j.kind = "sequenceFlow"
                        /\ Top.kind = "conditionExpression" /\ Top.content # <<>>
                     THEN Top.content ELSE j.content
      /\ i.io = IF Top.kind = "ioMapping" /\ j.kind \in Task THEN Top.io ELSE j.io
  BY <1>2, <1>4, EndOnStack
<1>7. doc'[k].start = doc[k].start /\ doc'[k].texts = doc[k].texts
  BY <1>3, EndInDoc
<1>8. /\ Captured(k)' <=> Captured(k)
      /\ TypeMeant(k)' = TypeMeant(k)
      /\ {m \in DOMAIN doc : doc[m].parent = k}' = {m \in DOMAIN doc : doc[m].parent = k}
      /\ EntriesOf(k)' = IF p \in Extensions(k, "ioMapping")
                         THEN {m \in DOMAIN doc : doc[m].parent = p} ELSE EntriesOf(k)
      /\ IF doc[p].parent = k /\ doc[p].start.tag = "conditionExpression"
         THEN ConditionMeant(k)' = doc[p].texts /\ ConditionMeant(k) = <<>>
         ELSE ConditionMeant(k)' = ConditionMeant(k)
  BY <1>3, EndMeans
<1>9. i.kind = KindOn(below, k)'
  BY <1>5, <1>6, <1>7, <1>8 DEF KindOn
<1>10. /\ i.kind # "skip" => i.start = doc'[k].start
       /\ i.kind = "conditionExpression" => i.content = doc'[k].texts
  BY <1>5, <1>6, <1>7 DEF ItemOK
<1>11. i.type = IF i.kind = "serviceTask" THEN TypeMeant(k)' ELSE NoId
  BY <1>5, <1>6, <1>8 DEF ItemOK
<1>12. ASSUME i.kind = "sequenceFlow"
       PROVE  i.content = ConditionMeant(k)'
  <2>1. j.content = ConditionMeant(k)
    BY <1>5, <1>6, <1>12 DEF ItemOK
  <2>2. /\ Top.kind = "conditionExpression" <=>
             doc[p].parent = k /\ doc[p].start.tag = "conditionExpression"
        /\ Top.kind = "conditionExpression" => l = n + 1
    BY <1>2, <1>4, <1>6, <1>12, ConditionOfFlow
  <2>3. Top.kind = "conditionExpression" => Top.content = doc[p].texts
    BY <1>1 DEF ItemOK
  <2> QED
    BY <1>6, <1>8, <1>12, <2>1, <2>2, <2>3
<1>13. Lists(i.io, EntriesSoFar(i, k))'
  <2>1. PICK S : S = IF Top.kind = "ioMapping" /\ j.kind \in Task
                     THEN EntriesSoFar(Top, p) ELSE EntriesSoFar(j, k)
    OBVIOUS
  <2>2. Lists(i.io, S)
    BY <1>1, <1>5, <1>6, <2>1 DEF ItemOK
  <2>3. S \subseteq 1..Len(doc)
    BY <1>3, <2>1 DEF EntriesSoFar, EntriesOf
  <2>4. \A m \in S : EntryMeant(m)' = EntryMeant(m)
    BY <2>3, EndMeans
  <2>5. Lists(i.io, S)'
    BY <2>2, <2>4, ListsStay
  <2>6. EntriesSoFar(i, k)' = S
    <3>1. CASE j.kind \in Task
      <4>1. Top.kind = "ioMapping" <=> p \in Extensions(k, "ioMapping")
        BY <1>2, <1>4, <3>1, MappingOfTask
      <4>2. EntriesSoFar(i, k)' = EntriesOf(k)'
        BY <1>6, <3>1 DEF EntriesSoFar, Task
      <4>3. Top.kind = "ioMapping" => EntriesSoFar(Top, p) = {m \in DOMAIN doc : doc[m].parent = p}
        BY DEF EntriesSoFar, Task
      <4>4. EntriesSoFar(j, k) = EntriesOf(k)
        BY <3>1 DEF EntriesSoFar, Task
      <4> QED
        BY <1>8, <2>1, <3>1, <4>1, <4>2, <4>3, <4>4
    <3>2. CASE j.kind \notin Task
      BY <1>6, <1>8, <2>1, <3>2 DEF EntriesSoFar
    <3> QED
      BY <3>1, <3>2
  <2> QED
    BY <2>5, <2>6
<1> QED
  BY <1>9, <1>10, <1>11, <1>12, <1>13 DEF ItemOK

(* An end tag keeps the stack true to the document.                        *)
LEMMA EndKeepsStack ==
  ASSUME ParserTypeOK, DocOK, StackOK, ProcessIsCaptured, End
  PROVE  ParserTypeOK' /\ StackOK' /\ ProcessIsCaptured'
<1> DEFINE l == Len(open)
<1>1. /\ l \in Nat /\ l >= 1 /\ Len(stack) = l + 1 /\ DOMAIN doc = 1..Len(doc) /\ Len(doc) \in Nat
      /\ Parent \in 1..Len(doc) /\ open # <<>> /\ stack[1].kind = "root"
  <2>1. open # <<>>
    BY EndInDoc
  <2> QED
    BY <2>1, EndPath, DocFacts DEF StackOK
<1>2. /\ doc' \in Seq([start : Tagged, closed : BOOLEAN, texts : Seq(Text), parent : Nat])
      /\ Len(doc') = Len(doc) /\ DOMAIN doc' = 1..Len(doc)
      /\ \A k \in 1..Len(doc) : doc'[k].start = doc[k].start
      /\ open' \in Seq(DOMAIN doc')
      /\ Len(open') = l - 1 /\ DOMAIN open' = 1..(l - 1)
      /\ \A n \in 1..(l - 1) : open'[n] = open[n]
  BY EndInDoc
<1>3. /\ stack' \in Seq(Items) /\ Len(stack') = l
      /\ \A m \in 1..l : stack'[m].kind = stack[m].kind
  BY EndOnStack
<1>4. process' = process /\ result' = result
  BY DEF End
<1>5. stack' # <<>> /\ doc' # <<>>
  <2>1. Len(stack') # 0 /\ Len(doc') # 0
    BY <1>1, <1>2, <1>3
  <2>2. Len(<<>>) = 0
    OBVIOUS
  <2> QED
    BY <2>1, <2>2
<1>6. ParserTypeOK'
  BY <1>2, <1>3, <1>4, <1>5 DEF ParserTypeOK
<1>7. ASSUME NEW n \in 1..(l - 1)
      PROVE  stack'[n + 1].kind = KindOn(stack[n].kind, open[n])' /\ ItemOK(stack[n + 1], open[n])'
  <2>1. PICK i : i = stack'[n + 1]
    OBVIOUS
  <2>2. PICK k : k = open[n]
    OBVIOUS
  <2>3. PICK below : below = stack[n].kind
    OBVIOUS
  <2>4. stack'[n].kind = below /\ open'[n] = k
    <3>1. n \in 1..l
      BY <1>1
    <3> QED
      BY <1>2, <1>3, <2>2, <2>3, <3>1
  <2>5. i.kind = KindOn(below, k)' /\ ItemOK(i, k)'
    BY <2>1, <2>2, <2>3, EndKeepsItem
  <2> QED
    BY <2>1, <2>4, <2>5
<1>8. StackOK'
  <2>1. Len(stack') = Len(open') + 1 /\ stack'[1].kind = "root"
    BY <1>1, <1>2, <1>3
  <2> QED
    BY <1>2, <1>5, <1>7, <2>1 DEF StackOK
<1>9. ProcessIsCaptured'
  <2>1. \A k \in 1..Len(doc) : Captured(k)' <=> Captured(k)
    BY EndMeans
  <2> QED
    BY <1>1, <1>2, <1>4, <2>1 DEF ProcessIsCaptured
<1> QED
  BY <1>6, <1>8, <1>9
-----------------------------------------------------------------------------
(* Nodes and flows.                                                        *)

(* The nodes and flows of the document are finitely many positions.        *)
LEMMA OfDoc ==
  ASSUME ParserTypeOK
  PROVE  /\ NodesOfDoc \subseteq 1..Len(doc) /\ FlowsOfDoc \subseteq 1..Len(doc)
         /\ IsFiniteSet(NodesOfDoc) /\ NodesOfDoc \subseteq Nat
         /\ IsFiniteSet(FlowsOfDoc) /\ FlowsOfDoc \subseteq Nat
<1>1. DOMAIN doc = 1..Len(doc)
  BY DocFacts
<1>2. NodesOfDoc \subseteq DOMAIN doc /\ FlowsOfDoc \subseteq DOMAIN doc
  BY DEF NodesOfDoc, FlowsOfDoc
<1>3. /\ IsFiniteSet(NodesOfDoc) /\ NodesOfDoc \subseteq Nat
      /\ IsFiniteSet(FlowsOfDoc) /\ FlowsOfDoc \subseteq Nat
  BY <1>2, PositionsFinite
<1> QED
  BY <1>1, <1>2, <1>3

(* The nodes go on matching the document when it still means of them what  *)
(* it meant, and a node is appended for every further, last position.      *)
LEMMA NodesGrow ==
  ASSUME ParserTypeOK, ParsedTypeOK, NodesMatch,
         NEW S, S = NodesOfDoc, NEW x \in Nat, \A k \in S : k < x,
         \A k \in S, n \in ParsedNode : SaysNode(n, k) => SaysNode(n, k)',
         NEW more \in BOOLEAN, NEW new, more => new \in ParsedNode /\ SaysNode(new, x)',
         NodesOfDoc' = IF more THEN S \cup {x} ELSE S,
         nodes' = IF more THEN Append(nodes, new) ELSE nodes
  PROVE  NodesMatch' /\ nodes' \in Seq(ParsedNode)
<1>1. IsFiniteSet(S) /\ S \subseteq Nat
  BY OfDoc
<1>2. /\ Cardinality(S) \in Nat
      /\ Cardinality(S \cup {x}) = Cardinality(S) + 1
      /\ Place(x, S \cup {x}) = Cardinality(S) + 1
      /\ \A k \in S : /\ Place(k, S \cup {x}) = Place(k, S)
                      /\ Place(k, S) \in 1..Cardinality(S)
  BY <1>1, Places
<1>3. /\ Len(nodes) = Cardinality(S) /\ nodes \in Seq(ParsedNode)
      /\ \A k \in S : SaysNode(nodes[Place(k, S)], k)
  BY DEF NodesMatch, ParsedTypeOK
<1>4. ASSUME NEW k \in S, NEW n, n = nodes[Place(k, S)]
      PROVE  SaysNode(n, k)'
  <2>1. n \in ParsedNode
    BY <1>2, <1>3, <1>4
  <2> QED
    BY <1>3, <1>4, <2>1
<1>5. CASE more
  <2>1. Append(nodes, new) \in Seq(ParsedNode) /\ Len(Append(nodes, new)) = Len(nodes) + 1
        /\ Append(nodes, new)[Len(nodes) + 1] = new
        /\ \A m \in 1..Len(nodes) : Append(nodes, new)[m] = nodes[m]
    BY <1>3, <1>5
  <2>2. /\ nodes' \in Seq(ParsedNode) /\ Len(nodes') = Len(nodes) + 1
        /\ nodes'[Len(nodes) + 1] = new
        /\ \A m \in 1..Len(nodes) : nodes'[m] = nodes[m]
    BY <1>5, <2>1
  <2>3. Len(nodes') = Cardinality(S \cup {x})
    BY <1>2, <1>3, <2>2
  <2>4. ASSUME NEW k \in S \cup {x}, NEW n, n = nodes'[Place(k, S \cup {x})]
        PROVE  SaysNode(n, k)'
    <3>1. CASE k \in S
      <4>1. n = nodes[Place(k, S)]
        BY <1>2, <1>3, <2>2, <2>4, <3>1
      <4> QED
        BY <1>4, <3>1, <4>1
    <3>2. CASE k = x
      <4>1. n = new
        BY <1>2, <1>3, <2>2, <2>4, <3>2
      <4> QED
        BY <1>5, <3>2, <4>1
    <3> QED
      BY <3>1, <3>2
  <2>5. ASSUME NEW k \in S \cup {x}
        PROVE  SaysNode(nodes[Place(k, S \cup {x})], k)'
    <3>1. PICK n : n = nodes'[Place(k, S \cup {x})]
      OBVIOUS
    <3>2. SaysNode(n, k)'
      BY <2>4, <3>1
    <3>3. PICK m : m = Place(k, S \cup {x})
      OBVIOUS
    <3> QED
      BY <3>1, <3>2, <3>3 DEF Place
  <2>6. NodesOfDoc' = S \cup {x}
    BY <1>5
  <2> QED
    BY <2>2, <2>3, <2>5, <2>6 DEF NodesMatch, Place
<1>6. CASE ~more
  <2>1. NodesOfDoc' = S /\ nodes' = nodes
    BY <1>6
  <2>2. ASSUME NEW k \in S
        PROVE  SaysNode(nodes[Place(k, S)], k)'
    <3>1. PICK n : n = nodes[Place(k, S)]
      OBVIOUS
    <3>2. SaysNode(n, k)'
      BY <1>4, <3>1
    <3> QED
      BY <2>1, <3>1, <3>2 DEF Place
  <2> QED
    BY <1>3, <2>1, <2>2 DEF NodesMatch, Place
<1> QED
  BY <1>5, <1>6

(* The same for the flows.                                                 *)
LEMMA FlowsGrow ==
  ASSUME ParserTypeOK, ParsedTypeOK, FlowsMatch,
         NEW S, S = FlowsOfDoc, NEW x \in Nat, \A k \in S : k < x,
         \A k \in S, f \in ParsedFlow : SaysFlow(f, k) => SaysFlow(f, k)',
         NEW more \in BOOLEAN, NEW new, more => new \in ParsedFlow /\ SaysFlow(new, x)',
         FlowsOfDoc' = IF more THEN S \cup {x} ELSE S,
         flows' = IF more THEN Append(flows, new) ELSE flows
  PROVE  FlowsMatch' /\ flows' \in Seq(ParsedFlow)
<1>1. IsFiniteSet(S) /\ S \subseteq Nat
  BY OfDoc
<1>2. /\ Cardinality(S) \in Nat
      /\ Cardinality(S \cup {x}) = Cardinality(S) + 1
      /\ Place(x, S \cup {x}) = Cardinality(S) + 1
      /\ \A k \in S : /\ Place(k, S \cup {x}) = Place(k, S)
                      /\ Place(k, S) \in 1..Cardinality(S)
  BY <1>1, Places
<1>3. /\ Len(flows) = Cardinality(S) /\ flows \in Seq(ParsedFlow)
      /\ \A k \in S : SaysFlow(flows[Place(k, S)], k)
  BY DEF FlowsMatch, ParsedTypeOK
<1>4. ASSUME NEW k \in S, NEW f, f = flows[Place(k, S)]
      PROVE  SaysFlow(f, k)'
  <2>1. f \in ParsedFlow
    BY <1>2, <1>3, <1>4
  <2> QED
    BY <1>3, <1>4, <2>1
<1>5. CASE more
  <2>1. Append(flows, new) \in Seq(ParsedFlow) /\ Len(Append(flows, new)) = Len(flows) + 1
        /\ Append(flows, new)[Len(flows) + 1] = new
        /\ \A m \in 1..Len(flows) : Append(flows, new)[m] = flows[m]
    BY <1>3, <1>5
  <2>2. /\ flows' \in Seq(ParsedFlow) /\ Len(flows') = Len(flows) + 1
        /\ flows'[Len(flows) + 1] = new
        /\ \A m \in 1..Len(flows) : flows'[m] = flows[m]
    BY <1>5, <2>1
  <2>3. Len(flows') = Cardinality(S \cup {x})
    BY <1>2, <1>3, <2>2
  <2>4. ASSUME NEW k \in S \cup {x}, NEW f, f = flows'[Place(k, S \cup {x})]
        PROVE  SaysFlow(f, k)'
    <3>1. CASE k \in S
      <4>1. f = flows[Place(k, S)]
        BY <1>2, <1>3, <2>2, <2>4, <3>1
      <4> QED
        BY <1>4, <3>1, <4>1
    <3>2. CASE k = x
      <4>1. f = new
        BY <1>2, <1>3, <2>2, <2>4, <3>2
      <4> QED
        BY <1>5, <3>2, <4>1
    <3> QED
      BY <3>1, <3>2
  <2>5. ASSUME NEW k \in S \cup {x}
        PROVE  SaysFlow(flows[Place(k, S \cup {x})], k)'
    <3>1. PICK f : f = flows'[Place(k, S \cup {x})]
      OBVIOUS
    <3>2. SaysFlow(f, k)'
      BY <2>4, <3>1
    <3> QED
      BY <3>1, <3>2 DEF Place
  <2>6. FlowsOfDoc' = S \cup {x}
    BY <1>5
  <2> QED
    BY <2>2, <2>3, <2>5, <2>6 DEF FlowsMatch, Place
<1>6. CASE ~more
  <2>1. FlowsOfDoc' = S /\ flows' = flows
    BY <1>6
  <2>2. ASSUME NEW k \in S
        PROVE  SaysFlow(flows[Place(k, S)], k)'
    <3>1. PICK f : f = flows[Place(k, S)]
      OBVIOUS
    <3>2. SaysFlow(f, k)'
      BY <1>4, <3>1
    <3> QED
      BY <2>1, <3>1, <3>2 DEF Place
  <2> QED
    BY <1>3, <2>1, <2>2 DEF FlowsMatch, Place
<1> QED
  BY <1>5, <1>6
-----------------------------------------------------------------------------
(* What is said of closed elements.                                        *)

(* A closed element contains none of the open ones.                        *)
LEMMA Ancestors ==
  ASSUME ParserTypeOK, DocOK, open # <<>>, NEW k \in 1..Len(doc), doc[k].closed
  PROVE  /\ Parent # k /\ doc[Parent].parent # k
         /\ doc[Parent].parent # 0 => doc[doc[Parent].parent].parent # k
<1> DEFINE l == Len(open)
           i == l - 1
           h == i - 1
<1>1. l \in 1..l /\ Parent = open[l] /\ l \in Nat
  BY InnermostOpen, DocFacts
<1>2. \A m \in 1..l : open[m] # k
  BY ClosedOrOpen
<1>3. k # 0 /\ DOMAIN doc = 1..Len(doc)
  BY DocFacts
<1>4. l # 1 => i \in 1..l
  BY <1>1, Before
<1>5. l # 1 /\ i # 1 => h \in 1..l
  BY <1>1, <1>4, Before
<1>6. doc[Parent].parent = IF l = 1 THEN 0 ELSE open[i]
  BY <1>1, OpenPath
<1>7. l # 1 => doc[open[i]].parent = IF i = 1 THEN 0 ELSE open[h]
  BY <1>4, OpenPath
<1> HIDE DEF l, i, h
<1> QED
  BY <1>1, <1>2, <1>3, <1>4, <1>5, <1>6, <1>7

(* What is said of an element stays true while what is meant by it does    *)
(* not change.                                                             *)
LEMMA SaysSame ==
  ASSUME ParserTypeOK, NEW k \in 1..Len(doc), doc'[k].start = doc[k].start,
         TypeMeant(k)' = TypeMeant(k), EntriesOf(k)' = EntriesOf(k),
         ConditionMeant(k)' = ConditionMeant(k),
         \A j \in 1..Len(doc) : EntryMeant(j)' = EntryMeant(j)
  PROVE  /\ \A n : SaysNode(n, k) => SaysNode(n, k)'
         /\ \A f : SaysFlow(f, k) => SaysFlow(f, k)'
<1>1. ASSUME NEW n, SaysNode(n, k)
      PROVE  SaysNode(n, k)'
  <2>1. PICK S : S = IF doc[k].start.tag \in {"serviceTask", "manualTask"} THEN EntriesOf(k) ELSE {}
    OBVIOUS
  <2>2. S \subseteq 1..Len(doc)
    BY <2>1, DocFacts DEF EntriesOf
  <2>3. Lists(n.io, S)
    BY <1>1, <2>1 DEF SaysNode
  <2>4. Lists(n.io, S)'
    BY <2>2, <2>3, ListsStay
  <2>5. S = (IF doc[k].start.tag \in {"serviceTask", "manualTask"} THEN EntriesOf(k) ELSE {})'
    BY <2>1
  <2>6. Lists(n.io, IF doc[k].start.tag \in {"serviceTask", "manualTask"} THEN EntriesOf(k) ELSE {})'
    BY <2>4, <2>5
  <2> QED
    BY <1>1, <2>6 DEF SaysNode
<1>2. ASSUME NEW f, SaysFlow(f, k)
      PROVE  SaysFlow(f, k)'
  BY <1>2 DEF SaysFlow
<1> QED
  BY <1>1, <1>2

(* A finished item says what its element means: as a node,                 *)
LEMMA FinishedNode ==
  ASSUME NEW i \in Items, NEW x, NEW below, i.kind = KindOn(below, x)', ItemOK(i, x)',
         i.kind \in FlowNode \cup {"unsupported"}
  PROVE  NodeOf(i) \in ParsedNode /\ SaysNode(NodeOf(i), x)'
<1>1. /\ i.start \in Tagged /\ i.type \in Attribute /\ i.io \in Seq(Mapping)
  BY ItemFields
<1>2. i.start.id \in Attribute /\ i.start.default \in Attribute /\ NoId \in Attribute
  BY <1>1 DEF Tagged, Attribute
<1>3. NodeOf(i) \in ParsedNode
  <2> DEFINE M == Seq(Mapping)
  <2>1. i.io \in M
    BY <1>1
  <2> HIDE DEF M
  <2>2. NodeOf(i) \in [tag : FlowNode \cup {"unsupported"}, id : Attribute, io : M,
                       type : Attribute, default : Attribute]
    BY <1>1, <1>2, <2>1 DEF NodeOf
  <2> QED
    BY <2>2 DEF ParsedNode, M
<1>4. /\ i.kind \in FlowNode => doc'[x].start.tag = i.kind
      /\ i.kind = "unsupported" => doc'[x].start.tag = "other"
  BY DEF KindOn, FlowNode, ContainerKind
<1>5. /\ i.start = doc'[x].start
      /\ i.type = IF i.kind = "serviceTask" THEN TypeMeant(x)' ELSE NoId
      /\ Lists(i.io, EntriesSoFar(i, x))'
  BY DEF ItemOK, FlowNode
<1>6. (i.kind = "serviceTask" <=> doc'[x].start.tag = "serviceTask")
      /\ (i.kind = "exclusiveGateway" <=> doc'[x].start.tag = "exclusiveGateway")
      /\ (i.kind \in Task <=> doc'[x].start.tag \in {"serviceTask", "manualTask"})
      /\ i.kind = IF doc'[x].start.tag = "other" THEN "unsupported" ELSE doc'[x].start.tag
  BY <1>4 DEF FlowNode, Task
<1>7. EntriesSoFar(i, x)' =
        (IF doc[x].start.tag \in {"serviceTask", "manualTask"} THEN EntriesOf(x) ELSE {})'
  BY <1>6 DEF EntriesSoFar, FlowNode, Task
<1>8. /\ NodeOf(i).tag = i.kind /\ NodeOf(i).id = i.start.id /\ NodeOf(i).io = i.io
      /\ NodeOf(i).type = i.type
      /\ NodeOf(i).default = IF i.kind = "exclusiveGateway" THEN i.start.default ELSE NoId
  BY DEF NodeOf
<1>9. SaysNode(NodeOf(i), x)'
  <2>1. PICK n : n = NodeOf(i)
    OBVIOUS
  <2>2. Lists(n.io, IF doc[x].start.tag \in {"serviceTask", "manualTask"} THEN EntriesOf(x) ELSE {})'
    BY <1>5, <1>7, <1>8, <2>1
  <2>3. /\ n.tag = i.kind /\ n.id = i.start.id /\ n.type = i.type
        /\ n.default = IF i.kind = "exclusiveGateway" THEN i.start.default ELSE NoId
    BY <1>8, <2>1
  <2>4. SaysNode(n, x)'
    BY <1>5, <1>6, <2>2, <2>3 DEF SaysNode
  <2> QED
    BY <2>1, <2>4
<1> QED
  BY <1>3, <1>9

(* ... and as a flow.                                                      *)
LEMMA FinishedFlow ==
  ASSUME NEW i \in Items, NEW x, NEW below, i.kind = KindOn(below, x)', ItemOK(i, x)',
         i.kind = "sequenceFlow", NEW default \in BOOLEAN
  PROVE  /\ FlowWithDefault(i, default) \in ParsedFlow
         /\ SaysFlow(FlowWithDefault(i, default), x)'
<1>1. i.start \in Tagged /\ i.content \in Seq(Text)
  BY ItemFields
<1>2. i.start.id \in Attribute /\ i.start.source \in Attribute /\ i.start.target \in Attribute
  BY <1>1 DEF Tagged
<1>3. FlowWithDefault(i, default) \in ParsedFlow
  <2> DEFINE T == Seq(Text)
  <2>1. i.content \in T
    BY <1>1
  <2> HIDE DEF T
  <2>2. FlowWithDefault(i, default) \in [id : Attribute, source : Attribute, target : Attribute,
                                         condition : T, default : BOOLEAN]
    BY <1>2, <2>1 DEF FlowWithDefault
  <2> QED
    BY <2>2 DEF ParsedFlow, T
<1>4. i.start = doc'[x].start /\ i.content = ConditionMeant(x)'
  BY DEF ItemOK
<1>5. SaysFlow(FlowWithDefault(i, default), x)'
  <2>1. PICK f : f = FlowWithDefault(i, default)
    OBVIOUS
  <2>2. /\ f.id = i.start.id /\ f.source = i.start.source /\ f.target = i.start.target
        /\ f.condition = i.content
    BY <2>1 DEF FlowWithDefault
  <2>3. SaysFlow(f, x)'
    BY <1>4, <2>2 DEF SaysFlow
  <2> QED
    BY <2>1, <2>3
<1> QED
  BY <1>3, <1>5
-----------------------------------------------------------------------------
(* The process.                                                            *)

(* A start tag changes nothing that is meant by a closed element,          *)
LEMMA StartSays ==
  ASSUME ParserTypeOK, DocOK, StackOK, NEW t \in Tagged, NEW e \in BOOLEAN, Start(t, e),
         NEW k \in 1..Len(doc), doc[k].closed
  PROVE  /\ \A n : SaysNode(n, k) => SaysNode(n, k)'
         /\ \A f : SaysFlow(f, k) => SaysFlow(f, k)'
<1>1. open # <<>> /\ DOMAIN doc = 1..Len(doc)
  <2>1. doc # <<>> /\ DOMAIN doc = 1..Len(doc)
    BY DocFacts
  <2> QED
    BY <2>1 DEF Start, Allowed
<1>2. \A j \in 1..Len(doc) : doc'[j] = doc[j] /\ EntryMeant(j)' = EntryMeant(j)
  BY StartInDoc, StartMeans
<1>3. doc[Parent].parent # k
  BY <1>1, Ancestors
<1>4. /\ Extensions(k, "taskDefinition")' = Extensions(k, "taskDefinition")
      /\ EntriesOf(k)' = EntriesOf(k) /\ ConditionMeant(k)' = ConditionMeant(k)
  <2>1. Extensions(k, "taskDefinition")' = Extensions(k, "taskDefinition") \cup
          IF /\ t.tag = "taskDefinition" /\ Parent # 0
             /\ doc[Parent].start.tag = "extensionElements" /\ doc[Parent].parent = k
          THEN {Len(doc) + 1} ELSE {}
    BY StartMeans
  <2>2. Extensions(k, "taskDefinition")' = Extensions(k, "taskDefinition")
    BY <1>3, <2>1
  <2> QED
    BY <2>2, StartMeans
<1>5. TypeMeant(k)' = TypeMeant(k)
  <2>1. PICK ts : ts = Extensions(k, "taskDefinition")
    OBVIOUS
  <2>2. ts # {} => (CHOOSE j \in ts : TRUE) \in 1..Len(doc)
    BY <1>1, <2>1 DEF Extensions
  <2> DEFINE TypeIn(S) == IF S = {} THEN NoId ELSE doc[CHOOSE j \in S : TRUE].start.type
             NextTypeIn(S) == IF S = {} THEN NoId ELSE doc'[CHOOSE j \in S : TRUE].start.type
  <2>3. NextTypeIn(ts) = TypeIn(ts)
    BY <1>2, <2>2
  <2>4. TypeMeant(k) = TypeIn(Extensions(k, "taskDefinition"))
    BY DEF TypeMeant
  <2>5. TypeMeant(k)' = NextTypeIn(Extensions(k, "taskDefinition")')
    BY DEF TypeMeant
  <2> HIDE DEF TypeIn, NextTypeIn
  <2> QED
    BY <1>4, <2>1, <2>3, <2>4, <2>5
<1> QED
  BY <1>2, <1>4, <1>5, SaysSame

(* ... nor does a text,                                                    *)
LEMMA TextSays ==
  ASSUME ParserTypeOK, DocOK, NEW x \in Text, Characters(x), NEW k \in 1..Len(doc)
  PROVE  /\ \A n : SaysNode(n, k) => SaysNode(n, k)'
         /\ \A f : SaysFlow(f, k) => SaysFlow(f, k)'
<1>1. doc'[k].start = doc[k].start
  BY TextInDoc
<1>2. /\ TypeMeant(k)' = TypeMeant(k) /\ EntriesOf(k)' = EntriesOf(k)
      /\ ConditionMeant(k)' = ConditionMeant(k)
      /\ \A j \in 1..Len(doc) : EntryMeant(j)' = EntryMeant(j)
  BY TextMeans
<1> QED
  BY <1>1, <1>2, SaysSame

(* ... nor an end tag.                                                     *)
LEMMA EndSays ==
  ASSUME ParserTypeOK, DocOK, End, NEW k \in 1..Len(doc), doc[k].closed
  PROVE  /\ \A n : SaysNode(n, k) => SaysNode(n, k)'
         /\ \A f : SaysFlow(f, k) => SaysFlow(f, k)'
<1>1. open # <<>> /\ doc'[k].start = doc[k].start
  BY EndInDoc
<1>2. doc[Parent].parent # k /\ Parent \notin Extensions(k, "ioMapping")
  BY <1>1, Ancestors DEF Extensions
<1>3. /\ TypeMeant(k)' = TypeMeant(k) /\ EntriesOf(k)' = EntriesOf(k)
      /\ ConditionMeant(k)' = ConditionMeant(k)
      /\ \A j \in 1..Len(doc) : EntryMeant(j)' = EntryMeant(j)
  BY <1>2, EndMeans
<1> QED
  BY <1>1, <1>3, SaysSame

(* Which elements are closed children of the captured process.             *)
LEMMA StartElements ==
  ASSUME ParserTypeOK, DocOK, StackOK, NEW t \in Tagged, NEW e \in BOOLEAN, Start(t, e),
         NEW x, x = Len(doc) + 1
  PROVE  /\ \A k \in 1..Len(doc) : Element(k)' <=> Element(k)
         /\ Element(x)' <=> e /\ Top.kind = "process"
<1>1. \A k \in 1..Len(doc) : doc'[k] = doc[k] /\ (Captured(k)' <=> Captured(k))
  BY StartInDoc, StartMeans
<1>2. ASSUME NEW k \in 1..Len(doc)
      PROVE  Element(k)' <=> Element(k)
  <2>1. PICK p : p = doc[k].parent
    OBVIOUS
  <2>2. p # 0 => p \in 1..Len(doc)
    BY <2>1, Parents
  <2>3. doc'[k].parent = p /\ doc'[k].closed = doc[k].closed
    BY <1>1, <2>1
  <2>4. p # 0 => (Captured(p)' <=> Captured(p))
    BY <1>1, <2>2
  <2> QED
    BY <2>1, <2>3, <2>4 DEF Element
<1>3. doc'[x].closed = e /\ doc'[x].parent = Parent
  <2>1. doc'[x] = [start |-> t, closed |-> e, texts |-> <<>>, parent |-> Parent]
    BY StartInDoc
  <2> QED
    BY <2>1
<1>4. PICK p : p = Parent
  OBVIOUS
<1>5. p # 0 /\ Captured(p)' <=> Top.kind = "process"
  <2>1. CASE open = <<>>
    <3>1. p = 0 /\ doc = <<>>
      BY <1>4, <2>1, StartInDoc
    <3>2. Top.kind = "root"
      BY <3>1, TopItem
    <3> QED
      BY <3>1, <3>2
  <2>2. CASE open # <<>>
    <3>1. p = open[Len(open)] /\ p \in 1..Len(doc) /\ Len(open) \in 1..Len(open)
      BY <1>4, <2>2, InnermostOpen
    <3>2. Top = stack[Len(open) + 1]
      BY <2>2, TopItem
    <3>3. Top.kind = "process" <=> doc[p].start.tag = "process" /\ Captured(p)
      BY <3>1, <3>2, Depths
    <3>4. Captured(p) => doc[p].start.tag = "process"
      BY DEF Captured, Executable
    <3>5. p # 0
      BY <3>1
    <3> QED
      BY <1>1, <3>1, <3>3, <3>4, <3>5
  <2> QED
    BY <2>1, <2>2
<1>6. Element(x)' <=> e /\ Top.kind = "process"
  BY <1>3, <1>4, <1>5 DEF Element
<1> QED
  BY <1>2, <1>6

(* A text closes nothing.                                                  *)
LEMMA TextElements ==
  ASSUME ParserTypeOK, DocOK, NEW x \in Text, Characters(x), NEW k \in 1..Len(doc)
  PROVE  Element(k)' <=> Element(k)
<1>1. PICK p : p = doc[k].parent
  OBVIOUS
<1>2. p # 0 => p \in 1..Len(doc)
  BY <1>1, Parents
<1>3. doc'[k].parent = p /\ doc'[k].closed = doc[k].closed
  BY <1>1, TextInDoc
<1>4. p # 0 => (Captured(p)' <=> Captured(p))
  BY <1>2, TextMeans
<1> QED
  BY <1>1, <1>3, <1>4 DEF Element

(* An end tag closes one element; it counts if the process is directly     *)
(* below it, and it is the last that counts.                               *)
LEMMA EndElements ==
  ASSUME ParserTypeOK, DocOK, StackOK, End, NEW x, x = Parent
  PROVE  /\ \A k \in 1..Len(doc) : k # x => (Element(k)' <=> Element(k))
         /\ ~Element(x)
         /\ Element(x)' <=> stack[Len(open)].kind = "process"
         /\ Element(x)' => \A k \in 1..Len(doc) : Element(k) => k < x
<1> DEFINE l == Len(open)
           i == l - 1
<1>1. /\ l \in Nat /\ l \in 1..l /\ x = open[l] /\ x \in 1..Len(doc)
      /\ open # <<>> /\ Len(doc) \in Nat
  BY EndPath, EndInDoc, DocFacts
<1>2. \A k \in 1..Len(doc) :
        /\ doc'[k].parent = doc[k].parent /\ (doc'[k].closed <=> doc[k].closed \/ k = x)
        /\ Captured(k)' <=> Captured(k)
  BY EndInDoc, EndMeans
<1>3. ASSUME NEW k \in 1..Len(doc), k # x
      PROVE  Element(k)' <=> Element(k)
  <2>1. PICK p : p = doc[k].parent
    OBVIOUS
  <2>2. p # 0 => p \in 1..Len(doc)
    BY <2>1, Parents
  <2>3. doc'[k].parent = p /\ (doc'[k].closed <=> doc[k].closed)
    BY <1>2, <1>3, <2>1
  <2>4. p # 0 => (Captured(p)' <=> Captured(p))
    BY <1>2, <2>2
  <2> QED
    BY <2>1, <2>3, <2>4 DEF Element
<1>4. ~Element(x)
  BY <1>1, ClosedOrOpen DEF Element
<1>5. PICK p : p = doc[x].parent
  OBVIOUS
<1>6. p = IF l = 1 THEN 0 ELSE open[i]
  BY <1>1, <1>5, OpenPath
<1>7. l # 1 => i \in 1..l /\ i + 1 = l
  BY <1>1, Before
<1> HIDE DEF i
<1>8. p # 0 /\ Captured(p) <=> stack[l].kind = "process"
  <2>1. CASE l = 1
    <3>1. stack[1].kind = "root"
      BY <1>1 DEF StackOK
    <3> QED
      BY <1>6, <2>1, <3>1
  <2>2. CASE l # 1
    <3>1. stack[l].kind = "process" <=> doc[p].start.tag = "process" /\ Captured(p)
      BY <1>6, <1>7, <2>2, Depths
    <3>2. Captured(p) => doc[p].start.tag = "process"
      BY DEF Captured, Executable
    <3>3. p # 0
      BY <1>6, <1>7, <2>2, DocFacts
    <3> QED
      BY <3>1, <3>2, <3>3
  <2> QED
    BY <2>1, <2>2
<1>9. p # 0 => p \in 1..Len(doc) /\ p < x
  BY <1>1, <1>5, Parents
<1>10. Element(x)' <=> stack[l].kind = "process"
  <2>1. doc'[x].parent = p /\ doc'[x].closed
    BY <1>1, <1>2, <1>5
  <2>2. p # 0 => (Captured(p)' <=> Captured(p))
    BY <1>2, <1>9
  <2> QED
    BY <1>8, <2>1, <2>2 DEF Element
<1>11. ASSUME Element(x)', NEW k \in 1..Len(doc), Element(k)
       PROVE  k < x
  <2>1. doc[k].parent # 0 /\ Captured(doc[k].parent) /\ doc[k].parent \in 1..Len(doc)
    BY <1>11, Parents DEF Element
  <2>2. doc[k].parent = p
    BY <1>8, <1>9, <1>10, <1>11, <2>1, OneCaptured
  <2>3. k > x => doc[k].parent >= x
    BY <1>1, OpenPath
  <2>4. k # x
    BY <1>4, <1>11
  <2>5. p \in Nat /\ p < x /\ x \in Nat /\ k \in Nat
    BY <1>1, <1>8, <1>9, <1>10, <1>11
  <2> QED
    BY <2>2, <2>3, <2>4, <2>5
<1> QED
  BY <1>3, <1>4, <1>10, <1>11

(* A set that differs from another in one element at most.                 *)
LEMMA OneMore ==
  ASSUME NEW N, NEW x, x \notin N, NEW M, \A k : k # x => (k \in M <=> k \in N),
         NEW more \in BOOLEAN, x \in M <=> more
  PROVE  M = IF more THEN N \cup {x} ELSE N
OBVIOUS

(* A start tag appends what an empty element means, or nothing.            *)
LEMMA StartKeepsProcess ==
  ASSUME ParserTypeOK, ParsedTypeOK, DocOK, StackOK, ProcessIsCaptured, NodesMatch, FlowsMatch,
         NEW t \in Tagged, NEW e \in BOOLEAN, Start(t, e)
  PROVE  ParsedTypeOK' /\ NodesMatch' /\ FlowsMatch'
<1>1. PICK x : x = Len(doc) + 1
  OBVIOUS
<1>2. PICK i : i = NewItem(t)
  OBVIOUS
<1>3. PICK below : below = Top.kind
  OBVIOUS
<1>4. PICK N : N = NodesOfDoc
  OBVIOUS
<1>5. PICK F : F = FlowsOfDoc
  OBVIOUS
<1>6. i \in Items /\ i.kind = NewKind(t) /\ i.kind = KindOn(below, x)' /\ ItemOK(i, x)'
  <2>1. i \in Items
    BY <1>2, StartStack
  <2>2. i.kind = NewKind(t)
    BY <1>2 DEF NewItem, Item, Skip
  <2> QED
    BY <1>1, <1>2, <1>3, <2>1, <2>2, NewItemOK
<1>7. /\ DOMAIN doc = 1..Len(doc) /\ DOMAIN doc' = (1..Len(doc)) \cup {x}
      /\ x \in Nat /\ \A k \in 1..Len(doc) : k < x
  <2>1. Len(doc) \in Nat /\ DOMAIN doc = 1..Len(doc)
    BY DocFacts
  <2>2. DOMAIN doc' = 1..x
    BY <1>1, StartInDoc
  <2>3. 1..x = (1..Len(doc)) \cup {x} /\ x \in Nat /\ \A k \in 1..Len(doc) : k < x
    BY <1>1, <2>1
  <2> QED
    BY <2>1, <2>2, <2>3
<1>8. /\ \A k \in 1..Len(doc) : doc'[k] = doc[k] /\ (Element(k)' <=> Element(k))
      /\ Element(x)' <=> e /\ Top.kind = "process"
  BY <1>1, StartElements, StartInDoc
<1>9. doc'[x].start = t
  <2>1. doc'[x] = [start |-> t, closed |-> e, texts |-> <<>>, parent |-> Parent]
    BY <1>1, StartInDoc
  <2> QED
    BY <2>1
<1>10. /\ N \subseteq 1..Len(doc) /\ F \subseteq 1..Len(doc)
       /\ \A k \in N \cup F : k < x /\ doc[k].closed
       /\ x \notin 1..Len(doc)
  <2>1. N \subseteq 1..Len(doc) /\ F \subseteq 1..Len(doc)
    BY <1>4, <1>5, OfDoc
  <2>2. \A k \in N \cup F : doc[k].closed
    BY <1>4, <1>5 DEF NodesOfDoc, FlowsOfDoc, Element
  <2> QED
    BY <1>1, <1>7, <2>1, <2>2
<1>11. \A k \in 1..Len(doc) : doc[k].closed =>
         /\ \A n : SaysNode(n, k) => SaysNode(n, k)'
         /\ \A f : SaysFlow(f, k) => SaysFlow(f, k)'
  BY StartSays
<1>12. /\ nodes' = IF e /\ NewKind(t) \in FlowNode \cup {"unsupported"}
                   THEN Append(nodes, NodeOf(NewItem(t))) ELSE nodes
       /\ flows' = IF e /\ NewKind(t) = "sequenceFlow"
                   THEN Append(flows, FlowOf(NewItem(t))) ELSE flows
  BY StartReads DEF Start
<1>13. /\ NewKind(t) \in FlowNode \cup {"unsupported"} <=>
            Top.kind = "process" /\ t.tag \in FlowNode \cup {"other"}
       /\ NewKind(t) = "sequenceFlow" <=> Top.kind = "process" /\ t.tag = "sequenceFlow"
  BY DEF NewKind, ContainerKind, FlowNode
<1>14. NodesMatch' /\ nodes' \in Seq(ParsedNode)
  <2>1. PICK more \in BOOLEAN : more <=> e /\ NewKind(t) \in FlowNode \cup {"unsupported"}
    OBVIOUS
  <2>2. PICK new : new = NodeOf(i)
    OBVIOUS
  <2>3. more => new \in ParsedNode /\ SaysNode(new, x)'
    <3>1. ASSUME more
          PROVE  NodeOf(i) \in ParsedNode /\ SaysNode(NodeOf(i), x)'
      BY <1>6, <2>1, <3>1, FinishedNode
    <3> QED
      BY <2>2, <3>1
  <2>4. NodesOfDoc' = IF more THEN N \cup {x} ELSE N
    <3>1. \A k \in 1..Len(doc) : k \in NodesOfDoc' <=> k \in N
      BY <1>4, <1>7, <1>8 DEF NodesOfDoc
    <3>2. x \in NodesOfDoc' <=> more
      BY <1>7, <1>8, <1>9, <1>13, <2>1 DEF NodesOfDoc
    <3>3. NodesOfDoc' \subseteq (1..Len(doc)) \cup {x} /\ x \notin N
      BY <1>7, <1>10 DEF NodesOfDoc
    <3>4. \A k : k # x => (k \in NodesOfDoc' <=> k \in N)
      BY <1>10, <3>1, <3>3
    <3> QED
      BY <1>10, <3>2, <3>3, <3>4, OneMore
  <2>5. nodes' = IF more THEN Append(nodes, new) ELSE nodes
    BY <1>2, <1>12, <2>1, <2>2
  <2>6. \A k \in N, n \in ParsedNode : SaysNode(n, k) => SaysNode(n, k)'
    BY <1>10, <1>11
  <2> QED
    BY <1>4, <1>7, <1>10, <2>3, <2>4, <2>5, <2>6, NodesGrow
<1>15. FlowsMatch' /\ flows' \in Seq(ParsedFlow)
  <2>1. PICK more \in BOOLEAN : more <=> e /\ NewKind(t) = "sequenceFlow"
    OBVIOUS
  <2>2. PICK new : new = FlowOf(i)
    OBVIOUS
  <2>3. more => new \in ParsedFlow /\ SaysFlow(new, x)'
    <3>1. PICK default \in BOOLEAN : FlowOf(i) = FlowWithDefault(i, default)
      BY DEF FlowOf
    <3>2. ASSUME more
          PROVE  /\ FlowWithDefault(i, default) \in ParsedFlow
                 /\ SaysFlow(FlowWithDefault(i, default), x)'
      BY <1>6, <2>1, <3>2, FinishedFlow
    <3>3. new = FlowWithDefault(i, default)
      BY <2>2, <3>1
    <3> QED
      BY <3>2, <3>3
  <2>4. FlowsOfDoc' = IF more THEN F \cup {x} ELSE F
    <3>1. \A k \in 1..Len(doc) : k \in FlowsOfDoc' <=> k \in F
      BY <1>5, <1>7, <1>8 DEF FlowsOfDoc
    <3>2. x \in FlowsOfDoc' <=> more
      BY <1>7, <1>8, <1>9, <1>13, <2>1 DEF FlowsOfDoc
    <3>3. FlowsOfDoc' \subseteq (1..Len(doc)) \cup {x} /\ x \notin F
      BY <1>7, <1>10 DEF FlowsOfDoc
    <3>4. \A k : k # x => (k \in FlowsOfDoc' <=> k \in F)
      BY <1>10, <3>1, <3>3
    <3> QED
      BY <1>10, <3>2, <3>3, <3>4, OneMore
  <2>5. flows' = IF more THEN Append(flows, new) ELSE flows
    BY <1>2, <1>12, <2>1, <2>2
  <2>6. \A k \in F, f \in ParsedFlow : SaysFlow(f, k) => SaysFlow(f, k)'
    BY <1>10, <1>11
  <2> QED
    BY <1>5, <1>7, <1>10, <2>3, <2>4, <2>5, <2>6, FlowsGrow
<1> QED
  BY <1>14, <1>15 DEF ParsedTypeOK

(* A text appends nothing.                                                 *)
LEMMA TextKeepsProcess ==
  ASSUME ParserTypeOK, ParsedTypeOK, DocOK, StackOK, NodesMatch, FlowsMatch,
         NEW text \in Text, Characters(text)
  PROVE  ParsedTypeOK' /\ NodesMatch' /\ FlowsMatch'
<1>1. PICK x : x = Len(doc) + 1
  OBVIOUS
<1>2. PICK N : N = NodesOfDoc
  OBVIOUS
<1>3. PICK F : F = FlowsOfDoc
  OBVIOUS
<1>4. nodes' = nodes /\ flows' = flows
  BY DEF Characters
<1>5. DOMAIN doc = 1..Len(doc) /\ DOMAIN doc' = 1..Len(doc) /\ x \in Nat
      /\ \A k \in 1..Len(doc) : k < x
  BY <1>1, DocFacts, TextInDoc
<1>6. N \subseteq 1..Len(doc) /\ F \subseteq 1..Len(doc)
  BY <1>2, <1>3, OfDoc
<1>7. \A k \in 1..Len(doc) : doc'[k].start = doc[k].start /\ (Element(k)' <=> Element(k))
  BY TextInDoc, TextElements
<1>8. NodesOfDoc' = N /\ FlowsOfDoc' = F
  BY <1>2, <1>3, <1>5, <1>7 DEF NodesOfDoc, FlowsOfDoc
<1>9. \A k \in 1..Len(doc) :
         /\ \A n : SaysNode(n, k) => SaysNode(n, k)'
         /\ \A f : SaysFlow(f, k) => SaysFlow(f, k)'
  BY TextSays
<1>10. PICK more \in BOOLEAN : ~more
  OBVIOUS
<1>11. NodesMatch' /\ nodes' \in Seq(ParsedNode)
  <2>1. NodesOfDoc' = IF more THEN N \cup {x} ELSE N
    BY <1>8, <1>10
  <2>2. nodes' = IF more THEN Append(nodes, NoId) ELSE nodes
    BY <1>4, <1>10
  <2>3. \A k \in N, n \in ParsedNode : SaysNode(n, k) => SaysNode(n, k)'
    BY <1>6, <1>9
  <2>4. \A k \in N : k < x
    BY <1>5, <1>6
  <2> QED
    BY <1>2, <1>5, <1>10, <2>1, <2>2, <2>3, <2>4, NodesGrow
<1>12. FlowsMatch' /\ flows' \in Seq(ParsedFlow)
  <2>1. FlowsOfDoc' = IF more THEN F \cup {x} ELSE F
    BY <1>8, <1>10
  <2>2. flows' = IF more THEN Append(flows, NoId) ELSE flows
    BY <1>4, <1>10
  <2>3. \A k \in F, f \in ParsedFlow : SaysFlow(f, k) => SaysFlow(f, k)'
    BY <1>6, <1>9
  <2>4. \A k \in F : k < x
    BY <1>5, <1>6
  <2> QED
    BY <1>3, <1>5, <1>10, <2>1, <2>2, <2>3, <2>4, FlowsGrow
<1> QED
  BY <1>11, <1>12 DEF ParsedTypeOK

(* What the item of the element that ends says is still so.                *)
LEMMA EndedItem ==
  ASSUME ParserTypeOK, DocOK, StackOK, End, NEW x, x = Parent, NEW i, i = Top,
         NEW below, below = stack[Len(open)].kind
  PROVE  i \in Items /\ i.kind = KindOn(below, x)' /\ ItemOK(i, x)'
<1>1. x \in 1..Len(doc) /\ i.kind = KindOn(below, x) /\ ItemOK(i, x)
  BY EndPath
<1>2. i \in Items
  BY TopItem
<1>3. doc'[x].start = doc[x].start /\ doc'[x].texts = doc[x].texts /\ DOMAIN doc = 1..Len(doc)
  BY <1>1, EndInDoc, DocFacts
<1>4. doc[x].parent # x /\ x \notin Extensions(x, "ioMapping")
  <2>1. doc[x].parent \in Nat /\ doc[x].parent < x
    BY <1>1, Parents
  <2>2. doc[x].parent # 0 =>
          doc[x].parent \in 1..Len(doc) /\ doc[doc[x].parent].parent < doc[x].parent
          /\ doc[doc[x].parent].parent \in Nat
    BY <1>1, Parents
  <2> QED
    BY <2>1, <2>2 DEF Extensions
<1>5. /\ Captured(x)' <=> Captured(x)
      /\ TypeMeant(x)' = TypeMeant(x)
      /\ {j \in DOMAIN doc : doc[j].parent = x}' = {j \in DOMAIN doc : doc[j].parent = x}
      /\ EntriesOf(x)' = EntriesOf(x)
      /\ ConditionMeant(x)' = ConditionMeant(x)
  BY <1>1, <1>4, EndMeans
<1>6. i.kind = KindOn(below, x)'
  BY <1>1, <1>3, <1>5 DEF KindOn
<1>7. Lists(i.io, EntriesSoFar(i, x))'
  <2>1. PICK S : S = EntriesSoFar(i, x)
    OBVIOUS
  <2>2. EntriesSoFar(i, x)' = S
    BY <1>5, <2>1 DEF EntriesSoFar
  <2>3. S \subseteq 1..Len(doc)
    BY <1>3, <2>1 DEF EntriesSoFar, EntriesOf
  <2>4. \A m \in S : EntryMeant(m)' = EntryMeant(m)
    BY <2>3, EndMeans
  <2>5. Lists(i.io, S)
    BY <1>1, <2>1 DEF ItemOK
  <2> QED
    BY <2>2, <2>4, <2>5, ListsStay
<1>8. ItemOK(i, x)'
  BY <1>1, <1>3, <1>5, <1>7 DEF ItemOK
<1> QED
  BY <1>2, <1>6, <1>8

(* An end tag appends what its element means, or nothing.                  *)
LEMMA EndKeepsProcess ==
  ASSUME ParserTypeOK, ParsedTypeOK, DocOK, StackOK, NodesMatch, FlowsMatch, End
  PROVE  ParsedTypeOK' /\ NodesMatch' /\ FlowsMatch'
<1>1. PICK x : x = Parent
  OBVIOUS
<1>2. PICK i : i = Top
  OBVIOUS
<1>3. PICK below : below = stack[Len(open)].kind
  OBVIOUS
<1>4. PICK N : N = NodesOfDoc
  OBVIOUS
<1>5. PICK F : F = FlowsOfDoc
  OBVIOUS
<1>6. i \in Items /\ i.kind = KindOn(below, x)' /\ ItemOK(i, x)'
  BY <1>1, <1>2, <1>3, EndedItem
<1>7. x \in 1..Len(doc) /\ x \in Nat /\ DOMAIN doc = 1..Len(doc) /\ DOMAIN doc' = 1..Len(doc)
  BY <1>1, EndPath, EndInDoc, DocFacts
<1>8. /\ \A k \in 1..Len(doc) : k # x => (Element(k)' <=> Element(k))
      /\ ~Element(x)
      /\ Element(x)' <=> below = "process"
      /\ Element(x)' => \A k \in 1..Len(doc) : Element(k) => k < x
  BY <1>1, <1>3, EndElements
<1>9. \A k \in 1..Len(doc) : doc'[k].start = doc[k].start
  BY EndInDoc
<1>10. /\ N \subseteq 1..Len(doc) /\ F \subseteq 1..Len(doc) /\ x \notin N /\ x \notin F
       /\ \A k \in N \cup F : Element(k) /\ doc[k].closed
  BY <1>4, <1>5, <1>8, OfDoc DEF NodesOfDoc, FlowsOfDoc, Element
<1>11. \A k \in 1..Len(doc) : doc[k].closed =>
         /\ \A n : SaysNode(n, k) => SaysNode(n, k)'
         /\ \A f : SaysFlow(f, k) => SaysFlow(f, k)'
  BY EndSays
<1>12. /\ nodes' = IF i.kind \in FlowNode \cup {"unsupported"}
                   THEN Append(nodes, NodeOf(i)) ELSE nodes
       /\ flows' = IF i.kind = "sequenceFlow" THEN Append(flows, FlowOf(i)) ELSE flows
  BY <1>2 DEF End, Finish
<1>13. /\ i.kind \in FlowNode \cup {"unsupported"} <=>
            below = "process" /\ doc'[x].start.tag \in FlowNode \cup {"other"}
       /\ i.kind = "sequenceFlow" <=> below = "process" /\ doc'[x].start.tag = "sequenceFlow"
  BY <1>6 DEF KindOn, ContainerKind, FlowNode
<1>14. NodesMatch' /\ nodes' \in Seq(ParsedNode)
  <2>1. PICK more \in BOOLEAN : more <=> i.kind \in FlowNode \cup {"unsupported"}
    OBVIOUS
  <2>2. PICK new : new = NodeOf(i)
    OBVIOUS
  <2>3. more => new \in ParsedNode /\ SaysNode(new, x)'
    <3>1. ASSUME more
          PROVE  NodeOf(i) \in ParsedNode /\ SaysNode(NodeOf(i), x)'
      BY <1>6, <2>1, <3>1, FinishedNode
    <3> QED
      BY <2>2, <3>1
  <2>4. NodesOfDoc' = IF more THEN N \cup {x} ELSE N
    <3>1. \A k \in 1..Len(doc) : k # x => (k \in NodesOfDoc' <=> k \in N)
      BY <1>4, <1>7, <1>8, <1>9 DEF NodesOfDoc
    <3>2. x \in NodesOfDoc' <=> more
      BY <1>7, <1>8, <1>13, <2>1 DEF NodesOfDoc
    <3>3. NodesOfDoc' \subseteq (1..Len(doc)) \cup {x}
      BY <1>7 DEF NodesOfDoc
    <3>4. \A k : k # x => (k \in NodesOfDoc' <=> k \in N)
      BY <1>7, <1>10, <3>1, <3>3
    <3> QED
      BY <1>10, <3>2, <3>4, OneMore
  <2>5. nodes' = IF more THEN Append(nodes, new) ELSE nodes
    BY <1>12, <2>1, <2>2
  <2>6. \A k \in N, n \in ParsedNode : SaysNode(n, k) => SaysNode(n, k)'
    BY <1>10, <1>11
  <2>7. CASE more
    <3>1. Element(x)'
      BY <1>8, <1>13, <2>1, <2>7
    <3>2. \A k \in N : k < x
      BY <1>8, <1>10, <3>1
    <3> QED
      BY <1>4, <1>7, <2>3, <2>4, <2>5, <2>6, <3>2, NodesGrow
  <2>8. CASE ~more
    <3>1. PICK y : y = Len(doc) + 1
      OBVIOUS
    <3>4. y \in Nat /\ \A k \in 1..Len(doc) : k < y
      BY <3>1, DocFacts
    <3>2. y \in Nat /\ \A k \in N : k < y
      BY <1>10, <3>4
    <3>3. NodesOfDoc' = IF more THEN N \cup {y} ELSE N
      BY <2>4, <2>8
    <3> QED
      BY <1>4, <2>5, <2>6, <2>8, <3>2, <3>3, NodesGrow
  <2> QED
    BY <2>7, <2>8
<1>15. FlowsMatch' /\ flows' \in Seq(ParsedFlow)
  <2>1. PICK more \in BOOLEAN : more <=> i.kind = "sequenceFlow"
    OBVIOUS
  <2>2. PICK new : new = FlowOf(i)
    OBVIOUS
  <2>3. more => new \in ParsedFlow /\ SaysFlow(new, x)'
    <3>1. PICK default \in BOOLEAN : FlowOf(i) = FlowWithDefault(i, default)
      BY DEF FlowOf
    <3>2. ASSUME more
          PROVE  /\ FlowWithDefault(i, default) \in ParsedFlow
                 /\ SaysFlow(FlowWithDefault(i, default), x)'
      BY <1>6, <2>1, <3>2, FinishedFlow
    <3>3. new = FlowWithDefault(i, default)
      BY <2>2, <3>1
    <3> QED
      BY <3>2, <3>3
  <2>4. FlowsOfDoc' = IF more THEN F \cup {x} ELSE F
    <3>1. \A k \in 1..Len(doc) : k # x => (k \in FlowsOfDoc' <=> k \in F)
      BY <1>5, <1>7, <1>8, <1>9 DEF FlowsOfDoc
    <3>2. x \in FlowsOfDoc' <=> more
      BY <1>7, <1>8, <1>13, <2>1 DEF FlowsOfDoc
    <3>3. FlowsOfDoc' \subseteq (1..Len(doc)) \cup {x}
      BY <1>7 DEF FlowsOfDoc
    <3>4. \A k : k # x => (k \in FlowsOfDoc' <=> k \in F)
      BY <1>7, <1>10, <3>1, <3>3
    <3> QED
      BY <1>10, <3>2, <3>4, OneMore
  <2>5. flows' = IF more THEN Append(flows, new) ELSE flows
    BY <1>12, <2>1, <2>2
  <2>6. \A k \in F, f \in ParsedFlow : SaysFlow(f, k) => SaysFlow(f, k)'
    BY <1>10, <1>11
  <2>7. CASE more
    <3>1. Element(x)'
      BY <1>8, <1>13, <2>1, <2>7
    <3>2. \A k \in F : k < x
      BY <1>8, <1>10, <3>1
    <3> QED
      BY <1>5, <1>7, <2>3, <2>4, <2>5, <2>6, <3>2, FlowsGrow
  <2>8. CASE ~more
    <3>1. PICK y : y = Len(doc) + 1
      OBVIOUS
    <3>4. y \in Nat /\ \A k \in 1..Len(doc) : k < y
      BY <3>1, DocFacts
    <3>2. y \in Nat /\ \A k \in F : k < y
      BY <1>10, <3>4
    <3>3. FlowsOfDoc' = IF more THEN F \cup {y} ELSE F
      BY <2>4, <2>8
    <3> QED
      BY <1>5, <2>5, <2>6, <2>8, <3>2, <3>3, FlowsGrow
  <2> QED
    BY <2>7, <2>8
<1> QED
  BY <1>14, <1>15 DEF ParsedTypeOK
-----------------------------------------------------------------------------
(* The theorems.                                                           *)

(* Nothing is read before the first start tag.                             *)
LEMMA ParserStarts ==
  ASSUME Init
  PROVE  ParserInv
<1>1. DOMAIN doc = {} /\ DOMAIN open = {} /\ Len(nodes) = 0 /\ Len(flows) = 0
  BY DEF Init
<1>2. ParserTypeOK
  <2>1. Item("root", Blank) \in Items
    <3>1. Blank \in Tagged
      BY DEF Blank, Tagged, Tag, FlowNode, Attribute
    <3>2. "root" \in Kind
      BY DEF Kind
    <3> QED
      BY <3>1, <3>2, NewItems
  <2> DEFINE i == Item("root", Blank)
  <2> HIDE DEF i
  <2>2. <<i>> \in Seq(Items) /\ <<i>> # <<>>
    BY <2>1 DEF i
  <2>3. stack = <<i>> /\ doc = <<>> /\ open = <<>> /\ process = {} /\ result = "reading"
    BY DEF Init, i
  <2> QED
    BY <2>2, <2>3 DEF ParserTypeOK
<1>3. ParsedTypeOK
  BY DEF Init, ParsedTypeOK
<1>4. DocOK
  BY <1>1 DEF DocOK
<1>5. StackOK
  BY <1>1 DEF StackOK, Init
<1>6. ProcessIsCaptured
  BY <1>1 DEF ProcessIsCaptured, Init
<1>7. NodesMatch /\ FlowsMatch
  <2>1. NodesOfDoc = {} /\ FlowsOfDoc = {}
    BY <1>1 DEF NodesOfDoc, FlowsOfDoc
  <2> QED
    BY <1>1, <2>1, FS_EmptySet DEF NodesMatch, FlowsMatch
<1>8. FindsTheProcess
  BY DEF FindsTheProcess, Init
<1> QED
  BY <1>2, <1>3, <1>4, <1>5, <1>6, <1>7, <1>8 DEF ParserInv

(* None of it depends on the result.                                       *)
LEMMA SameReading ==
  ASSUME ParserInv, UNCHANGED <<stack, nodes, flows, process, doc, open>>
  PROVE  /\ ParsedTypeOK' /\ DocOK' /\ StackOK' /\ ProcessIsCaptured' /\ NodesMatch' /\ FlowsMatch'
         /\ \A k : Captured(k)' <=> Captured(k)
<1>1. ParsedTypeOK' /\ DocOK'
  BY DEF ParserInv, ParsedTypeOK, DocOK
<1>2. doc' = doc /\ open' = open /\ stack' = stack /\ process' = process
      /\ nodes' = nodes /\ flows' = flows
  OBVIOUS
<1>3. \A k : Captured(k)' <=> Captured(k)
  BY <1>2 DEF Captured, Executable
<1>4. \A k : EntryMeant(k)' = EntryMeant(k)
  BY <1>2 DEF EntryMeant
<1>5. \A k, tag : Extensions(k, tag)' = Extensions(k, tag)
  BY <1>2 DEF Extensions
<1>6. \A k : EntriesOf(k)' = EntriesOf(k)
  BY <1>2, <1>5 DEF EntriesOf
<1>7. \A k : TypeMeant(k)' = TypeMeant(k)
  <2> TAKE k
  <2> DEFINE TypeIn(S) == IF S = {} THEN NoId ELSE doc[CHOOSE j \in S : TRUE].start.type
  <2>1. TypeMeant(k) = TypeIn(Extensions(k, "taskDefinition"))
    BY DEF TypeMeant
  <2>2. TypeMeant(k)' = TypeIn(Extensions(k, "taskDefinition")')
    BY <1>2 DEF TypeMeant
  <2> HIDE DEF TypeIn
  <2> QED
    BY <1>5, <2>1, <2>2
<1>8. \A k : ConditionMeant(k)' = ConditionMeant(k)
  <2> TAKE k
  <2> DEFINE TextIn(S) == IF S = {} THEN <<>> ELSE doc[CHOOSE j \in S : TRUE].texts
  <2>1. ConditionMeant(k) = TextIn(Conditions(k))
    BY DEF ConditionMeant
  <2>2. ConditionMeant(k)' = TextIn(Conditions(k)')
    BY <1>2 DEF ConditionMeant
  <2>3. Conditions(k)' = Conditions(k)
    BY <1>2 DEF Conditions
  <2> HIDE DEF TextIn
  <2> QED
    BY <2>1, <2>2, <2>3
<1>9. \A S, io : Lists(io, S) => Lists(io, S)'
  BY <1>4 DEF Lists, Place
<1>10. \A i, k : ItemOK(i, k) => ItemOK(i, k)'
  <2> SUFFICES ASSUME NEW i, NEW k, ItemOK(i, k)
               PROVE  ItemOK(i, k)'
    OBVIOUS
  <2>1. EntriesSoFar(i, k)' = EntriesSoFar(i, k)
    BY <1>2, <1>6 DEF EntriesSoFar
  <2>2. PICK S : S = EntriesSoFar(i, k)
    OBVIOUS
  <2>3. Lists(i.io, S)'
    BY <1>9, <2>2 DEF ItemOK
  <2>4. Lists(i.io, EntriesSoFar(i, k))'
    BY <2>1, <2>2, <2>3
  <2> QED
    BY <1>2, <1>7, <1>8, <2>4 DEF ItemOK
<1>11. StackOK'
  <2>1. ASSUME NEW n \in DOMAIN open
        PROVE  stack'[n + 1].kind = KindOn(stack[n].kind, open[n])' /\ ItemOK(stack[n + 1], open[n])'
    <3>1. PICK i : i = stack[n + 1]
      OBVIOUS
    <3>2. PICK k : k = open[n]
      OBVIOUS
    <3>3. PICK below : below = stack[n].kind
      OBVIOUS
    <3>4. i.kind = KindOn(below, k) /\ ItemOK(i, k)
      BY <3>1, <3>2, <3>3 DEF ParserInv, StackOK
    <3>5. KindOn(below, k)' = KindOn(below, k)
      BY <1>2, <1>3 DEF KindOn
    <3>6. ItemOK(i, k)'
      BY <1>10, <3>4
    <3> QED
      BY <1>2, <3>1, <3>2, <3>3, <3>4, <3>5, <3>6
  <2>2. /\ doc' = <<>> => open' = <<>> /\ stack' = <<Item("root", Blank)>>
        /\ open' # <<>> => Len(stack') = Len(open') + 1 /\ stack'[1].kind = "root"
    BY <1>2 DEF ParserInv, StackOK
  <2> QED
    BY <1>2, <2>1, <2>2 DEF StackOK
<1>12. ProcessIsCaptured'
  BY <1>2, <1>3 DEF ParserInv, ProcessIsCaptured
<1>13. PICK x : x = Len(doc) + 1
  OBVIOUS
<1>14. PICK N : N = NodesOfDoc
  OBVIOUS
<1>15. PICK F : F = FlowsOfDoc
  OBVIOUS
<1>16. x \in Nat /\ \A k \in N \cup F : k < x /\ k \in 1..Len(doc)
  <2>1. x \in Nat /\ \A k \in 1..Len(doc) : k < x
    BY <1>13, DocFacts DEF ParserInv
  <2>2. N \cup F \subseteq 1..Len(doc)
    BY <1>14, <1>15, OfDoc DEF ParserInv
  <2> QED
    BY <2>1, <2>2
<1>17. \A k : Element(k)' <=> Element(k)
  BY <1>2, <1>3 DEF Element
<1>18. NodesOfDoc' = N /\ FlowsOfDoc' = F
  BY <1>2, <1>14, <1>15, <1>17 DEF NodesOfDoc, FlowsOfDoc
<1>19. \A k \in 1..Len(doc) :
         /\ \A n : SaysNode(n, k) => SaysNode(n, k)'
         /\ \A f : SaysFlow(f, k) => SaysFlow(f, k)'
  BY <1>2, <1>4, <1>6, <1>7, <1>8, SaysSame DEF ParserInv
<1>20. PICK more \in BOOLEAN : ~more
  OBVIOUS
<1>21. NodesMatch'
  <2>1. NodesOfDoc' = IF more THEN N \cup {x} ELSE N
    BY <1>18, <1>20
  <2>2. nodes' = IF more THEN Append(nodes, NoId) ELSE nodes
    BY <1>20
  <2>3. \A k \in N, n \in ParsedNode : SaysNode(n, k) => SaysNode(n, k)'
    BY <1>16, <1>19
  <2> QED
    BY <1>14, <1>16, <1>20, <2>1, <2>2, <2>3, NodesGrow DEF ParserInv
<1>22. FlowsMatch'
  <2>1. FlowsOfDoc' = IF more THEN F \cup {x} ELSE F
    BY <1>18, <1>20
  <2>2. flows' = IF more THEN Append(flows, NoId) ELSE flows
    BY <1>20
  <2>3. \A k \in F, f \in ParsedFlow : SaysFlow(f, k) => SaysFlow(f, k)'
    BY <1>16, <1>19
  <2> QED
    BY <1>15, <1>16, <1>20, <2>1, <2>2, <2>3, FlowsGrow DEF ParserInv
<1> QED
  BY <1>1, <1>3, <1>11, <1>12, <1>21, <1>22

(* Every step keeps the invariant.                                         *)
LEMMA ParserStep ==
  ASSUME ParserInv, [Next]_vars
  PROVE  ParserInv'
<1>1. /\ ParserTypeOK /\ ParsedTypeOK /\ DocOK /\ StackOK /\ ProcessIsCaptured
      /\ NodesMatch /\ FlowsMatch /\ FindsTheProcess
  BY DEF ParserInv
<1>2. ASSUME result' = "reading"
      PROVE  FindsTheProcess'
  BY <1>2 DEF FindsTheProcess
<1>3. CASE \E t \in StartTag, e \in BOOLEAN : Start(t, e)
  <2>1. PICK t \in StartTag, e \in BOOLEAN : Start(t, e)
    BY <1>3
  <2>2. t \in Tagged
    BY ParserAssumption
  <2>3. DocOK'
    BY <1>1, <2>1, <2>2, StartNests
  <2>4. ParserTypeOK' /\ StackOK' /\ ProcessIsCaptured'
    BY <1>1, <2>1, <2>2, StartKeepsStack
  <2>5. ParsedTypeOK' /\ NodesMatch' /\ FlowsMatch'
    BY <1>1, <2>1, <2>2, StartKeepsProcess
  <2>6. FindsTheProcess'
    BY <1>2, <2>1 DEF Start
  <2> QED
    BY <2>3, <2>4, <2>5, <2>6 DEF ParserInv
<1>4. CASE \E x \in Text : Characters(x)
  <2>1. PICK x \in Text : Characters(x)
    BY <1>4
  <2>2. DocOK'
    BY <1>1, <2>1, TextNests
  <2>3. ParserTypeOK' /\ StackOK' /\ ProcessIsCaptured'
    BY <1>1, <2>1, TextKeepsStack
  <2>4. ParsedTypeOK' /\ NodesMatch' /\ FlowsMatch'
    BY <1>1, <2>1, TextKeepsProcess
  <2>5. FindsTheProcess'
    BY <1>2, <2>1 DEF Characters
  <2> QED
    BY <2>2, <2>3, <2>4, <2>5 DEF ParserInv
<1>5. CASE End
  <2>1. DocOK'
    BY <1>1, <1>5, EndNests
  <2>2. ParserTypeOK' /\ StackOK' /\ ProcessIsCaptured'
    BY <1>1, <1>5, EndKeepsStack
  <2>3. ParsedTypeOK' /\ NodesMatch' /\ FlowsMatch'
    BY <1>1, <1>5, EndKeepsProcess
  <2>4. FindsTheProcess'
    BY <1>2, <1>5 DEF End
  <2> QED
    BY <2>1, <2>2, <2>3, <2>4 DEF ParserInv
<1>6. CASE Eof
  <2>1. UNCHANGED <<stack, nodes, flows, process, doc, open>>
    BY <1>6 DEF Eof
  <2>2. result' = IF process \subseteq {NoId} THEN "none" ELSE "ok"
    BY <1>6 DEF Eof
  <2>3. /\ ParsedTypeOK' /\ DocOK' /\ StackOK' /\ ProcessIsCaptured' /\ NodesMatch' /\ FlowsMatch'
        /\ \A k : Captured(k)' <=> Captured(k)
    BY <2>1, SameReading
  <2>4. ParserTypeOK'
    BY <1>1, <2>1, <2>2 DEF ParserTypeOK
  <2>5. process \subseteq {NoId} <=> \A k \in DOMAIN doc : Captured(k) => doc[k].start.id = NoId
    BY <1>1 DEF ProcessIsCaptured
  <2>6. FindsTheProcess'
    BY <2>1, <2>2, <2>3, <2>5 DEF FindsTheProcess
  <2> QED
    BY <2>3, <2>4, <2>6 DEF ParserInv
<1>7. CASE UNCHANGED vars
  <2>1. UNCHANGED <<stack, nodes, flows, process, doc, open>> /\ result' = result
    BY <1>7 DEF vars
  <2>2. /\ ParsedTypeOK' /\ DocOK' /\ StackOK' /\ ProcessIsCaptured' /\ NodesMatch' /\ FlowsMatch'
        /\ \A k : Captured(k)' <=> Captured(k)
    BY <2>1, SameReading
  <2>3. ParserTypeOK'
    BY <1>1, <2>1 DEF ParserTypeOK
  <2>4. FindsTheProcess'
    BY <1>1, <2>1, <2>2 DEF FindsTheProcess
  <2> QED
    BY <2>2, <2>3, <2>4 DEF ParserInv
<1> QED
  BY <1>3, <1>4, <1>5, <1>6, <1>7 DEF Next

(* After any part of any document, whatever its depth and its length, the  *)
(* stack says of every open element what has been read of it (parse.rs     *)
(* 88-141, 327-460).                                                       *)
THEOREM ParserInvariant == Spec => []ParserInv
<1>1. Init => ParserInv
  BY ParserStarts
<1>2. ParserInv /\ [Next]_vars => ParserInv'
  BY ParserStep
<1> QED
  BY <1>1, <1>2, PTL DEF Spec

(* The nodes are the closed children of the first executable process, with *)
(* the task types and mappings of their own extensions (parse.rs 143-325,  *)
(* 431-460).                                                               *)
THEOREM NodesAreRight == Spec => []NodesMatch
<1>1. ParserInv => NodesMatch
  BY DEF ParserInv
<1> QED
  BY <1>1, ParserInvariant, PTL

(* The flows are, with all the text of their conditions (parse.rs 106-110, *)
(* 253, 384-423).                                                          *)
THEOREM FlowsAreRight == Spec => []FlowsMatch
<1>1. ParserInv => FlowsMatch
  BY DEF ParserInv
<1> QED
  BY <1>1, ParserInvariant, PTL

(* A process is found if and only if the first executable one has an id    *)
(* (parse.rs 119-125, 222-238).                                            *)
THEOREM ProcessIsFound == Spec => []FindsTheProcess
<1>1. ParserInv => FindsTheProcess
  BY DEF ParserInv
<1> QED
  BY <1>1, ParserInvariant, PTL
-----------------------------------------------------------------------------
(* The process is built by appending.                                      *)

(* A condition has no more texts than its element may have.                *)
LEMMA ConditionBounded ==
  ASSUME ParserTypeOK, DocOK, NEW k
  PROVE  ConditionMeant(k) = <<>> \/ Len(ConditionMeant(k)) <= MaxTexts
<1>1. ConditionMeant(k) = IF Conditions(k) = {} THEN <<>>
                          ELSE doc[CHOOSE j \in Conditions(k) : TRUE].texts
  BY DEF ConditionMeant
<1>2. CASE Conditions(k) = {}
  BY <1>1, <1>2
<1>3. CASE Conditions(k) # {}
  <2>1. PICK c : c = (CHOOSE j \in Conditions(k) : TRUE)
    OBVIOUS
  <2>2. c \in DOMAIN doc
    BY <1>3, <2>1 DEF Conditions
  <2>3. Len(doc[c].texts) <= MaxTexts
    BY <2>2 DEF DocOK
  <2>4. ConditionMeant(k) = doc[c].texts
    BY <1>1, <1>3, <2>1
  <2> QED
    BY <2>3, <2>4
<1> QED
  BY <1>2, <1>3

(* What the builder allows as the next node or flow.                       *)
Listed(id) ==
  id # NoId /\ \E k \in DOMAIN nodes : /\ nodes[k].tag = "exclusiveGateway"
                                       /\ nodes[k].default = id

AppendsNode == \E n \in ParsedNode : nodes' = Append(nodes, n) /\ flows' = flows

AppendsFlow ==
  \E f \in ParsedFlow : /\ flows' = Append(flows, f) /\ nodes' = nodes
                        /\ f.condition = <<>> \/ Len(f.condition) <= MaxTexts
                        /\ f.default = Listed(f.id)

(* The flow of an item is one the builder would add.                       *)
LEMMA FlowAppended ==
  ASSUME NEW i \in Items, i.content = <<>> \/ Len(i.content) <= MaxTexts,
         FlowOf(i) \in ParsedFlow, flows' = Append(flows, FlowOf(i)), nodes' = nodes
  PROVE  AppendsFlow
<1>1. FlowOf(i).condition = i.content /\ FlowOf(i).id = i.start.id
  BY DEF FlowOf, FlowWithDefault
<1>2. FlowOf(i).default = Listed(i.start.id)
  BY DEF FlowOf, FlowWithDefault, Listed
<1> QED
  BY <1>1, <1>2 DEF AppendsFlow

(* A start tag adds at most one node or one flow,                          *)
LEMMA StartAppends ==
  ASSUME ParserInv, NEW t \in Tagged, NEW e \in BOOLEAN, Start(t, e)
  PROVE  AppendsNode \/ AppendsFlow \/ (nodes' = nodes /\ flows' = flows)
<1>1. ParserTypeOK /\ DocOK /\ StackOK /\ ProcessIsCaptured
  BY DEF ParserInv
<1>2. PICK x : x = Len(doc) + 1
  OBVIOUS
<1>3. PICK i : i = NewItem(t)
  OBVIOUS
<1>4. PICK below : below = Top.kind
  OBVIOUS
<1>5. i \in Items /\ i.kind = NewKind(t) /\ i.kind = KindOn(below, x)' /\ ItemOK(i, x)'
      /\ i.content = <<>>
  <2>1. i \in Items
    BY <1>1, <1>3, StartStack
  <2>2. i.kind = NewKind(t) /\ i.content = <<>>
    BY <1>3 DEF NewItem, Item, Skip
  <2> QED
    BY <1>1, <1>2, <1>3, <1>4, <2>1, <2>2, NewItemOK
<1>6. /\ nodes' = IF e /\ NewKind(t) \in FlowNode \cup {"unsupported"}
                  THEN Append(nodes, NodeOf(NewItem(t))) ELSE nodes
      /\ flows' = IF e /\ NewKind(t) = "sequenceFlow"
                  THEN Append(flows, FlowOf(NewItem(t))) ELSE flows
  BY StartReads DEF Start
<1>7. CASE e /\ NewKind(t) \in FlowNode \cup {"unsupported"}
  <2>1. NodeOf(i) \in ParsedNode
    BY <1>5, <1>7, FinishedNode
  <2>2. nodes' = Append(nodes, NodeOf(i)) /\ flows' = flows
    BY <1>3, <1>6, <1>7 DEF FlowNode
  <2> QED
    BY <2>1, <2>2 DEF AppendsNode
<1>8. CASE e /\ NewKind(t) = "sequenceFlow"
  <2>1. PICK default \in BOOLEAN : FlowOf(i) = FlowWithDefault(i, default)
    BY DEF FlowOf
  <2>2. FlowOf(i) \in ParsedFlow
    BY <1>5, <1>8, <2>1, FinishedFlow
  <2>3. flows' = Append(flows, FlowOf(i)) /\ nodes' = nodes
    BY <1>3, <1>6, <1>8 DEF FlowNode
  <2> QED
    BY <1>5, <2>2, <2>3, FlowAppended
<1> QED
  BY <1>6, <1>7, <1>8

(* ... an end tag too,                                                     *)
LEMMA EndAppends ==
  ASSUME ParserInv, End
  PROVE  AppendsNode \/ AppendsFlow \/ (nodes' = nodes /\ flows' = flows)
<1>1. ParserTypeOK /\ DocOK /\ StackOK
  BY DEF ParserInv
<1>2. PICK x : x = Parent
  OBVIOUS
<1>3. PICK i : i = Top
  OBVIOUS
<1>4. PICK below : below = stack[Len(open)].kind
  OBVIOUS
<1>5. i \in Items /\ i.kind = KindOn(below, x)' /\ ItemOK(i, x)'
  BY <1>1, <1>2, <1>3, <1>4, EndedItem
<1>6. /\ nodes' = IF i.kind \in FlowNode \cup {"unsupported"}
                  THEN Append(nodes, NodeOf(i)) ELSE nodes
      /\ flows' = IF i.kind = "sequenceFlow" THEN Append(flows, FlowOf(i)) ELSE flows
  BY <1>3 DEF End, Finish
<1>7. CASE i.kind \in FlowNode \cup {"unsupported"}
  <2>1. NodeOf(i) \in ParsedNode
    BY <1>5, <1>7, FinishedNode
  <2>2. nodes' = Append(nodes, NodeOf(i)) /\ flows' = flows
    BY <1>6, <1>7 DEF FlowNode
  <2> QED
    BY <2>1, <2>2 DEF AppendsNode
<1>8. CASE i.kind = "sequenceFlow"
  <2>1. PICK default \in BOOLEAN : FlowOf(i) = FlowWithDefault(i, default)
    BY DEF FlowOf
  <2>2. FlowOf(i) \in ParsedFlow
    BY <1>5, <1>8, <2>1, FinishedFlow
  <2>3. flows' = Append(flows, FlowOf(i)) /\ nodes' = nodes
    BY <1>6, <1>8 DEF FlowNode
  <2>4. i.content = <<>> \/ Len(i.content) <= MaxTexts
    <3>1. ItemOK(Top, x)
      BY <1>1, <1>2, EndPath
    <3>2. i.content = ConditionMeant(x)
      BY <1>3, <1>8, <3>1 DEF ItemOK
    <3> QED
      BY <1>1, <3>2, ConditionBounded
  <2> QED
    BY <1>5, <2>2, <2>3, <2>4, FlowAppended
<1> QED
  BY <1>6, <1>7, <1>8

(* ... and nothing else adds any.                                          *)
LEMMA StepAppends ==
  ASSUME ParserInv, [Next]_vars
  PROVE  AppendsNode \/ AppendsFlow \/ (nodes' = nodes /\ flows' = flows)
<1>1. CASE \E t \in StartTag, e \in BOOLEAN : Start(t, e)
  BY <1>1, ParserAssumption, StartAppends
<1>2. CASE End
  BY <1>2, EndAppends
<1>3. CASE \/ \E x \in Text : Characters(x)
           \/ Eof
           \/ UNCHANGED vars
  BY <1>3 DEF Characters, Eof, vars
<1> QED
  BY <1>1, <1>2, <1>3 DEF Next

(* The builder's view of the nodes.                                        *)
PlainNodes(s) == [k \in DOMAIN s |-> Plain(s[k])]

(* Appending before or after the projection is the same.                   *)
LEMMA PlainAppended ==
  ASSUME NEW S, NEW s \in Seq(S), NEW n \in S
  PROVE  /\ PlainNodes(Append(s, n)) = Append(PlainNodes(s), Plain(n))
         /\ PlainNodes(Append(s, n)) # <<>>
         /\ PlainNodes(Append(s, n))[Len(PlainNodes(Append(s, n)))] = Plain(n)
<1> DEFINE R == {Plain(s[k]) : k \in 1..Len(s)} \cup {Plain(n)}
           p == PlainNodes(s)
           q == PlainNodes(Append(s, n))
           m == Plain(n)
<1>1. Len(s) \in Nat /\ DOMAIN s = 1..Len(s)
  OBVIOUS
<1>2. p \in [1..Len(s) -> R] /\ \A k \in 1..Len(s) : p[k] = Plain(s[k])
  BY <1>1 DEF PlainNodes
<1>3. DOMAIN Append(s, n) = 1..(Len(s) + 1)
  OBVIOUS
<1>4. /\ DOMAIN q = 1..(Len(s) + 1) /\ q = [k \in DOMAIN q |-> q[k]]
      /\ \A k \in 1..(Len(s) + 1) : q[k] = Plain(Append(s, n)[k])
  BY <1>3 DEF PlainNodes
<1>5. /\ \A k \in 1..Len(s) : Append(s, n)[k] = s[k]
      /\ Append(s, n)[Len(s) + 1] = n
  OBVIOUS
<1>6. m \in R
  OBVIOUS
<1>7. /\ \A k \in 1..Len(s) : q[k] = p[k]
      /\ q[Len(s) + 1] = m
  BY <1>1, <1>2, <1>4, <1>5
<1>8. p \in Seq(R) /\ Len(p) = Len(s)
  BY <1>1, <1>2
<1>9. q \in [1..(Len(s) + 1) -> R]
  <2>1. \A k \in 1..(Len(s) + 1) : k \in 1..Len(s) \/ k = Len(s) + 1
    BY <1>1
  <2>2. \A k \in 1..Len(s) : p[k] \in R
    BY <1>2
  <2>3. \A k \in 1..(Len(s) + 1) : q[k] \in R
    BY <1>6, <1>7, <2>1, <2>2
  <2> QED
    BY <1>4, <2>3
<1> HIDE DEF R, p, q, m
<1>10. q \in Seq(R) /\ Len(q) = Len(s) + 1
  BY <1>1, <1>9
<1>11. q = Append(p, m)
  BY <1>1, <1>6, <1>7, <1>8, <1>10
<1>12. q # <<>> /\ q[Len(q)] = m
  BY <1>1, <1>7, <1>10
<1> QED
  BY <1>11, <1>12 DEF p, q, m

(* A text of bounded length is a condition or empty.                       *)
LEMMA ShortConditions ==
  ASSUME NEW c \in Seq(Text), c = <<>> \/ Len(c) <= MaxTexts
  PROVE  c \in ConditionText \cup {<<>>}
<1>1. c \in [1..Len(c) -> Text] /\ Len(c) \in Nat /\ MaxTexts \in Nat
  BY ParserAssumption
<1>2. c = <<>> \/ Len(c) \in 1..MaxTexts
  BY <1>1, EmptySeq
<1>3. CASE c # <<>>
  <2>1. PICK n \in 1..MaxTexts : n = Len(c)
    BY <1>2, <1>3
  <2> QED
    BY <1>1, <2>1 DEF ConditionText
<1> QED
  BY <1>3

(* Every step of the parser is a step of the builder or none.              *)
LEMMA BuilderStep ==
  ASSUME ParserInv, [Next]_vars
  PROVE  [Builder!Next]_<<[k \in DOMAIN nodes |-> Plain(nodes[k])], flows>>
<1>1. nodes \in Seq(ParsedNode) /\ flows \in Seq(ParsedFlow) /\ MaxTexts \in Nat
  BY ParserAssumption DEF ParserInv, ParsedTypeOK
<1>2. PlainNodes(nodes) = [k \in DOMAIN nodes |-> Plain(nodes[k])]
  BY DEF PlainNodes
<1>3. PlainNodes(nodes)' = [k \in DOMAIN nodes' |-> Plain(nodes'[k])]
  BY DEF PlainNodes, Plain
<1>4. CASE AppendsNode
  <2>1. PICK n \in ParsedNode : nodes' = Append(nodes, n) /\ flows' = flows
    BY <1>4 DEF AppendsNode
  <2>2. PICK m : m = Plain(n)
    OBVIOUS
  <2>3. m \in Builder!Node
    BY <2>2 DEF Plain, ParsedNode, Builder!Node, Builder!NodeTag, Builder!Attribute, Attribute, FlowNode
  <2> DEFINE T == ParsedNode
  <2>4. nodes \in Seq(T) /\ n \in T
    BY <1>1, <2>1
  <2>5. PlainNodes(nodes)' = PlainNodes(Append(nodes, n))
    BY <2>1 DEF PlainNodes, Plain
  <2> HIDE DEF T
  <2>6. /\ PlainNodes(nodes)' = Append(PlainNodes(nodes), m)
        /\ PlainNodes(nodes)' # <<>>
        /\ PlainNodes(nodes)'[Len(PlainNodes(nodes)')] = m
    BY <2>2, <2>4, <2>5, PlainAppended
  <2>7. Builder!Next
    BY <1>2, <1>3, <2>1, <2>3, <2>6 DEF Builder!Next, Builder!AddNode
  <2> QED
    BY <2>7
<1>5. CASE AppendsFlow
  <2>1. PICK f \in ParsedFlow : /\ flows' = Append(flows, f) /\ nodes' = nodes
                                /\ f.condition = <<>> \/ Len(f.condition) <= MaxTexts
                                /\ f.default = Listed(f.id)
    BY <1>5 DEF AppendsFlow
  <2>2. f.condition \in ConditionText \cup {<<>>}
    <3>1. f.condition \in Seq(Text)
      BY <2>1 DEF ParsedFlow
    <3> QED
      BY <2>1, <3>1, ShortConditions
  <2>3. f \in Builder!Flow
    BY <2>1, <2>2 DEF ParsedFlow, Builder!Flow, Builder!Attribute, Attribute
  <2>4. flows' # <<>> /\ flows'[Len(flows')] = f
    <3> DEFINE T == ParsedFlow
    <3>1. flows \in Seq(T) /\ f \in T /\ flows' = Append(flows, f)
      BY <1>1, <2>1
    <3> HIDE DEF T
    <3> QED
      BY <3>1
  <2>5. Listed(f.id) = Builder!ListedAsDefault(PlainNodes(nodes), f.id)
    BY DEF Listed, Builder!ListedAsDefault, PlainNodes, Plain
  <2>6. [[f EXCEPT !.default = FALSE] EXCEPT !.default = Listed(f.id)] = f
    <3>1. f = [f EXCEPT !.default = f.default]
      BY <2>1 DEF ParsedFlow
    <3> QED
      BY <2>1, <3>1 DEF ParsedFlow
  <2>7. [f EXCEPT !.default = FALSE].id = f.id
    BY <2>1 DEF ParsedFlow
  <2>8. Builder!AddFlow([f EXCEPT !.default = FALSE])
    BY <1>2, <1>3, <2>1, <2>5, <2>6, <2>7 DEF Builder!AddFlow, PlainNodes, Plain
  <2>9. Builder!Next
    BY <2>3, <2>4, <2>8 DEF Builder!Next
  <2> QED
    BY <2>9
<1>6. CASE nodes' = nodes /\ flows' = flows
  BY <1>6 DEF Plain
<1> QED
  BY <1>4, <1>5, <1>6, StepAppends

(* The parser implements the abstract builder: it adds one node or one     *)
(* flow at a time and revises nothing (finish_item, parse.rs 334-429).     *)
THEOREM ParserBuilds == Spec => RefinesBuilder
<1>1. Init => Builder!Init
  BY DEF Init, Builder!Init
<1>2. ParserInv /\ [Next]_vars => [Builder!Next]_<<[k \in DOMAIN nodes |-> Plain(nodes[k])], flows>>
  BY BuilderStep
<1> QED
  BY <1>1, <1>2, ParserInvariant, PTL DEF Spec, RefinesBuilder, Builder!Spec

-----------------------------------------------------------------------------
(* A deployment compiles what the parser returned.                         *)

Compiled == INSTANCE CompilerProofs WITH
              ConditionText <- {ConditionOf(texts) : texts \in ConditionText},
              nodes <- [k \in DOMAIN nodes |-> Plain(nodes[k])],
              flows <- [k \in DOMAIN flows |->
                          [flows[k] EXCEPT !.condition =
                             IF @ = <<>> THEN NoCondition ELSE ConditionOf(@)]]

(* The theorems about the compiler speak of the compiler of a deployment:  *)
(* every operator of the one instance is that of the other.                *)
LEMMA SameCompiler ==
  /\ Compiled!ValidGraphIsRunnable = Compiler!ValidGraphIsRunnable
  /\ Compiled!RoutesByConditions = Compiler!RoutesByConditions
<1>1. \A x : Compiled!Cardinality(x) = Compiler!Cardinality(x)
  BY Zenon
     DEF Compiled!Cardinality, Compiler!Cardinality, Compiled!IsFiniteSet, Compiler!IsFiniteSet
<1>2. \A ns, x : Compiled!Tagged(ns, x) = Compiler!Tagged(ns, x)
  BY DEF Compiled!Tagged, Compiler!Tagged
<1>3. \A ns : Compiled!NodeIds(ns) = Compiler!NodeIds(ns)
  BY DEF Compiled!NodeIds, Compiler!NodeIds
<1>4. \A fs, x : Compiled!From(fs, x) = Compiler!From(fs, x)
  BY DEF Compiled!From, Compiler!From
<1>5. \A ns : Compiled!UnsupportedElement(ns) = Compiler!UnsupportedElement(ns)
  BY <1>2 DEF Compiled!UnsupportedElement, Compiler!UnsupportedElement
<1>6. \A ns : Compiled!StartEventCount(ns) = Compiler!StartEventCount(ns)
  BY <1>1, <1>2 DEF Compiled!StartEventCount, Compiler!StartEventCount
<1>7. \A ns : Compiled!EndEventMissing(ns) = Compiler!EndEventMissing(ns)
  BY <1>2 DEF Compiled!EndEventMissing, Compiler!EndEventMissing
<1>8. \A ns, fs : Compiled!InvalidFlowRef(ns, fs) = Compiler!InvalidFlowRef(ns, fs)
  BY <1>3 DEF Compiled!InvalidFlowRef, Compiler!InvalidFlowRef
<1>9. \A ns : Compiled!MissingTaskType(ns) = Compiler!MissingTaskType(ns)
  BY <1>2 DEF Compiled!MissingTaskType, Compiler!MissingTaskType
<1>10. \A ns, fs : Compiled!MultipleDefaultFlows(ns, fs) = Compiler!MultipleDefaultFlows(ns, fs)
  BY <1>1, <1>2, <1>4 DEF Compiled!MultipleDefaultFlows, Compiler!MultipleDefaultFlows
<1>11. \A ns, fs : Compiled!MissingCondition(ns, fs) = Compiler!MissingCondition(ns, fs)
  BY <1>1, <1>2, <1>4 DEF Compiled!MissingCondition, Compiler!MissingCondition
<1>12. \A fs, x : Compiled!Levels(fs, x) = Compiler!Levels(fs, x)
  BY Zenon DEF Compiled!Levels, Compiler!Levels, Compiled!Step, Compiler!Step
<1>13. \A fs, x : Compiled!Visited(fs, x) = Compiler!Visited(fs, x)
  BY <1>12 DEF Compiled!Visited, Compiler!Visited
<1>14. \A ns, fs : Compiled!UnreachableNode(ns, fs) = Compiler!UnreachableNode(ns, fs)
  BY <1>13, <1>2, <1>6 DEF Compiled!UnreachableNode, Compiler!UnreachableNode
<1>15. \A ns, fs : Compiled!Diagnostics(ns, fs) = Compiler!Diagnostics(ns, fs)
  BY <1>5, <1>6, <1>7, <1>8, <1>9, <1>10, <1>11, <1>14
     DEF Compiled!Diagnostics, Compiler!Diagnostics
<1>16. Compiled!Valid = Compiler!Valid
  BY <1>15 DEF Compiled!Valid, Compiler!Valid
<1>17. \A x : Compiled!CompiledKind(x) = Compiler!CompiledKind(x)
  BY DEF Compiled!CompiledKind, Compiler!CompiledKind
<1>18. Compiled!Supported = Compiler!Supported
  BY DEF Compiled!Supported, Compiler!Supported
<1>19. Compiled!CompiledNodes = Compiler!CompiledNodes
  BY <1>18 DEF Compiled!CompiledNodes, Compiler!CompiledNodes
<1>20. \A x : Compiled!LastWith(x) = Compiler!LastWith(x)
  BY <1>18 DEF Compiled!LastWith, Compiler!LastWith
<1>21. Compiled!CompiledStart = Compiler!CompiledStart
  BY Zenon DEF Compiled!CompiledStart, Compiler!CompiledStart, Compiled!Tagged, Compiler!Tagged
<1>22. \A x : Compiled!CompiledFlow(x) = Compiler!CompiledFlow(x)
  BY DEF Compiled!CompiledFlow, Compiler!CompiledFlow, Compiled!Absent, Compiler!Absent
<1>23. \A x, y : Compiled!Nth(x, y) = Compiler!Nth(x, y)
  BY <1>1 DEF Compiled!Nth, Compiler!Nth
<1>24. \A x : Compiled!CompiledOutgoing(x) = Compiler!CompiledOutgoing(x)
  BY <1>22, <1>1, <1>4, <1>23 DEF Compiled!CompiledOutgoing, Compiler!CompiledOutgoing
<1>25. Compiled!DistinctIds = Compiler!DistinctIds
  BY DEF Compiled!DistinctIds, Compiler!DistinctIds
<1>26. \A x : Compiled!Closed(x) = Compiler!Closed(x)
  BY <1>19, <1>24 DEF Compiled!Closed, Compiler!Closed
<1>27. Compiled!Graph!GraphOK = Compiler!Graph!GraphOK
  BY <1>19, <1>21, <1>17, <1>20, <1>24
     DEF Compiled!Graph!GraphOK, Compiler!Graph!GraphOK, Compiled!Graph!Flow,
     Compiler!Graph!Flow, Compiled!Graph!NodeKind, Compiler!Graph!NodeKind,
     Compiled!Graph!Condition, Compiler!Graph!Condition
<1>28. \A x : Compiled!Graph!HasNext(x) = Compiler!Graph!HasNext(x)
  BY <1>19, <1>24 DEF Compiled!Graph!HasNext, Compiler!Graph!HasNext
<1>29. Compiled!Graph!Scope = Compiler!Graph!Scope
  BY DEF Compiled!Graph!Scope, Compiler!Graph!Scope
<1>30. \A x, y : Compiled!Graph!Evaluate(x, y) = Compiler!Graph!Evaluate(x, y)
  BY DEF Compiled!Graph!Evaluate, Compiler!Graph!Evaluate
<1>31. \A x, y, z : Compiled!Graph!FirstStop(x, y, z) = Compiler!Graph!FirstStop(x, y, z)
  BY <1>30, <1>19, <1>24
     DEF Compiled!Graph!FirstStop, Compiler!Graph!FirstStop, Compiled!Graph!StopsAt,
     Compiler!Graph!StopsAt
<1>32. \A x, y : Compiled!Graph!LastDefault(x, y) = Compiler!Graph!LastDefault(x, y)
  BY <1>19, <1>24 DEF Compiled!Graph!LastDefault, Compiler!Graph!LastDefault
<1>33. ASSUME NEW x, NEW y
      PROVE  Compiled!Graph!GatewayTarget(x, y) = Compiler!Graph!GatewayTarget(x, y)
  <2> DEFINE O == [n \in Compiled!CompiledNodes |-> Compiled!CompiledOutgoing(n)][x]
             P == [n \in Compiler!CompiledNodes |-> Compiler!CompiledOutgoing(n)][x]
             s == CHOOSE i \in DOMAIN O : Compiled!Graph!FirstStop(x, y, i)
             t == CHOOSE i \in DOMAIN P : Compiler!Graph!FirstStop(x, y, i)
             d == CHOOSE i \in DOMAIN O : Compiled!Graph!LastDefault(x, i)
             e == CHOOSE i \in DOMAIN P : Compiler!Graph!LastDefault(x, i)
  <2>1. O = P
    BY <1>19, <1>24
  <2>2. s = t /\ d = e
    BY <1>31, <1>32, <2>1
  <2>3. (\E i \in DOMAIN O : Compiled!Graph!FirstStop(x, y, i))
       <=> (\E i \in DOMAIN P : Compiler!Graph!FirstStop(x, y, i))
    BY <1>31, <2>1
  <2>4. (\E i \in DOMAIN O : Compiled!Graph!LastDefault(x, i))
       <=> (\E i \in DOMAIN P : Compiler!Graph!LastDefault(x, i))
    BY <1>32, <2>1
  <2>5. Compiled!Graph!Evaluate(O[s].cond, y) = Compiler!Graph!Evaluate(P[t].cond, y)
    BY <1>30, <2>1, <2>2
  <2> HIDE DEF s, t, d, e
  <2>6. Compiled!Graph!GatewayTarget(x, y) =
          IF \E i \in DOMAIN O : Compiled!Graph!FirstStop(x, y, i)
          THEN IF O[s].cond.op # "none" /\ Compiled!Graph!Evaluate(O[s].cond, y) = "error"
               THEN NoNode ELSE O[s].target
          ELSE IF \E i \in DOMAIN O : Compiled!Graph!LastDefault(x, i) THEN O[d].target ELSE NoNode
    BY DEF s, d, Compiled!Graph!GatewayTarget
  <2>7. Compiler!Graph!GatewayTarget(x, y) =
          IF \E i \in DOMAIN P : Compiler!Graph!FirstStop(x, y, i)
          THEN IF P[t].cond.op # "none" /\ Compiler!Graph!Evaluate(P[t].cond, y) = "error"
               THEN NoNode ELSE P[t].target
          ELSE IF \E i \in DOMAIN P : Compiler!Graph!LastDefault(x, i) THEN P[e].target ELSE NoNode
    BY DEF t, e, Compiler!Graph!GatewayTarget
  <2> QED
    BY <2>1, <2>2, <2>3, <2>4, <2>5, <2>6, <2>7
<1>34. Compiled!ValidGraphIsRunnable = Compiler!ValidGraphIsRunnable
  BY <1>16, <1>25, <1>27, <1>17, <1>20, <1>21, <1>28, <1>19, <1>26
     DEF Compiled!ValidGraphIsRunnable, Compiler!ValidGraphIsRunnable
<1>35. Compiled!RoutesByConditions = Compiler!RoutesByConditions
  BY <1>16, <1>19, <1>17, <1>20, <1>29, <1>24, <1>30, <1>33
     DEF Compiled!RoutesByConditions, Compiler!RoutesByConditions
<1> QED
  BY <1>34, <1>35

(* Every condition that was appended is one the document may have.         *)
ConditionsRead == \A k \in DOMAIN flows : flows[k].condition \in ConditionText \cup {<<>>}

LEMMA ConditionsStep ==
  ASSUME ParserInv, ConditionsRead, [Next]_vars
  PROVE  ConditionsRead'
<1>1. CASE AppendsFlow
  <2>1. PICK f \in ParsedFlow : /\ flows' = Append(flows, f)
                                /\ f.condition = <<>> \/ Len(f.condition) <= MaxTexts
    BY <1>1 DEF AppendsFlow
  <2>2. f.condition \in ConditionText \cup {<<>>}
    <3>1. f.condition \in Seq(Text)
      BY <2>1 DEF ParsedFlow
    <3> QED
      BY <2>1, <3>1, ShortConditions
  <2> DEFINE T == ParsedFlow
  <2>3. flows \in Seq(T) /\ f \in T
    BY <2>1 DEF ParserInv, ParsedTypeOK
  <2> HIDE DEF T
  <2>4. \A k \in DOMAIN flows' : flows'[k] = f \/ (k \in DOMAIN flows /\ flows'[k] = flows[k])
    BY <2>1, <2>3
  <2> QED
    BY <2>2, <2>4 DEF ConditionsRead, ConditionText
<1>2. CASE flows' = flows
  BY <1>2 DEF ConditionsRead, ConditionText
<1> QED
  BY <1>1, <1>2, StepAppends DEF AppendsNode

(* What the compiler is given is a process.                                *)
LEMMA ParsedIsProcess ==
  ASSUME ParserInv, ConditionsRead
  PROVE  Compiled!TypeOK
<1> DEFINE N == ParsedNode
           F == ParsedFlow
           ns == [k \in DOMAIN nodes |-> Plain(nodes[k])]
           fs == [k \in DOMAIN flows |->
                    [flows[k] EXCEPT !.condition =
                       IF @ = <<>> THEN NoCondition ELSE ConditionOf(@)]]
<1>1. nodes \in Seq(N) /\ flows \in Seq(F)
  BY DEF ParserInv, ParsedTypeOK
<1>2. \A n \in N : Plain(n) \in Compiled!Node
  BY DEF ParsedNode, Plain, Compiled!Node, Compiled!NodeTag, Compiled!Attribute, Attribute, FlowNode
<1>3. ASSUME NEW f \in F, f.condition \in ConditionText \cup {<<>>}
      PROVE  [f EXCEPT !.condition = IF @ = <<>> THEN NoCondition ELSE ConditionOf(@)]
               \in Compiled!Flow
  <2>1. PICK c : c = IF f.condition = <<>> THEN NoCondition ELSE ConditionOf(f.condition)
    OBVIOUS
  <2>2. c \in {ConditionOf(texts) : texts \in ConditionText} \cup {NoCondition}
    BY <1>3, <2>1
  <2>3. [f EXCEPT !.condition = IF @ = <<>> THEN NoCondition ELSE ConditionOf(@)]
          = [f EXCEPT !.condition = c]
    BY <2>1
  <2>4. [f EXCEPT !.condition = c] \in Compiled!Flow
    BY <2>2 DEF ParsedFlow, Compiled!Flow, Compiled!Attribute, Attribute
  <2> QED
    BY <2>3, <2>4
<1>4. \A k \in DOMAIN flows : fs[k] \in Compiled!Flow
  BY <1>1, <1>3 DEF ConditionsRead
<1> HIDE DEF N, F
<1>5. ns \in Seq(Compiled!Node)
  BY <1>1, <1>2
<1>6. fs \in Seq(Compiled!Flow)
  <2> DEFINE S == Compiled!Flow
  <2>1. PICK n \in Nat : DOMAIN flows = 1..n
    BY <1>1
  <2>2. \A k \in 1..n : fs[k] \in S
    BY <1>4, <2>1
  <2>3. fs = [k \in 1..n |-> fs[k]]
    BY <2>1
  <2> HIDE DEF fs, S
  <2>4. fs \in [1..n -> S]
    BY <2>2, <2>3
  <2>5. fs \in Seq(S)
    BY <2>4
  <2> QED
    BY <2>5 DEF S
<1> QED
  BY <1>5, <1>6 DEF Compiled!TypeOK

LEMMA DeploymentInvariant == Spec => [](ParserInv /\ ConditionsRead)
<1>1. Init => ConditionsRead
  BY DEF Init, ConditionsRead
<1>2. ParserInv /\ ConditionsRead /\ [Next]_vars => ConditionsRead'
  BY ConditionsStep
<1> QED
  BY <1>1, <1>2, ParserInvariant, PTL DEF Spec

(* A document without diagnostics compiles to a graph the engine can run   *)
(* (validate.rs 14-174, compile.rs 5-63).                                  *)
THEOREM ValidDocumentsRun == Spec => []ValidDocumentIsRunnable
<1>1. ParserInv /\ ConditionsRead => ValidDocumentIsRunnable
  <2> SUFFICES ASSUME ParserInv, ConditionsRead
               PROVE  Compiler!ValidGraphIsRunnable
    BY DEF ValidDocumentIsRunnable
  <2>1. Compiled!CompilerOK
    BY DeploymentAssumption DEF Compiled!CompilerOK, Compiler!CompilerOK,
       Compiled!Attribute, Compiler!Attribute
  <2>2. Compiled!ValidGraphIsRunnable
    BY <2>1, ParsedIsProcess, Compiled!ValidCompiles
  <2> QED
    BY <2>2, SameCompiler
<1> QED
  BY <1>1, DeploymentInvariant, PTL

(* A gateway of such a document takes a flow whose condition is true, the  *)
(* default flow only if no condition is true, and a flow without condition *)
(* only if there is no other (validate.rs 99-134, gateway.rs 42-113).      *)
THEOREM DocumentsRoute == Spec => []DocumentRoutesByConditions
<1>1. ParserInv /\ ConditionsRead => DocumentRoutesByConditions
  <2> SUFFICES ASSUME ParserInv, ConditionsRead
               PROVE  Compiler!RoutesByConditions
    BY DEF DocumentRoutesByConditions
  <2>1. Compiled!CompilerOK
    BY DeploymentAssumption DEF Compiled!CompilerOK, Compiler!CompilerOK,
       Compiled!Attribute, Compiler!Attribute
  <2>2. Compiled!RoutesByConditions
    BY <2>1, ParsedIsProcess, Compiled!ValidRoutes
  <2> QED
    BY <2>2, SameCompiler
<1> QED
  BY <1>1, DeploymentInvariant, PTL
=============================================================================
