----------------------------- MODULE FeelProofs -----------------------------
(***************************************************************************)
(* Theorems about the expression language: what the lexer, the parser and  *)
(* the evaluator do with every expression.                                 *)
(*                                                                         *)
(* Their definitions are recursive functions.  Each of them only refers to *)
(* itself at arguments of a smaller rank, a natural number: the rest of a  *)
(* text, the rest of the tokens or a higher level, the operands of a node. *)
(* RankRecursion shows from the well-foundedness of < that such a function *)
(* exists, so that it satisfies its equation, and RankInduction proves     *)
(* what holds of all its arguments.                                        *)
(***************************************************************************)
EXTENDS FeelLexer, FeelParser, FeelEval, SequenceTheorems, WellFoundedInduction, TLAPS

-----------------------------------------------------------------------------
(* Recursion along a rank.                                                 *)

(* A set of natural numbers has a least element.                           *)
LEMMA LeastOf ==
  ASSUME NEW S, S \subseteq Nat, S # {}
  PROVE  \E k \in S : \A j \in S : k <= j
<1> DEFINE R == OpToRel(<, Nat)
<1>1. IsWellFoundedOn(R, Nat)
  BY NatLessThanWellFounded
<1> HIDE DEF R
<1>2. PICK k \in S : \A j \in S : ~ (<<j, k>> \in R)
  BY <1>1, WFMin
<1>3. \A j \in S : ~ (j < k)
  BY <1>2 DEF R, OpToRel
<1> QED
  BY <1>3

(* What holds of an element when it holds of those of lower rank, holds of *)
(* all of them.                                                            *)
LEMMA RankInduction ==
  ASSUME NEW S, NEW rank \in [S -> Nat], NEW A,
         \A k \in S : (\A j \in S : rank[j] < rank[k] => j \in A) => k \in A
  PROVE  S \subseteq A
<1> DEFINE ranks == {rank[k] : k \in S \ A}
<1>1. SUFFICES ASSUME S \ A # {}
               PROVE  FALSE
  OBVIOUS
<1>2. ranks \subseteq Nat /\ ranks # {}
  BY <1>1
<1>3. PICK r \in ranks : \A j \in ranks : r <= j
  BY <1>2, LeastOf
<1>4. PICK k \in S \ A : rank[k] = r
  BY <1>3
<1>5. ASSUME NEW j \in S, rank[j] < rank[k]
      PROVE  j \in A
  <2>1. rank[j] \in Nat /\ rank[k] \in Nat
    OBVIOUS
  <2>2. ~ (rank[k] <= rank[j])
    BY <1>5, <2>1
  <2> QED
    BY <1>3, <1>4, <2>2
<1> QED
  BY <1>4, <1>5

(* A recursive definition of a function from S to V: its value at an       *)
(* element depends only on its values at elements of lower rank.           *)
Grounded(S, top, rank, V, v, G) ==
  /\ top \in Nat /\ rank \in [S -> 0..top] /\ v \in V
  /\ G \in [S \X [S -> V] -> V]
  /\ \A k \in S : \A g, h \in [S -> V] :
       (\A j \in S : rank[j] < rank[k] => g[j] = h[j]) => G[<<k, g>>] = G[<<k, h>>]

(* There is such a function.                                               *)
LEMMA RankRecursion ==
  ASSUME NEW S, NEW top, NEW rank, NEW V, NEW v, NEW G, Grounded(S, top, rank, V, v, G)
  PROVE  \E f \in [S -> V] : \A k \in S : f[k] = G[<<k, f>>]
<1> USE DEF Grounded
<1> DEFINE Follows(f, m) == \A k \in S : rank[k] < m => f[k] = G[<<k, f>>]
           A == {m \in Nat : \E f \in [S -> V] : Follows(f, m)}
           T == 0..(top + 1)
           id == [m \in T |-> m]
<1>1. 0 \in A
  <2> DEFINE f == [k \in S |-> v]
  <2>1. f \in [S -> V] /\ Follows(f, 0)
    OBVIOUS
  <2> QED
    BY <2>1
<1>2. ASSUME NEW m \in 0..top, m \in A
      PROVE  m + 1 \in A
  <2>1. PICK f \in [S -> V] : Follows(f, m)
    BY <1>2
  <2> DEFINE h == [k \in S |-> IF rank[k] = m THEN G[<<k, f>>] ELSE f[k]]
  <2>2. h \in [S -> V]
    OBVIOUS
  <2>3. ASSUME NEW k \in S, rank[k] < m + 1
        PROVE  h[k] = G[<<k, h>>]
    <3>1. \A j \in S : rank[j] < rank[k] => f[j] = h[j]
      BY <2>3
    <3>2. G[<<k, f>>] = G[<<k, h>>]
      BY <2>2, <3>1
    <3>3. h[k] = G[<<k, f>>]
      BY <2>1, <2>3
    <3> QED
      BY <3>2, <3>3
  <2> HIDE DEF h
  <2>4. Follows(h, m + 1)
    BY <2>3
  <2> QED
    BY <2>2, <2>4
<1>3. T \subseteq A
  <2>1. id \in [T -> Nat]
    OBVIOUS
  <2>2. ASSUME NEW m \in T, \A j \in T : id[j] < id[m] => j \in A
        PROVE  m \in A
    <3>1. CASE m = 0
      BY <1>1, <3>1
    <3>2. CASE m # 0
      <4>1. m - 1 \in 0..top /\ m - 1 \in T /\ m - 1 < m /\ (m - 1) + 1 = m
        BY <3>2
      <4>2. m - 1 \in A
        BY <2>2, <4>1
      <4> HIDE DEF A
      <4> QED
        BY <1>2, <4>1, <4>2
    <3> QED
      BY <3>1, <3>2
  <2> HIDE DEF A, id, T
  <2> QED
    BY <2>1, <2>2, RankInduction
<1>4. PICK f \in [S -> V] : Follows(f, top + 1)
  <2>1. top + 1 \in T
    OBVIOUS
  <2>2. top + 1 \in A
    BY <1>3, <2>1
  <2> QED
    BY <2>2
<1>5. \A k \in S : rank[k] < top + 1
  <2>1. \A k \in S : rank[k] \in 0..top
    OBVIOUS
  <2> QED
    BY <2>1
<1> QED
  BY <1>4, <1>5

-----------------------------------------------------------------------------
(* What the operators of the evaluator answer.                             *)

(* What an expression may answer: a value or an error.                     *)
Answer == FeelValue \cup {Error}

(* The parts of an answer.                                                 *)
LEMMA Kinds ==
  ASSUME NEW v \in Answer
  PROVE  /\ IsNum(v) => v[2] \in Int /\ v[3] \in Nat \ {0}
         /\ IsBool(v) => v[2] \in BOOLEAN /\ v = Bool(v[2])
         /\ v = Error => ~IsNum(v) /\ ~IsBool(v)
<1>1. CASE v \in {"num"} \X Int \X (Nat \ {0})
  BY <1>1 DEF IsNum, IsBool, Error
<1>2. CASE v \in {"bool"} \X BOOLEAN
  BY <1>2 DEF IsNum, IsBool, Error, Bool
<1>3. CASE v \in {"str"} \X STRING
  BY <1>3 DEF IsNum, IsBool, Error
<1>4. CASE v \in {Null, Error}
  BY <1>4 DEF IsNum, IsBool, Error, Null
<1> QED
  BY <1>1, <1>2, <1>3, <1>4 DEF Answer, FeelValue

(* A fraction is a number whatever the sign of its denominator.            *)
LEMMA Fractions ==
  ASSUME NEW n \in Int, NEW d \in Int, d # 0
  PROVE  Fraction(n, d) \in Answer
<1>1. CASE d < 0
  BY <1>1 DEF Fraction, Answer, FeelValue
<1>2. CASE ~(d < 0)
  BY <1>2 DEF Fraction, Answer, FeelValue
<1> QED
  BY <1>1, <1>2

(* The truth values are answers.                                           *)
LEMMA Truths ==
  /\ Error \in Answer
  /\ \A b \in BOOLEAN : Bool(b) \in Answer /\ IsBool(Bool(b)) /\ Bool(b)[2] = b
  /\ \A b, c \in BOOLEAN : (Bool(b) = Bool(c)) = (b = c)
  /\ \A b \in BOOLEAN : Bool(b) # Error
BY DEF Answer, FeelValue, Bool, IsBool, Error

(* The product of two denominators is one.                                 *)
LEMMA Products ==
  ASSUME NEW m \in Nat \ {0}, NEW n \in Nat \ {0}
  PROVE  m * n \in Nat \ {0}
OBVIOUS

(* Arithmetic answers a number or an error.                                *)
LEMMA Calculated ==
  ASSUME NEW op \in Arithmetic, NEW v \in Answer, NEW w \in Answer, IsNum(v), IsNum(w)
  PROVE  Calculate(op, v, w) \in Answer
<1> DEFINE a == v[2]
           b == v[3]
           c == w[2]
           d == w[3]
<1>1. a \in Int /\ b \in Nat \ {0} /\ c \in Int /\ d \in Nat \ {0}
  BY Kinds
<1> HIDE DEF a, b, c, d
<1>2. b * d \in Int /\ b * d # 0
  BY <1>1, Products
<1>3. a * d + c * b \in Int /\ a * d - c * b \in Int /\ a * c \in Int /\ a * d \in Int
  BY <1>1
<1>4. CASE op = "add"
  BY <1>2, <1>3, <1>4, Fractions DEF Calculate, a, b, c, d
<1>5. CASE op = "sub"
  BY <1>2, <1>3, <1>5, Fractions DEF Calculate, a, b, c, d
<1>6. CASE op = "mul"
  BY <1>2, <1>3, <1>6, Fractions DEF Calculate, a, b, c, d
<1>7. CASE op = "div"
  <2>1. CASE c = 0
    BY <1>7, <2>1, Truths DEF Calculate, c
  <2>2. CASE c # 0
    <3>1. b * c \in Int /\ b * c # 0
      BY <1>1, <2>2
    <3> QED
      BY <1>3, <1>7, <2>2, <3>1, Fractions DEF Calculate, a, b, c, d
  <2> QED
    BY <2>1, <2>2
<1> QED
  BY <1>4, <1>5, <1>6, <1>7 DEF Arithmetic

(* The operators that evaluate both sides answer a truth value, a number   *)
(* or an error.                                                            *)
LEMMA Applied ==
  ASSUME NEW op \in BinOp \ {"and", "or"}, NEW v \in Answer, NEW w \in Answer
  PROVE  Apply(op, v, w) \in Answer
<1> DEFINE equal == Bool(Equal(v, w))
           unequal == Bool(~Equal(v, w))
           other == IF ~(IsNum(v) /\ IsNum(w)) THEN Error
                    ELSE IF op \in Comparison THEN Bool(Compare(op, v, w))
                         ELSE Calculate(op, v, w)
<1>4. Apply(op, v, w) = IF v = Error \/ w = Error THEN Error
                        ELSE CASE op = "eq" -> equal [] op = "ne" -> unequal [] OTHER -> other
  BY Zenon DEF Apply
<1> HIDE DEF equal, unequal, other
<1>1. CASE v = Error \/ w = Error
  BY <1>1, <1>4, Truths
<1>2. CASE ~(v = Error \/ w = Error) /\ op \in {"eq", "ne"}
  <2>1. Equal(v, w) \in BOOLEAN
    BY Zenon DEF Equal, Within
  <2>2. Apply(op, v, w) \in {equal, unequal}
    BY <1>2, <1>4
  <2>3. (~Equal(v, w)) \in BOOLEAN
    BY Zenon
  <2> QED
    BY <2>1, <2>2, <2>3, Truths DEF equal, unequal
<1>3. CASE ~(v = Error \/ w = Error) /\ op \notin {"eq", "ne"}
  <2>1. Apply(op, v, w) = IF ~(IsNum(v) /\ IsNum(w)) THEN Error
                          ELSE IF op \in Comparison THEN Bool(Compare(op, v, w))
                               ELSE Calculate(op, v, w)
    BY <1>3, <1>4 DEF other
  <2>2. CASE ~(IsNum(v) /\ IsNum(w))
    BY <2>1, <2>2, Truths
  <2>3. CASE IsNum(v) /\ IsNum(w) /\ op \in Comparison
    <3>1. Compare(op, v, w) \in BOOLEAN
      <4> DEFINE d == Difference(v, w)
      <4>3. d \in Int
        BY <2>3, Kinds DEF Difference
      <4>1. (d < 0) \in BOOLEAN /\ (d <= 0) \in BOOLEAN /\ (d > 0) \in BOOLEAN /\ (d >= 0) \in BOOLEAN
        BY <4>3
      <4>2. op \in {"lt", "le", "gt", "ge"}
        BY <2>3 DEF Comparison
      <4> HIDE DEF d
      <4> QED
        BY <4>1, <4>2 DEF Compare, d
    <3> QED
      BY <2>1, <2>3, <3>1, Truths
  <2>4. CASE IsNum(v) /\ IsNum(w) /\ op \notin Comparison
    <3>1. op \in Arithmetic
      BY <1>3, <2>4 DEF BinOp
    <3> QED
      BY <2>1, <2>4, <3>1, Calculated
  <2> QED
    BY <2>2, <2>3, <2>4
<1> QED
  BY <1>1, <1>2, <1>3

(* and, or and the negation answer a truth value or an error.              *)
LEMMA Logical ==
  ASSUME NEW v \in Answer, NEW w \in Answer, NEW d \in BOOLEAN
  PROVE  ShortCircuit(d, v, w) \in Answer /\ Negated(v) \in Answer /\ Truth(v) \in Answer
<1>1. \A x \in Answer : Truth(x) \in Answer
  BY Truths DEF Truth
<1>2. ShortCircuit(d, v, w) \in {Error, v, Truth(w)}
  BY DEF ShortCircuit
<1>3. Negated(v) \in Answer
  <2>1. CASE IsBool(v)
    <3>1. (~v[2]) \in BOOLEAN
      BY Zenon
    <3>2. Bool(~v[2]) \in Answer
      BY <3>1, Truths
    <3> QED
      BY <2>1, <3>2 DEF Negated
  <2>2. CASE ~IsBool(v)
    BY <2>2, Truths DEF Negated
  <2> QED
    BY <2>1, <2>2
<1> QED
  BY <1>1, <1>2, <1>3, Truths

LEMMA Binaries ==
  ASSUME NEW op \in BinOp, NEW v \in Answer, NEW w \in Answer
  PROVE  Binary(op, v, w) \in Answer
<1>1. CASE op = "and"
  BY <1>1, Logical DEF Binary
<1>2. CASE op = "or"
  BY <1>2, Logical DEF Binary
<1>3. CASE op \notin {"and", "or"}
  BY <1>3, Applied DEF Binary
<1> QED
  BY <1>1, <1>2, <1>3

(* A variable that is bound has one of the values.                         *)
LEMMA Bound ==
  ASSUME NEW s \in Scope, NEW x \in DOMAIN s
  PROVE  s[x] \in Answer
<1>1. PICK N \in SUBSET Name : s \in [N -> Value]
  BY DEF Scope
<1>2. s[x] \in Value
  BY <1>1
<1> QED
  BY <1>2, EvalAssumption DEF Answer

(* A node answers when its operands do, and what it answers depends on     *)
(* nothing else.                                                           *)
LEMMA NodeAnswers ==
  ASSUME IsExpression, NEW s \in Scope, NEW k \in DOMAIN expr
  PROVE  /\ \A val \in [DOMAIN expr -> Answer] : NodeValue(expr[k], val, s) \in Answer
         /\ \A f, g :
              (\A j \in DOMAIN expr : j < k => f[j] = g[j]) =>
                NodeValue(expr[k], f, s) = NodeValue(expr[k], g, s)
<1> DEFINE n == expr[k]
<1>1. n \in Node(k) /\ k \in Nat /\ Operand(k) \subseteq DOMAIN expr
      /\ \A j \in Operand(k) : j < k
  BY DEF IsExpression, Operand
<1> HIDE DEF n
<1>2. CASE n \in {"value"} \X FeelValue
  <2>1. \A val : NodeValue(n, val, s) = n[2]
    BY <1>2 DEF NodeValue
  <2>2. n[2] \in Answer
    BY <1>2 DEF Answer
  <2> QED
    BY <2>1, <2>2 DEF n
<1>3. CASE n \in {"var"} \X Name
  <2>1. \A val : NodeValue(n, val, s) = Lookup(n[2], s)
    BY <1>3 DEF NodeValue
  <2>2. Lookup(n[2], s) \in Answer
    BY Bound, Truths DEF Lookup
  <2> QED
    BY <2>1, <2>2 DEF n
<1>4. CASE n \in {"minus"} \X Operand(k)
  <2>1. n[2] \in Operand(k) /\ \A val : NodeValue(n, val, s) = Minus(val[n[2]])
    BY <1>4 DEF NodeValue
  <2>2. ASSUME NEW v \in Answer
        PROVE  Minus(v) \in Answer
    <3>1. CASE IsNum(v)
      <4>1. -v[2] \in Int /\ v[3] \in Int /\ v[3] # 0
        BY <3>1, Kinds
      <4> QED
        BY <3>1, <4>1, Fractions DEF Minus
    <3>2. CASE ~IsNum(v)
      BY <3>2, Truths DEF Minus
    <3> QED
      BY <3>1, <3>2
  <2> QED
    BY <1>1, <2>1, <2>2 DEF n
<1>5. CASE n \in {"not"} \X Operand(k)
  <2>1. n[2] \in Operand(k) /\ \A val : NodeValue(n, val, s) = Negated(val[n[2]])
    BY <1>5 DEF NodeValue
  <2>2. \A v \in Answer : Negated(v) \in Answer
    BY Logical
  <2> QED
    BY <1>1, <2>1, <2>2 DEF n
<1>6. CASE n \in {"bin"} \X BinOp \X Operand(k) \X Operand(k)
  <2>1. /\ n[2] \in BinOp /\ n[3] \in Operand(k) /\ n[4] \in Operand(k)
        /\ \A val : NodeValue(n, val, s) = Binary(n[2], val[n[3]], val[n[4]])
    BY <1>6 DEF NodeValue
  <2> QED
    BY <1>1, <2>1, Binaries DEF n
<1>7. n \in {"value"} \X FeelValue \/ n \in {"var"} \X Name \/ n \in {"minus"} \X Operand(k)
      \/ n \in {"not"} \X Operand(k) \/ n \in {"bin"} \X BinOp \X Operand(k) \X Operand(k)
  BY <1>1 DEF Node
<1> QED
  BY <1>2, <1>3, <1>4, <1>5, <1>6, <1>7

(* The evaluation of an expression gives each node the value that follows  *)
(* from those of its operands.                                             *)
LEMMA EvaluationFollows ==
  ASSUME IsExpression, NEW s \in Scope
  PROVE  /\ Evaluation(expr, s) \in [DOMAIN expr -> Answer]
         /\ \A k \in DOMAIN expr :
              Evaluation(expr, s)[k] = NodeValue(expr[k], Evaluation(expr, s), s)
<1> DEFINE S == DOMAIN expr
           rank == [k \in S |-> k]
           G == [p \in S \X [S -> Answer] |-> NodeValue(expr[p[1]], p[2], s)]
           Defined(f) == f = [k \in S |-> NodeValue(expr[k], f, s)]
<1>1. rank \in [S -> 0..Len(expr)] /\ Len(expr) \in Nat
  BY DEF IsExpression
<1>2. G \in [S \X [S -> Answer] -> Answer]
  BY NodeAnswers
<1>3. \A k \in S : \A g, h \in [S -> Answer] :
        (\A j \in S : rank[j] < rank[k] => g[j] = h[j]) => G[<<k, g>>] = G[<<k, h>>]
  <2> SUFFICES ASSUME NEW k \in S, NEW g \in [S -> Answer], NEW h \in [S -> Answer],
                      \A j \in S : rank[j] < rank[k] => g[j] = h[j]
               PROVE  G[<<k, g>>] = G[<<k, h>>]
    OBVIOUS
  <2>1. \A j \in S : j < k => g[j] = h[j]
    OBVIOUS
  <2>2. NodeValue(expr[k], g, s) = NodeValue(expr[k], h, s)
    BY <2>1, NodeAnswers
  <2> QED
    BY <2>2
<1>4. \A k \in S : \A f \in [S -> Answer] : G[<<k, f>>] = NodeValue(expr[k], f, s)
  OBVIOUS
<1>5. Error \in Answer
  BY Truths
<1> HIDE DEF G, rank, S
<1>6. PICK f \in [S -> Answer] : \A k \in S : f[k] = G[<<k, f>>]
  <2>1. Grounded(S, Len(expr), rank, Answer, Error, G)
    BY <1>1, <1>2, <1>3, <1>5 DEF Grounded
  <2> QED
    BY <2>1, RankRecursion
<1>7. Defined(f)
  BY <1>4, <1>6
<1>8. Evaluation(expr, s) = CHOOSE g : Defined(g)
  BY DEF Evaluation, S
<1> DEFINE E == Evaluation(expr, s)
<1>9. Defined(E)
  <2> HIDE DEF Defined
  <2> QED
    BY <1>7, <1>8
<1>10. E = [k \in S |-> NodeValue(expr[k], E, s)]
  BY <1>9
<1> HIDE DEF E
<1>11. \A k \in S : E[k] = NodeValue(expr[k], E, s)
  BY <1>10
<1> DEFINE A == {m \in S : E[m] = f[m]}
<1>12. \A k \in S : (\A j \in S : rank[j] < rank[k] => j \in A) => k \in A
  <2> SUFFICES ASSUME NEW k \in S, \A j \in S : rank[j] < rank[k] => E[j] = f[j]
               PROVE  E[k] = f[k]
    OBVIOUS
  <2>1. \A j \in S : j < k => E[j] = f[j]
    BY DEF rank
  <2>2. NodeValue(expr[k], E, s) = NodeValue(expr[k], f, s)
    BY <2>1, NodeAnswers DEF S
  <2> QED
    BY <1>4, <1>6, <1>11, <2>2
<1>13. S \subseteq A
  <2>1. rank \in [S -> Nat]
    BY <1>1
  <2> HIDE DEF A
  <2> QED
    BY <1>12, <2>1, RankInduction
<1>14. E \in [S -> Answer]
  BY <1>10, <1>13
<1> QED
  BY <1>11, <1>14 DEF S, E

-----------------------------------------------------------------------------
(* The properties of the evaluator.                                        *)

(* A binary operator that answers goes on answering the same when operands *)
(* that were errors become values.                                         *)
LEMMA BinaryMonotone ==
  ASSUME NEW op \in BinOp, NEW v2, NEW w2, NEW v \in {Error, v2}, NEW w \in {Error, w2}
  PROVE  Binary(op, v, w) \in {Error, Binary(op, v2, w2)}
<1>1. ~IsBool(Error) /\ Truth(Error) = Error
  BY DEF IsBool, Truth, Error
<1>2. ASSUME NEW d \in BOOLEAN
      PROVE  ShortCircuit(d, v, w) \in {Error, ShortCircuit(d, v2, w2)}
  <2> DEFINE b == Bool(d)
  <2> HIDE DEF b
  <2>1. \A x, y : ShortCircuit(d, x, y) = CASE Truth(x) = Error -> Error
                                            [] x = b -> x
                                            [] OTHER -> Truth(y)
    BY Zenon DEF ShortCircuit, b
  <2>2. CASE v = Error
    BY <1>1, <2>1, <2>2
  <2>3. CASE v = v2 /\ Truth(v) = Error
    BY <2>1, <2>3
  <2>4. CASE v = v2 /\ Truth(v) # Error /\ w = w2
    BY <2>4
  <2>5. CASE v = v2 /\ Truth(v) # Error /\ w = Error
    <3>1. CASE v = b
      <4>1. ShortCircuit(d, v, w) = v /\ ShortCircuit(d, v2, w2) = v
        <5>1. b # Error
          BY Truths DEF b
        <5> QED
          BY <2>1, <2>5, <3>1, <5>1 DEF Truth, b
      <4> QED
        BY <4>1
    <3>2. CASE v # b
      BY <1>1, <2>1, <2>5, <3>2
    <3> QED
      BY <3>1, <3>2
  <2> QED
    BY <2>2, <2>3, <2>4, <2>5
<1>3. CASE op = "and"
  BY <1>2, <1>3 DEF Binary
<1>4. CASE op = "or"
  BY <1>2, <1>4 DEF Binary
<1>5. CASE op \notin {"and", "or"}
  <2>1. Binary(op, v, w) = Apply(op, v, w) /\ Binary(op, v2, w2) = Apply(op, v2, w2)
    BY <1>5 DEF Binary
  <2>2. CASE v = Error \/ w = Error
    <3>1. Apply(op, v, w) = Error
      BY <2>2, Zenon DEF Apply
    <3> QED
      BY <2>1, <3>1
  <2>3. CASE v = v2 /\ w = w2
    BY <2>3
  <2> QED
    BY <2>1, <2>2, <2>3
<1> QED
  BY <1>3, <1>4, <1>5

(* An error gives an error, whatever is done with it.                      *)
LEMMA ErrorSpreads ==
  Minus(Error) = Error /\ Negated(Error) = Error
BY DEF Minus, Negated, IsNum, IsBool, Error

(* Property ScopeMonotone for every expression, every set of values and    *)
(* every set of names: a condition that had an answer keeps it when the    *)
(* instance gets more variables (eval.rs 14-123, gateway.rs 42-75).        *)
THEOREM AnswersAreKept ==
  ASSUME IsExpression
  PROVE  ScopeMonotone
<1> SUFFICES ASSUME expr # <<>>, NEW s \in Scope, NEW t \in Scope, Extends(t, s)
             PROVE  Evaluation(expr, s)[Len(expr)] \in {Error, Evaluation(expr, t)[Len(expr)]}
  BY DEF ScopeMonotone
<1> DEFINE S == DOMAIN expr
           before == Evaluation(expr, s)
           after == Evaluation(expr, t)
           rank == [k \in S |-> k]
           A == {k \in S : before[k] \in {Error, after[k]}}
<1>1. /\ \A k \in S : before[k] = NodeValue(expr[k], before, s)
      /\ \A k \in S : after[k] = NodeValue(expr[k], after, t)
  BY EvaluationFollows
<1>2. rank \in [S -> Nat]
  BY DEF IsExpression
<1> HIDE DEF before, after
<1>3. ASSUME NEW k \in S, \A j \in S : rank[j] < rank[k] => before[j] \in {Error, after[j]}
      PROVE  before[k] \in {Error, after[k]}
  <2> DEFINE n == expr[k]
  <2>1. n \in Node(k) /\ k \in Nat /\ \A j \in Operand(k) : before[j] \in {Error, after[j]}
    <3>1. n \in Node(k) /\ k \in Nat /\ \A j \in Operand(k) : j \in S /\ j < k
      BY DEF IsExpression, Operand
    <3> QED
      BY <1>3, <3>1
  <2>2. before[k] = NodeValue(n, before, s) /\ after[k] = NodeValue(n, after, t)
    BY <1>1
  <2> HIDE DEF n, S
  <2>3. CASE n \in {"value"} \X FeelValue
    <3>1. NodeValue(n, before, s) = n[2] /\ NodeValue(n, after, t) = n[2]
      BY <2>3 DEF NodeValue
    <3> QED
      BY <2>2, <3>1
  <2>4. CASE n \in {"var"} \X Name
    <3>1. NodeValue(n, before, s) = Lookup(n[2], s) /\ NodeValue(n, after, t) = Lookup(n[2], t)
      BY <2>4 DEF NodeValue
    <3>2. Lookup(n[2], s) \in {Error, Lookup(n[2], t)}
      BY DEF Lookup, Extends
    <3> QED
      BY <2>2, <3>1, <3>2
  <2>5. CASE n \in {"minus"} \X Operand(k)
    <3>1. /\ n[2] \in Operand(k) /\ NodeValue(n, before, s) = Minus(before[n[2]])
          /\ NodeValue(n, after, t) = Minus(after[n[2]])
      BY <2>5 DEF NodeValue
    <3>2. Minus(before[n[2]]) \in {Error, Minus(after[n[2]])}
      BY <2>1, <3>1, ErrorSpreads
    <3> QED
      BY <2>2, <3>1, <3>2
  <2>6. CASE n \in {"not"} \X Operand(k)
    <3>1. /\ n[2] \in Operand(k) /\ NodeValue(n, before, s) = Negated(before[n[2]])
          /\ NodeValue(n, after, t) = Negated(after[n[2]])
      BY <2>6 DEF NodeValue
    <3>2. Negated(before[n[2]]) \in {Error, Negated(after[n[2]])}
      BY <2>1, <3>1, ErrorSpreads
    <3> QED
      BY <2>2, <3>1, <3>2
  <2>7. CASE n \in {"bin"} \X BinOp \X Operand(k) \X Operand(k)
    <3>1. /\ n[2] \in BinOp /\ n[3] \in Operand(k) /\ n[4] \in Operand(k)
          /\ NodeValue(n, before, s) = Binary(n[2], before[n[3]], before[n[4]])
          /\ NodeValue(n, after, t) = Binary(n[2], after[n[3]], after[n[4]])
      BY <2>7 DEF NodeValue
    <3>2. NodeValue(n, before, s) \in {Error, NodeValue(n, after, t)}
      BY <2>1, <3>1, BinaryMonotone
    <3> QED
      BY <2>2, <3>2
  <2>8. n \in {"value"} \X FeelValue \/ n \in {"var"} \X Name \/ n \in {"minus"} \X Operand(k)
        \/ n \in {"not"} \X Operand(k) \/ n \in {"bin"} \X BinOp \X Operand(k) \X Operand(k)
    BY <2>1 DEF Node
  <2> QED
    BY <2>3, <2>4, <2>5, <2>6, <2>7, <2>8
<1>4. \A k \in S : (\A j \in S : rank[j] < rank[k] => j \in A) => k \in A
  BY <1>3
<1>5. Len(expr) \in S
  BY DEF IsExpression
<1> HIDE DEF S, A, rank
<1>6. S \subseteq A
  BY <1>2, <1>4, RankInduction
<1>7. Len(expr) \in A
  BY <1>5, <1>6
<1> QED
  BY <1>7 DEF A, before, after

(* Property DeMorgan for every expression (eval.rs 42-46, 59-74).          *)
THEOREM DeMorgansLaw ==
  ASSUME IsExpression
  PROVE  DeMorgan
<1>1. ASSUME NEW v \in Answer, NEW w \in Answer
      PROVE  Negated(Binary("and", v, w)) = Binary("or", Negated(v), Negated(w))
  <2>1. \A x, y : /\ Binary("and", x, y) = ShortCircuit(FALSE, x, y)
                  /\ Binary("or", x, y) = ShortCircuit(TRUE, x, y)
    BY DEF Binary
  <2> DEFINE no == Bool(FALSE)
             yes == Bool(TRUE)
  <2>6. /\ no # yes /\ no # Error /\ yes # Error
        /\ Truth(no) = no /\ Truth(yes) = yes /\ Negated(no) = yes /\ Negated(yes) = no
    <3>1. IsBool(no) /\ IsBool(yes) /\ no # yes /\ no # Error /\ yes # Error
      BY Truths
    <3>2. no[2] = FALSE /\ yes[2] = TRUE
      BY Truths
    <3>3. Bool(~no[2]) = yes /\ Bool(~yes[2]) = no
      BY <3>2, Zenon
    <3> HIDE DEF no, yes
    <3> QED
      BY <3>1, <3>3 DEF Truth, Negated
  <2>7. \A x, y : /\ Binary("and", x, y) = CASE Truth(x) = Error -> Error
                                                   [] x = no -> x [] OTHER -> Truth(y)
                  /\ Binary("or", x, y) = CASE Truth(x) = Error -> Error
                                                  [] x = yes -> x [] OTHER -> Truth(y)
    <3>1. "and" # "or"
      OBVIOUS
    <3> QED
      BY <2>1, <3>1, Zenon DEF ShortCircuit
  <2> HIDE DEF no, yes
  <2>2. CASE ~IsBool(v)
    <3>1. Truth(v) = Error /\ Negated(v) = Error /\ Truth(Error) = Error
      BY <2>2, ErrorSpreads DEF Truth, Negated
    <3> QED
      BY <2>7, <3>1, ErrorSpreads
  <2>3. CASE v = no
    BY <2>3, <2>6, <2>7
  <2>4. CASE v = yes
    <3>1. Binary("and", v, w) = Truth(w) /\ Negated(v) = no
      BY <2>4, <2>6, <2>7
    <3>2. Binary("or", Negated(v), Negated(w)) = Truth(Negated(w))
      BY <2>6, <2>7, <3>1
    <3>3. Negated(Truth(w)) = Truth(Negated(w))
      <4>1. CASE ~IsBool(w)
        BY <4>1, ErrorSpreads DEF Truth, Negated
      <4>2. CASE IsBool(w)
        <5>1. w[2] \in BOOLEAN
          BY <4>2, Kinds
        <5>2. (~w[2]) \in BOOLEAN
          BY Zenon
        <5>3. IsBool(Negated(w))
          BY <4>2, <5>2, Truths DEF Negated
        <5> QED
          BY <4>2, <5>3 DEF Truth
      <4> QED
        BY <4>1, <4>2
    <3> QED
      BY <3>1, <3>2, <3>3
  <2>5. ~IsBool(v) \/ v = no \/ v = yes
    BY Kinds DEF no, yes
  <2> QED
    BY <2>2, <2>3, <2>4, <2>5
<1>2. ASSUME NEW s \in Scope, NEW i \in DOMAIN expr
      PROVE  Evaluation(expr, s)[i] \in Answer
  BY EvaluationFollows
<1> QED
  BY <1>1, <1>2 DEF DeMorgan

(* Property Trichotomy for every expression (eval.rs 79-84, 101-113).      *)
THEOREM NumbersCompare ==
  ASSUME IsExpression
  PROVE  Trichotomy
<1>1. ASSUME NEW v \in Answer, NEW w \in Answer, Binary("lt", v, w) # Error
      PROVE  Compared(v, w)
  <2>1. IsNum(v) /\ IsNum(w) /\ v # Error /\ w # Error
    <3>1. Apply("lt", v, w) # Error
      BY <1>1 DEF Binary
    <3>2. v # Error /\ w # Error
      BY <3>1, Zenon DEF Apply
    <3>3. ~(IsNum(v) /\ IsNum(w)) => Apply("lt", v, w) = Error
      BY <3>2 DEF Apply
    <3> QED
      BY <3>1, <3>2, <3>3
  <2>2. ASSUME NEW x \in Answer, NEW y \in Answer, IsNum(x), IsNum(y), x # Error, y # Error
        PROVE  /\ (Binary("lt", x, y) = Bool(TRUE)) <=> (Difference(x, y) < 0)
               /\ (Binary("le", x, y) = Bool(TRUE)) <=> (Difference(x, y) <= 0)
               /\ (Binary("gt", x, y) = Bool(TRUE)) <=> (Difference(x, y) > 0)
               /\ (Binary("ge", x, y) = Bool(TRUE)) <=> (Difference(x, y) >= 0)
               /\ (Binary("eq", x, y) = Bool(TRUE)) <=> Within(x, y)
               /\ (Binary("ne", x, y) = Bool(TRUE)) <=> ~Within(x, y)
    <3>1. ASSUME NEW op \in Comparison
          PROVE  Binary(op, x, y) = Bool(Compare(op, x, y))
      <4>1. op \notin {"eq", "ne", "and", "or"}
        BY <3>1 DEF Comparison
      <4> DEFINE c == Bool(Compare(op, x, y))
                 equal == Bool(Equal(x, y))
                 unequal == Bool(~Equal(x, y))
      <4>2. Apply(op, x, y) = CASE op = "eq" -> equal [] op = "ne" -> unequal [] OTHER -> c
        BY <2>2, <3>1, Zenon DEF Apply
      <4> HIDE DEF c, equal, unequal
      <4>3. Apply(op, x, y) = c
        BY <4>1, <4>2
      <4> QED
        BY <4>1, <4>3 DEF Binary, c
    <3>2. /\ Binary("eq", x, y) = Bool(Equal(x, y))
          /\ Binary("ne", x, y) = Bool(~Equal(x, y))
      <4> DEFINE equal == Bool(Equal(x, y))
                 unequal == Bool(~Equal(x, y))
      <4>1. Apply("eq", x, y) = equal
        BY <2>2, Zenon DEF Apply
      <4>2. Apply("ne", x, y) = unequal
        <5>1. "ne" # "eq"
          OBVIOUS
        <5> QED
          BY <2>2, <5>1, Zenon DEF Apply
      <4> HIDE DEF equal, unequal
      <4> QED
        BY <4>1, <4>2 DEF Binary, equal, unequal
    <3>3. Equal(x, y) = Within(x, y)
      BY <2>2 DEF Equal
    <3>4. /\ Compare("lt", x, y) = (Difference(x, y) < 0)
          /\ Compare("le", x, y) = (Difference(x, y) <= 0)
          /\ Compare("gt", x, y) = (Difference(x, y) > 0)
          /\ Compare("ge", x, y) = (Difference(x, y) >= 0)
      BY DEF Compare
    <3>5. ASSUME NEW b \in BOOLEAN
          PROVE  (Bool(b) = Bool(TRUE)) <=> b
      BY Truths
    <3>6. /\ Binary("lt", x, y) = Bool(Compare("lt", x, y))
          /\ Binary("le", x, y) = Bool(Compare("le", x, y))
          /\ Binary("gt", x, y) = Bool(Compare("gt", x, y))
          /\ Binary("ge", x, y) = Bool(Compare("ge", x, y))
      BY <3>1 DEF Comparison
    <3> DEFINE lt == Difference(x, y) < 0
               le == Difference(x, y) <= 0
               gt == Difference(x, y) > 0
               ge == Difference(x, y) >= 0
               eq == Within(x, y)
               ne == ~Within(x, y)
    <3>7. /\ Binary("lt", x, y) = Bool(lt) /\ Binary("le", x, y) = Bool(le)
          /\ Binary("gt", x, y) = Bool(gt) /\ Binary("ge", x, y) = Bool(ge)
          /\ Binary("eq", x, y) = Bool(eq) /\ Binary("ne", x, y) = Bool(ne)
      BY <3>2, <3>3, <3>4, <3>6, Zenon
    <3>8. lt \in BOOLEAN /\ le \in BOOLEAN /\ gt \in BOOLEAN /\ ge \in BOOLEAN
      <4> DEFINE d == Difference(x, y)
      <4>1. d \in Int
        BY <2>2, Kinds DEF Difference
      <4> HIDE DEF d
      <4> QED
        BY <4>1
    <3>9. eq \in BOOLEAN /\ ne \in BOOLEAN
      BY Zenon DEF Within
    <3> HIDE DEF lt, le, gt, ge, eq, ne
    <3>10. /\ (Bool(lt) = Bool(TRUE) <=> lt) /\ (Bool(le) = Bool(TRUE) <=> le)
           /\ (Bool(gt) = Bool(TRUE) <=> gt) /\ (Bool(ge) = Bool(TRUE) <=> ge)
           /\ (Bool(eq) = Bool(TRUE) <=> eq) /\ (Bool(ne) = Bool(TRUE) <=> ne)
      BY <3>5, <3>8, <3>9
    <3> QED
      BY <3>7, <3>10, Zenon DEF lt, le, gt, ge, eq, ne
  <2> DEFINE d == Difference(v, w)
             e == Difference(w, v)
             m == v[3] * w[3]
  <2>3. d \in Int /\ e = -d /\ m \in Nat \ {0} /\ w[3] * v[3] = m
    BY <2>1, Kinds, Products DEF Difference
  <2>4. (Within(v, w) <=> d * Small < m /\ (-d) * Small < m)
        /\ (Within(w, v) <=> d * Small < m /\ (-d) * Small < m)
    <3>1. Small \in Int
      BY EvalAssumption
    <3>2. Within(v, w) <=> 1 * d * Small < m /\ (-1) * d * Small < m
      BY DEF Within
    <3>3. Within(w, v) <=> 1 * e * Small < w[3] * v[3] /\ (-1) * e * Small < w[3] * v[3]
      BY DEF Within
    <3> HIDE DEF d, e, m
    <3> QED
      BY <2>3, <3>1, <3>2, <3>3
  <2>5. d = 0 => Within(v, w)
    <3>1. d = 0 => d * Small = 0 /\ (-d) * Small = 0
      <4>1. Small \in Int
        BY EvalAssumption
      <4> HIDE DEF d
      <4> QED
        BY <4>1
    <3> QED
      BY <2>3, <2>4, <3>1
  <2>6. /\ (Binary("lt", v, w) = Bool(TRUE)) <=> (d < 0)
        /\ (Binary("le", v, w) = Bool(TRUE)) <=> (d <= 0)
        /\ (Binary("gt", v, w) = Bool(TRUE)) <=> (d > 0)
        /\ (Binary("ge", v, w) = Bool(TRUE)) <=> (d >= 0)
        /\ (Binary("eq", v, w) = Bool(TRUE)) <=> Within(v, w)
        /\ (Binary("ne", v, w) = Bool(TRUE)) <=> ~Within(v, w)
        /\ (Binary("gt", w, v) = Bool(TRUE)) <=> (e > 0)
        /\ (Binary("eq", w, v) = Bool(TRUE)) <=> Within(w, v)
    BY <2>1, <2>2
  <2>7. /\ (d < 0 <=> ~(d >= 0)) /\ (d > 0 <=> ~(d <= 0)) /\ (d < 0 <=> e > 0)
        /\ d < 0 \/ d > 0 \/ d = 0
        /\ ~(d < 0 /\ d > 0) /\ (d < 0 \/ d > 0 => d # 0)
    <3> HIDE DEF d, e, m
    <3> QED
      BY <2>3
  <2> QED
    BY <2>4, <2>5, <2>6, <2>7, Zenon DEF Compared
<1>2. ASSUME NEW s \in Scope, NEW i \in DOMAIN expr
      PROVE  Evaluation(expr, s)[i] \in Answer
  BY EvaluationFollows
<1>3. \A v, w \in Answer : Compared(v, w)
  <2>1. \A v, w : Binary("lt", v, w) = Error => Compared(v, w)
    BY Zenon DEF Compared
  <2> QED
    BY <1>1, <2>1
<1> QED
  BY <1>2, <1>3 DEF Trichotomy

-----------------------------------------------------------------------------
(* The lexer: strings.                                                     *)

(* The characters of a text and the end of it.                             *)
LEMMA TextShape ==
  ASSUME NEW cs \in Seq(Char)
  PROVE  /\ Len(cs) \in Nat /\ DOMAIN cs = 1..Len(cs)
         /\ \A k \in 1..Len(cs) : At(cs, k) = cs[k] /\ cs[k] \in Char /\ cs[k] # "end"
         /\ At(cs, Len(cs) + 1) = "end"
<1>1. Len(cs) \in Nat /\ DOMAIN cs = 1..Len(cs)
  OBVIOUS
<1>2. \A k \in 1..Len(cs) : cs[k] \in Char
  <2> DEFINE R == Char
  <2>1. cs \in Seq(R)
    OBVIOUS
  <2> HIDE DEF R
  <2>2. \A k \in 1..Len(cs) : cs[k] \in R
    BY <2>1
  <2> QED
    BY <2>2 DEF R
<1>3. "end" \notin Char
  BY DEF Char
<1> QED
  BY <1>1, <1>2, <1>3 DEF At

(* What a string is from position k on, given what it is further on.       *)
StringStep(cs, f, k) ==
  CASE At(cs, k) = "end" -> [to |-> 0, text |-> {}]
    [] At(cs, k) = "q" -> [to |-> k, text |-> {}]
    [] OTHER -> LET next == k + Width(cs, k)
                IN [to |-> f[next].to, text |-> f[next].text \cup {<<next - 1, Pushed(cs, k)>>}]

(* Where the scan of a string goes on is further on in the text.           *)
LEMMA Widths ==
  ASSUME NEW cs \in Seq(Char), NEW k \in 1..Len(cs)
  PROVE  /\ k + Width(cs, k) \in 1..(Len(cs) + 1) /\ k < k + Width(cs, k)
         /\ Width(cs, k) \in {1, 2}
<1>1. Len(cs) \in Nat
  BY TextShape
<1> QED
  BY <1>1 DEF Width

LEMMA StringFollows ==
  ASSUME NEW cs \in Seq(Char)
  PROVE  \A k \in 1..(Len(cs) + 1) : String(cs)[k] = StringStep(cs, String(cs), k)
<1> DEFINE n == Len(cs)
           S == 1..(n + 1)
           Pair == {<<m, Pushed(cs, l)>> : m \in Nat, l \in S}
           V == [to : Nat, text : SUBSET Pair]
           none == [to |-> 0, text |-> {}]
           rank == [k \in S |-> n + 1 - k]
           G == [p \in S \X [S -> V] |-> StringStep(cs, p[2], p[1])]
           Defined(f) == f = [k \in S |-> StringStep(cs, f, k)]
<1>1. n \in Nat
  BY TextShape
<1> HIDE DEF n
<1>2. rank \in [S -> 0..n] /\ \A k \in S : rank[k] = n + 1 - k
  BY <1>1
<1>3. \A k \in S : k \in Nat /\ (At(cs, k) # "end" => k + Width(cs, k) \in S /\ k < k + Width(cs, k))
  <2> TAKE k \in S
  <2>1. k \in 1..n \/ k = n + 1
    BY <1>1
  <2> QED
    BY <1>1, <2>1, TextShape, Widths DEF n
<1>4. ASSUME NEW k \in S, NEW f \in [S -> V]
      PROVE  StringStep(cs, f, k) \in V
  <2> DEFINE next == k + Width(cs, k)
  <2>1. CASE At(cs, k) = "end"
    BY <2>1 DEF StringStep
  <2>2. CASE At(cs, k) = "q"
    BY <1>3, <2>2 DEF StringStep
  <2>3. CASE At(cs, k) # "end" /\ At(cs, k) # "q"
    <3>1. next \in S /\ next - 1 \in Nat
      BY <1>3, <2>3
    <3>2. f[next] \in V
      BY <3>1
    <3> HIDE DEF next
    <3>3. <<next - 1, Pushed(cs, k)>> \in Pair
      BY <3>1
    <3> HIDE DEF Pair
    <3>4. f[next].to \in Nat /\ f[next].text \cup {<<next - 1, Pushed(cs, k)>>} \in SUBSET Pair
      BY <3>2, <3>3
    <3>5. StringStep(cs, f, k) = [to |-> f[next].to,
                                  text |-> f[next].text \cup {<<next - 1, Pushed(cs, k)>>}]
      BY <2>3 DEF StringStep, next
    <3> QED
      BY <3>4, <3>5
  <2> QED
    BY <2>1, <2>2, <2>3
<1> HIDE DEF Pair
<1>5. ASSUME NEW k \in S, NEW g, NEW h, \A j \in S : rank[j] < rank[k] => g[j] = h[j]
      PROVE  StringStep(cs, g, k) = StringStep(cs, h, k)
  <2>1. CASE At(cs, k) \in {"end", "q"}
    BY <2>1 DEF StringStep
  <2>2. CASE At(cs, k) \notin {"end", "q"}
    <3> DEFINE next == k + Width(cs, k)
    <3>1. next \in S /\ k < next
      BY <1>3, <2>2
    <3>2. rank[next] < rank[k]
      BY <1>1, <1>2, <3>1
    <3>3. g[next] = h[next]
      BY <1>5, <3>1, <3>2
    <3> QED
      BY <2>2, <3>3 DEF StringStep
  <2> QED
    BY <2>1, <2>2
<1>6. Grounded(S, n, rank, V, none, G)
  <2>1. none \in V
    OBVIOUS
  <2>2. G \in [S \X [S -> V] -> V]
    BY <1>4
  <2>3. \A k \in S : \A g, h \in [S -> V] :
          (\A j \in S : rank[j] < rank[k] => g[j] = h[j]) => G[<<k, g>>] = G[<<k, h>>]
    <3> HIDE DEF S, V, rank
    <3> QED
      BY <1>5
  <2> HIDE DEF S, V, rank, G, none
  <2> QED
    BY <1>1, <1>2, <2>1, <2>2, <2>3 DEF Grounded
<1>7. PICK f \in [S -> V] : \A k \in S : f[k] = G[<<k, f>>]
  <2> HIDE DEF S, V, rank, none, G
  <2> QED
    BY <1>6, RankRecursion
<1>8. Defined(f)
  <2> HIDE DEF S, V
  <2> QED
    BY <1>7
<1>9. String(cs) = CHOOSE g : Defined(g)
  BY DEF String, StringStep, n
<1> DEFINE E == String(cs)
<1>10. Defined(E)
  <2> HIDE DEF Defined
  <2> QED
    BY <1>8, <1>9
<1> HIDE DEF E
<1>11. \A k \in S : E[k] = StringStep(cs, E, k)
  BY <1>10
<1> QED
  BY <1>11 DEF E, n

(* An odd number of backslashes ends right before position m, none of them *)
(* before position k.                                                      *)
EscapedFrom(cs, k, m) ==
  \E n \in 1..(m - k) : /\ n % 2 = 1 /\ (m - n = k \/ cs[m - n - 1] # "b")
                        /\ \A l \in (m - n)..(m - 1) : cs[l] = "b"

(* In a string only the backslashes after the opening quote count.         *)
LEMMA EscapedInString ==
  ASSUME NEW cs, NEW i \in Nat, NEW m \in Nat, i < m, cs[i] = "q"
  PROVE  Escaped(cs, i, m) <=> EscapedFrom(cs, i + 1, m)
<1>1. m - i - 1 = m - (i + 1)
  OBVIOUS
<1>2. \A n \in 1..(m - i - 1) : m - n = i + 1 => m - n - 1 = i
  OBVIOUS
<1>3. cs[i] # "b"
  OBVIOUS
<1> QED
  BY <1>1, <1>2, <1>3 DEF Escaped, EscapedFrom

(* What is escaped is the same seen from the place where the scan goes on; *)
(* in between, the character a backslash takes with it is.                 *)
LEMMA EscapedFurtherOn ==
  ASSUME NEW cs \in Seq(Char), NEW k \in 1..Len(cs)
  PROVE  LET next == k + Width(cs, k)
         IN  /\ \A m \in next..Len(cs) : EscapedFrom(cs, k, m) <=> EscapedFrom(cs, next, m)
             /\ ~EscapedFrom(cs, k, k)
             /\ Width(cs, k) = 2 => cs[k] = "b" /\ EscapedFrom(cs, k, k + 1)
<1> DEFINE next == k + Width(cs, k)
<1>1. Len(cs) \in Nat /\ k \in Nat
  BY TextShape
<1>2. ~EscapedFrom(cs, k, k)
  BY <1>1 DEF EscapedFrom
<1>3. CASE Width(cs, k) = 1
  <2>1. next = k + 1
    BY <1>3
  <2>2. cs[k] # "b" \/ k = Len(cs)
    BY <1>1, <1>3 DEF Width
  <2>3. ASSUME NEW m \in next..Len(cs)
        PROVE  EscapedFrom(cs, k, m) <=> EscapedFrom(cs, next, m)
    <3>1. m \in Nat /\ k + 1 <= m /\ cs[k] # "b"
      BY <1>1, <2>1, <2>2
    <3>2. ASSUME NEW n \in 1..(m - k), n % 2 = 1, m - n = k \/ cs[m - n - 1] # "b",
                 \A l \in (m - n)..(m - 1) : cs[l] = "b"
          PROVE  EscapedFrom(cs, k + 1, m)
      <4>1. m - n # k
        <5>1. m - n = k => k \in (m - n)..(m - 1)
          BY <1>1, <3>1
        <5> QED
          BY <3>1, <3>2, <5>1
      <4>2. n \in 1..(m - (k + 1))
        BY <1>1, <3>1, <4>1
      <4> QED
        BY <3>2, <4>1, <4>2 DEF EscapedFrom
    <3>3. ASSUME NEW n \in 1..(m - (k + 1)), n % 2 = 1, m - n = k + 1 \/ cs[m - n - 1] # "b",
                 \A l \in (m - n)..(m - 1) : cs[l] = "b"
          PROVE  EscapedFrom(cs, k, m)
      <4>1. n \in 1..(m - k) /\ (m - n = k + 1 => m - n - 1 = k)
        BY <1>1, <3>1
      <4> QED
        BY <3>1, <3>3, <4>1 DEF EscapedFrom
    <3> QED
      BY <2>1, <3>2, <3>3 DEF EscapedFrom
  <2> QED
    BY <1>2, <1>3, <2>3
<1>4. CASE Width(cs, k) = 2
  <2>1. next = k + 2 /\ cs[k] = "b" /\ k < Len(cs)
    BY <1>1, <1>4 DEF Width
  <2>2. EscapedFrom(cs, k, k + 1)
    <3>1. 1 \in 1..(k + 1 - k) /\ 1 % 2 = 1 /\ k + 1 - 1 = k
      BY <1>1
    <3>2. \A l \in k..(k + 1 - 1) : l = k
      BY <1>1
    <3> QED
      BY <2>1, <3>1, <3>2 DEF EscapedFrom
  <2>3. ASSUME NEW m \in next..Len(cs)
        PROVE  EscapedFrom(cs, k, m) <=> EscapedFrom(cs, next, m)
    <3>1. m \in Nat /\ k + 2 <= m
      BY <1>1, <2>1
    <3>2. ASSUME NEW n \in 1..(m - k), n % 2 = 1, m - n = k \/ cs[m - n - 1] # "b",
                 \A l \in (m - n)..(m - 1) : cs[l] = "b"
          PROVE  EscapedFrom(cs, k + 2, m)
      <4>1. CASE m - n = k
        <5>1. n - 2 \in 1..(m - (k + 2)) /\ m - (n - 2) = k + 2 /\ (n - 2) % 2 = 1
          BY <1>1, <3>1, <3>2, <4>1
        <5>2. \A l \in (m - (n - 2))..(m - 1) : l \in (m - n)..(m - 1)
          BY <1>1, <3>1
        <5> QED
          BY <3>2, <5>1, <5>2 DEF EscapedFrom
      <4>2. CASE m - n # k
        <5>1. m - n # k + 1
          <6>1. m - n = k + 1 => m - n - 1 = k
            BY <1>1, <3>1
          <6> QED
            BY <2>1, <3>2, <4>2, <6>1
        <5>2. n \in 1..(m - (k + 2))
          BY <1>1, <3>1, <4>2, <5>1
        <5> QED
          BY <3>2, <4>2, <5>2 DEF EscapedFrom
      <4> QED
        BY <4>1, <4>2
    <3>3. ASSUME NEW n \in 1..(m - (k + 2)), n % 2 = 1, m - n = k + 2 \/ cs[m - n - 1] # "b",
                 \A l \in (m - n)..(m - 1) : cs[l] = "b"
          PROVE  EscapedFrom(cs, k, m)
      <4>1. CASE m - n = k + 2 /\ cs[k + 1] = "b"
        <5>1. n + 2 \in 1..(m - k) /\ m - (n + 2) = k /\ (n + 2) % 2 = 1
          BY <1>1, <3>1, <3>3, <4>1
        <5>2. \A l \in (m - (n + 2))..(m - 1) : l = k \/ l = k + 1 \/ l \in (m - n)..(m - 1)
          BY <1>1, <3>1, <4>1
        <5>3. \A l \in (m - (n + 2))..(m - 1) : cs[l] = "b"
          BY <2>1, <3>3, <4>1, <5>2
        <5> QED
          BY <5>1, <5>3 DEF EscapedFrom
      <4>2. CASE m - n # k + 2 \/ cs[k + 1] # "b"
        <5>1. n \in 1..(m - k) /\ (m - n = k + 2 => m - n - 1 = k + 1)
          BY <1>1, <3>1
        <5> QED
          BY <3>3, <4>2, <5>1 DEF EscapedFrom
      <4> QED
        BY <4>1, <4>2
    <3> QED
      BY <2>1, <3>2, <3>3 DEF EscapedFrom
  <2> QED
    BY <1>2, <1>4, <2>1, <2>2, <2>3
<1> QED
  BY <1>3, <1>4, Widths

(* The characters from position k on that are kept up to a quote at e.     *)
KeptFrom(cs, k, e) == {m \in k..(e - 1) : cs[m] # "b" \/ EscapedFrom(cs, k, m)}

(* What the scan of a string from position k finds: the first quote that   *)
(* is not escaped, or that there is none, and the text before it.          *)
Scanned(cs, k, r) ==
  \/ r.to = 0 /\ \A m \in k..Len(cs) : cs[m] = "q" => EscapedFrom(cs, k, m)
  \/ /\ r.to \in k..Len(cs) /\ cs[r.to] = "q" /\ ~EscapedFrom(cs, k, r.to)
     /\ \A m \in k..(r.to - 1) : cs[m] = "q" => EscapedFrom(cs, k, m)
     /\ r.text = {<<m, Meant(cs[m], EscapedFrom(cs, k, m))>> : m \in KeptFrom(cs, k, r.to)}

(* What is pushed for an escaped character is what it is meant to be.      *)
LEMMA Escapes ==
  ASSUME NEW c
  PROVE  Unescaped(c) = Meant(c, TRUE)
<1>1. /\ DOMAIN Control = {"n", "r", "t"}
      /\ Control["n"] = "newline" /\ Control["r"] = "return" /\ Control["t"] = "tab"
  BY DEF Control
<1> QED
  BY <1>1 DEF Unescaped, Meant

LEMMA ScannedFurtherOn ==
  ASSUME NEW cs \in Seq(Char), NEW k \in 1..Len(cs), cs[k] # "q",
         NEW r, Scanned(cs, k + Width(cs, k), r)
  PROVE  Scanned(cs, k, [to |-> r.to,
                          text |-> r.text \cup {<<(k + Width(cs, k)) - 1, Pushed(cs, k)>>}])
<1> DEFINE next == k + Width(cs, k)
           s == [to |-> r.to, text |-> r.text \cup {<<next - 1, Pushed(cs, k)>>}]
           Kept1(m) == cs[m] # "b" \/ EscapedFrom(cs, k, m)
           Kept2(m) == cs[m] # "b" \/ EscapedFrom(cs, next, m)
           Read1(m) == <<m, Meant(cs[m], EscapedFrom(cs, k, m))>>
           Read2(m) == <<m, Meant(cs[m], EscapedFrom(cs, next, m))>>
<1>1. Len(cs) \in Nat /\ k \in Nat /\ next \in Nat /\ k < next
  BY TextShape, Widths
<1>2. \A m \in k..Len(cs) : m = k \/ (Width(cs, k) = 2 /\ m = k + 1) \/ m \in next..Len(cs)
  BY <1>1, Widths
<1>3. /\ \A m \in next..Len(cs) : EscapedFrom(cs, k, m) <=> EscapedFrom(cs, next, m)
      /\ ~EscapedFrom(cs, k, k)
      /\ Width(cs, k) = 2 => cs[k] = "b" /\ EscapedFrom(cs, k, k + 1)
  BY EscapedFurtherOn
<1>4. s.to = r.to /\ s.text = r.text \cup {<<next - 1, Pushed(cs, k)>>}
  OBVIOUS
<1> HIDE DEF next, s
<1>5. CASE r.to = 0 /\ \A m \in next..Len(cs) : cs[m] = "q" => EscapedFrom(cs, next, m)
  <2>1. \A m \in k..Len(cs) : cs[m] = "q" => EscapedFrom(cs, k, m)
    BY <1>2, <1>3, <1>5
  <2> QED
    BY <1>4, <1>5, <2>1 DEF Scanned, s, next
<1>6. CASE /\ r.to \in next..Len(cs) /\ cs[r.to] = "q" /\ ~EscapedFrom(cs, next, r.to)
           /\ \A m \in next..(r.to - 1) : cs[m] = "q" => EscapedFrom(cs, next, m)
           /\ r.text = {Read2(m) : m \in KeptFrom(cs, next, r.to)}
  <2>1. r.to \in k..Len(cs) /\ r.to \in Nat
    BY <1>1, <1>6
  <2>2. ~EscapedFrom(cs, k, r.to)
    BY <1>3, <1>6
  <2>3. \A m \in k..(r.to - 1) :
          /\ m \in Nat /\ m \in k..Len(cs)
          /\ m \in next..Len(cs) => m \in next..(r.to - 1)
    BY <1>1, <2>1
  <2>4. \A m \in k..(r.to - 1) : cs[m] = "q" => EscapedFrom(cs, k, m)
    BY <1>2, <1>3, <1>6, <2>3
  <2>5. \A m \in next..(r.to - 1) : m \in k..(r.to - 1) /\ m \in next..Len(cs)
    BY <1>1, <2>1
  <2>6. KeptFrom(cs, k, r.to) = KeptFrom(cs, next, r.to) \cup {next - 1}
    <3>1. CASE Width(cs, k) = 1
      <4>1. next - 1 = k /\ k \in k..(r.to - 1) /\ cs[k] # "b" /\ k \notin next..(r.to - 1)
        BY <1>1, <1>6, <2>1, <3>1 DEF next, Width
      <4>2. ASSUME NEW m, m # k
            PROVE  m \in next..(r.to - 1) <=> m \in k..(r.to - 1)
        BY <1>2, <2>3, <2>5, <3>1, <4>2
      <4>3. ASSUME NEW m \in next..(r.to - 1)
            PROVE  Kept1(m) <=> Kept2(m)
        BY <1>3, <2>5
      <4> QED
        BY <4>1, <4>2, <4>3 DEF KeptFrom
    <3>2. CASE Width(cs, k) = 2
      <4>1. /\ next - 1 = k + 1 /\ k + 1 \in k..(r.to - 1) /\ cs[k] = "b"
            /\ EscapedFrom(cs, k, k + 1) /\ ~EscapedFrom(cs, k, k)
            /\ k \notin next..(r.to - 1) /\ k + 1 # k /\ k + 1 \notin next..(r.to - 1)
        BY <1>1, <1>3, <1>6, <2>1, <3>2 DEF next
      <4>2. ASSUME NEW m, m # k, m # k + 1
            PROVE  m \in next..(r.to - 1) <=> m \in k..(r.to - 1)
        BY <1>2, <2>3, <2>5, <3>2, <4>2
      <4>3. ASSUME NEW m \in next..(r.to - 1)
            PROVE  Kept1(m) <=> Kept2(m)
        BY <1>3, <2>5
      <4> QED
        BY <4>1, <4>2, <4>3 DEF KeptFrom
    <3> QED
      BY <3>1, <3>2, Widths
  <2>7. \A m \in KeptFrom(cs, next, r.to) : Read1(m) = Read2(m)
    <3> SUFFICES ASSUME NEW m \in KeptFrom(cs, next, r.to)
                 PROVE  Read1(m) = Read2(m)
      OBVIOUS
    <3>1. m \in next..Len(cs)
      BY <2>5 DEF KeptFrom
    <3>2. EscapedFrom(cs, k, m) <=> EscapedFrom(cs, next, m)
      BY <1>3, <3>1
    <3> QED
      BY <3>2 DEF Meant
  <2>8. <<next - 1, Pushed(cs, k)>> = Read1(next - 1)
    <3>1. CASE Width(cs, k) = 1
      <4>1. next - 1 = k /\ Pushed(cs, k) = cs[k]
        BY <1>1, <3>1 DEF next, Pushed
      <4> QED
        BY <1>3, <4>1 DEF Meant
    <3>2. CASE Width(cs, k) = 2
      <4>1. next - 1 = k + 1 /\ Pushed(cs, k) = Unescaped(cs[k + 1])
        BY <1>1, <3>2 DEF next, Pushed
      <4>2. EscapedFrom(cs, k, k + 1)
        BY <1>3, <3>2
      <4> QED
        BY <4>1, <4>2, Escapes DEF Meant
    <3> QED
      BY <3>1, <3>2, Widths
  <2>9. s.text = {Read1(m) : m \in KeptFrom(cs, k, r.to)}
    <3>1. s.text = {Read2(m) : m \in KeptFrom(cs, next, r.to)} \cup {Read1(next - 1)}
      BY <1>4, <1>6, <2>8
    <3>2. {Read2(m) : m \in KeptFrom(cs, next, r.to)} = {Read1(m) : m \in KeptFrom(cs, next, r.to)}
      BY <2>7
    <3> HIDE DEF Read1, Read2
    <3> QED
      BY <2>6, <3>1, <3>2
  <2>10. Scanned(cs, k, s)
    BY <1>4, <1>6, <2>1, <2>2, <2>4, <2>9 DEF Scanned
  <2> QED
    BY <2>10 DEF s, next
<1> QED
  BY <1>5, <1>6 DEF Scanned, next

LEMMA StringScans ==
  ASSUME NEW cs \in Seq(Char)
  PROVE  \A k \in 1..(Len(cs) + 1) : Scanned(cs, k, String(cs)[k])
<1> DEFINE n == Len(cs)
           S == 1..(n + 1)
           rank == [k \in S |-> n + 1 - k]
           A == {k \in S : Scanned(cs, k, String(cs)[k])}
<1>1. n \in Nat
  BY TextShape
<1>2. rank \in [S -> Nat]
  BY <1>1
<1>3. ASSUME NEW k \in S, \A j \in S : rank[j] < rank[k] => Scanned(cs, j, String(cs)[j])
      PROVE  Scanned(cs, k, String(cs)[k])
  <2>1. String(cs)[k] = StringStep(cs, String(cs), k)
    BY StringFollows
  <2>2. CASE k = n + 1
    <3>1. String(cs)[k] = [to |-> 0, text |-> {}]
      BY <2>1, <2>2, TextShape DEF StringStep
    <3>2. \A m \in k..Len(cs) : FALSE
      BY <1>1, <2>2
    <3> QED
      BY <3>1, <3>2 DEF Scanned
  <2>3. CASE k \in 1..n /\ cs[k] = "q"
    <3>1. String(cs)[k] = [to |-> k, text |-> {}]
      BY <2>1, <2>3, TextShape DEF StringStep
    <3>2. (\A m \in k..(k - 1) : FALSE) /\ KeptFrom(cs, k, k) = {}
      BY <1>1 DEF KeptFrom
    <3>3. ~EscapedFrom(cs, k, k) /\ k \in k..Len(cs)
      BY <1>1, <2>3, EscapedFurtherOn
    <3> QED
      BY <2>3, <3>1, <3>2, <3>3 DEF Scanned
  <2>4. CASE k \in 1..n /\ cs[k] # "q"
    <3> DEFINE next == k + Width(cs, k)
    <3>1. next \in S /\ k < next /\ k \in Nat
      BY <2>4, Widths
    <3>2. rank[next] < rank[k]
      BY <1>1, <3>1
    <3>3. Scanned(cs, next, String(cs)[next])
      BY <1>3, <3>1, <3>2
    <3>4. At(cs, k) # "end" /\ At(cs, k) # "q"
      BY <2>4, TextShape
    <3>5. String(cs)[k] = [to |-> String(cs)[next].to,
                           text |-> String(cs)[next].text \cup {<<next - 1, Pushed(cs, k)>>}]
      BY <2>1, <3>4 DEF StringStep
    <3> DEFINE rest == String(cs)[next]
    <3>6. Scanned(cs, k, [to |-> rest.to,
                          text |-> rest.text \cup {<<next - 1, Pushed(cs, k)>>}])
      <4>1. Scanned(cs, k + Width(cs, k), rest)
        BY <3>3
      <4> HIDE DEF rest
      <4> QED
        BY <2>4, <4>1, ScannedFurtherOn
    <3> QED
      BY <3>5, <3>6
  <2> QED
    BY <1>1, <2>2, <2>3, <2>4
<1>4. \A k \in S : (\A j \in S : rank[j] < rank[k] => j \in A) => k \in A
  BY <1>3
<1> HIDE DEF S, rank, A
<1>5. S \subseteq A
  BY <1>2, <1>4, RankInduction
<1> QED
  BY <1>5 DEF S, A

-----------------------------------------------------------------------------
(* The lexer: tokens.                                                      *)

(* A run of characters has an end.                                         *)
LEMMA RunEnds ==
  ASSUME NEW cs \in Seq(Char), NEW i \in 1..Len(cs), NEW class, "end" \notin class,
         cs[i] \in class
  PROVE  /\ RunEnd(cs, i, class) \in i..Len(cs)
         /\ \A k \in i..RunEnd(cs, i, class) : cs[k] \in class
         /\ At(cs, RunEnd(cs, i, class) + 1) \notin class
<1> DEFINE ends == {j \in i..Len(cs) : At(cs, j + 1) \notin class}
           IsEnd(j) == (\A k \in i..j : cs[k] \in class) /\ At(cs, j + 1) \notin class
<1>1. /\ Len(cs) \in Nat /\ i \in Nat
      /\ \A k \in 1..Len(cs) : At(cs, k) = cs[k]
      /\ At(cs, Len(cs) + 1) = "end"
  BY TextShape
<1>2. Len(cs) \in ends /\ ends \subseteq Nat
  BY <1>1
<1>3. PICK j \in ends : \A k \in ends : j <= k
  BY <1>2, LeastOf
<1>4. ASSUME NEW k \in i..j
      PROVE  cs[k] \in class
  <2>1. CASE k = i
    BY <2>1
  <2>2. CASE k # i
    <3>1. /\ k - 1 \in i..Len(cs) /\ (k - 1) + 1 = k /\ k \in 1..Len(cs) /\ ~(j <= k - 1)
      BY <1>1, <2>2
    <3>2. At(cs, k) \in class
      BY <1>3, <3>1
    <3> QED
      BY <1>1, <3>1, <3>2
  <2> QED
    BY <2>1, <2>2
<1>5. j \in i..Len(cs) /\ IsEnd(j)
  BY <1>4
<1>6. RunEnd(cs, i, class) = CHOOSE k \in i..Len(cs) : IsEnd(k)
  BY DEF RunEnd
<1> HIDE DEF IsEnd
<1>7. RunEnd(cs, i, class) \in i..Len(cs) /\ IsEnd(RunEnd(cs, i, class))
  BY <1>5, <1>6
<1> QED
  BY <1>7 DEF IsEnd

(* The lexemes that start with each character.                             *)
LEMMA LexemesOf ==
  ASSUME NEW cs \in Seq(Char), NEW i \in 1..Len(cs), NEW j \in i..Len(cs)
  PROVE  /\ cs[i] \in {"+", "=", "."} => (Lexeme(cs, i, j) <=> j = i)
         /\ cs[i] = "!" => (Lexeme(cs, i, j) <=> j = i + 1 /\ cs[j] = "=")
         /\ cs[i] = "<" => (Lexeme(cs, i, j) <=> j = i \/ (j = i + 1 /\ cs[j] = "="))
         /\ cs[i] = "q" => (Lexeme(cs, i, j) <=> Quoted(cs, i, j))
         /\ cs[i] = "1" => (Lexeme(cs, i, j) <=> Number(cs, i, j))
         /\ cs[i] \in Letter => (Lexeme(cs, i, j) <=> Word(cs, i, j))
         /\ cs[i] \in {"x", "b", "s"} => ~Lexeme(cs, i, j)
<1>1. /\ Word(cs, i, j) => cs[i] \in {"a", "n", "r", "t"}
      /\ Number(cs, i, j) => cs[i] = "1"
      /\ Quoted(cs, i, j) => cs[i] = "q"
  BY DEF Word, Letter, Number, Quoted
<1>2. Operator(cs, i, j) <=> \/ j = i /\ cs[i] \in {"+", "=", ".", "<"}
                             \/ j = i + 1 /\ cs[i] \in {"<", "!"} /\ cs[j] = "="
  BY DEF Operator
<1>3. i # i + 1
  BY TextShape
<1> QED
  BY <1>1, <1>2, <1>3 DEF Lexeme, Letter

(* A run of the characters of a class from i on is the longest one.        *)
LEMMA LongestRun ==
  ASSUME NEW cs \in Seq(Char), NEW i \in 1..Len(cs), NEW class, "end" \notin class,
         cs[i] \in class, NEW k \in i..Len(cs)
  PROVE  (\A m \in i..k : cs[m] \in class) => k <= RunEnd(cs, i, class)
<1> DEFINE j == RunEnd(cs, i, class)
<1>1. j \in i..Len(cs) /\ At(cs, j + 1) \notin class /\ Len(cs) \in Nat /\ i \in Nat
  BY RunEnds, TextShape
<1> HIDE DEF j
<1>2. ASSUME \A m \in i..k : cs[m] \in class, ~(k <= j)
      PROVE  FALSE
  <2>1. j + 1 \in i..k /\ j + 1 \in 1..Len(cs)
    BY <1>1, <1>2
  <2> QED
    BY <1>1, <1>2, <2>1, TextShape
<1> QED
  BY <1>2 DEF j

(* Strings: the closing quote is the first one that is not escaped.        *)
LEMMA Strings ==
  ASSUME NEW cs \in Seq(Char), NEW i \in 1..Len(cs), cs[i] = "q"
  PROVE  LET s == String(cs)[i + 1]
         IN  \/ s.to = 0 /\ \A j \in i..Len(cs) : ~Quoted(cs, i, j)
             \/ /\ s.to \in (i + 1)..Len(cs) /\ s.text = Text(cs, i, s.to)
                /\ \A j \in i..Len(cs) : Quoted(cs, i, j) <=> j = s.to
<1> DEFINE s == String(cs)[i + 1]
<1>1. Len(cs) \in Nat /\ i \in Nat /\ i + 1 \in 1..(Len(cs) + 1)
  BY TextShape
<1>2. Scanned(cs, i + 1, s)
  BY <1>1, StringScans
<1>3. \A m \in (i + 1)..Len(cs) : Escaped(cs, i, m) <=> EscapedFrom(cs, i + 1, m)
  <2> TAKE m \in (i + 1)..Len(cs)
  <2>1. m \in Nat /\ i < m
    BY <1>1
  <2> QED
    BY <1>1, <2>1, EscapedInString
<1> HIDE DEF s
<1>4. CASE s.to = 0 /\ \A m \in (i + 1)..Len(cs) : cs[m] = "q" => EscapedFrom(cs, i + 1, m)
  <2>1. ASSUME NEW j \in i..Len(cs), Quoted(cs, i, j)
        PROVE  FALSE
    <3>1. j \in (i + 1)..j /\ j \in (i + 1)..Len(cs)
      BY <1>1, <2>1 DEF Quoted
    <3>2. cs[j] = "q" /\ ~Escaped(cs, i, j)
      BY <2>1, <3>1 DEF Quoted
    <3> QED
      BY <1>3, <1>4, <3>1, <3>2
  <2> QED
    BY <1>4, <2>1 DEF s
<1>5. CASE /\ s.to \in (i + 1)..Len(cs) /\ cs[s.to] = "q" /\ ~EscapedFrom(cs, i + 1, s.to)
           /\ \A m \in (i + 1)..(s.to - 1) : cs[m] = "q" => EscapedFrom(cs, i + 1, m)
           /\ s.text = {<<m, Meant(cs[m], EscapedFrom(cs, i + 1, m))>> :
                          m \in KeptFrom(cs, i + 1, s.to)}
  <2> DEFINE e == s.to
  <2>1. e \in Nat /\ e \in (i + 1)..Len(cs) /\ e \in i..Len(cs) /\ i < e
        /\ \A m \in (i + 1)..(e - 1) : m \in (i + 1)..Len(cs)
    BY <1>1, <1>5
  <2>2. \A m \in (i + 1)..(e - 1) : Escaped(cs, i, m) <=> EscapedFrom(cs, i + 1, m)
    BY <1>3, <2>1
  <2>3. s.text = Text(cs, i, e)
    <3>1. Kept(cs, i, e) = KeptFrom(cs, i + 1, e)
      BY <2>2 DEF Kept, KeptFrom
    <3>2. \A m \in Kept(cs, i, e) :
            <<m, Meant(cs[m], Escaped(cs, i, m))>> = <<m, Meant(cs[m], EscapedFrom(cs, i + 1, m))>>
      BY <2>2 DEF Kept, Meant
    <3> QED
      BY <1>5, <3>1, <3>2 DEF Text
  <2>4. cs[e] = "q" /\ ~Escaped(cs, i, e)
        /\ \A m \in (i + 1)..(e - 1) : cs[m] = "q" => Escaped(cs, i, m)
    BY <1>3, <1>5, <2>1, <2>2
  <2> HIDE DEF e
  <2>5. Quoted(cs, i, e)
    <3>1. \A m \in (i + 1)..e : m = e \/ (m \in (i + 1)..(e - 1) /\ m # e)
      BY <1>1, <2>1
    <3> QED
      BY <2>1, <2>4, <3>1 DEF Quoted
  <2>6. ASSUME NEW j \in i..Len(cs), Quoted(cs, i, j)
        PROVE  j = e
    <3>1. i < j /\ \A k \in (i + 1)..j : (cs[k] = "q" /\ ~Escaped(cs, i, k)) <=> k = j
      BY <2>6 DEF Quoted
    <3>2. j \in (i + 1)..j
      BY <1>1, <3>1
    <3>3. cs[j] = "q" /\ ~Escaped(cs, i, j)
      BY <3>1, <3>2
    <3>4. CASE j < e
      <4>1. j \in (i + 1)..(e - 1)
        BY <1>1, <2>1, <3>1, <3>4
      <4> QED
        BY <2>4, <3>3, <4>1
    <3>5. CASE e < j
      <4>1. e \in (i + 1)..j /\ e # j
        BY <1>1, <2>1, <3>1, <3>5
      <4> QED
        BY <2>4, <3>1, <4>1
    <3> QED
      BY <1>1, <2>1, <3>4, <3>5
  <2> QED
    BY <2>1, <2>3, <2>5, <2>6 DEF s, e
<1> QED
  BY <1>2, <1>4, <1>5 DEF Scanned, s

(* The token at a position is the longest one, or the lexer is right to    *)
(* stop there.                                                             *)
LEMMA TokenAt ==
  ASSUME NEW cs \in Seq(Char), NEW i \in 1..Len(cs), cs[i] # "s"
  PROVE  /\ TokenEnd(cs, i) = 0 => Stuck(cs, i)
         /\ TokenEnd(cs, i) # 0 => /\ TokenEnd(cs, i) \in i..Len(cs)
                                   /\ IsToken(cs, Token(cs, i))
<1> DEFINE j == TokenEnd(cs, i)
<1>1. /\ Len(cs) \in Nat /\ i \in Nat /\ DOMAIN cs = 1..Len(cs)
      /\ i \in i..Len(cs) /\ i # 0 /\ i + 1 # 0
      /\ cs[i] \in Char
      /\ i + 1 \in 1..Len(cs) <=> i + 1 \in i..Len(cs)
      /\ (At(cs, i + 1) = "=" <=> i + 1 \in i..Len(cs) /\ cs[i + 1] = "=")
  BY TextShape DEF At
<1>2. ASSUME \A k \in i..Len(cs) : ~Lexeme(cs, i, k)
      PROVE  Stuck(cs, i)
  BY <1>1, <1>2 DEF Stuck, Longest
<1>3. ASSUME j \in i..Len(cs), Lexeme(cs, i, j),
             \A k \in (j + 1)..Len(cs) : ~Lexeme(cs, i, k),
             Number(cs, i, j) => Dots(cs, i, j) <= 1,
             cs[i] = "q" => TokenText(cs, i) = Text(cs, i, j)
      PROVE  j # 0 /\ j \in i..Len(cs) /\ IsToken(cs, Token(cs, i))
  <2> DEFINE t == Token(cs, i)
  <2>1. t.from = i /\ t.to = j /\ t.text = TokenText(cs, i)
    BY DEF Token
  <2> HIDE DEF t, j
  <2>2. Longest(cs, i, j) /\ WellFormed(cs, i, j)
    BY <1>3 DEF Longest, WellFormed
  <2>3. IsToken(cs, t)
    BY <1>1, <1>3, <2>1, <2>2 DEF IsToken
  <2> QED
    BY <1>1, <1>3, <2>3 DEF t
<1>4. \A k \in (j + 1)..Len(cs) : j \in i..Len(cs) => k \in i..Len(cs) /\ j < k
  <2> HIDE DEF j
  <2> QED
    BY <1>1
<1>5. cs[i] # "1" => ~Number(cs, i, j)
  BY DEF Number
<1> HIDE DEF j
<1>6. CASE cs[i] \in {"+", "=", "."}
  <2>1. j = i
    BY <1>6 DEF j, TokenEnd, Letter
  <2>2. \A k \in i..Len(cs) : Lexeme(cs, i, k) <=> k = i
    BY <1>6, LexemesOf
  <2>3. \A k \in (j + 1)..Len(cs) : ~Lexeme(cs, i, k)
    BY <1>1, <1>4, <2>1, <2>2
  <2> QED
    BY <1>1, <1>3, <1>5, <1>6, <2>1, <2>2, <2>3 DEF j
<1>7. CASE cs[i] = "!"
  <2>1. j = IF At(cs, i + 1) = "=" THEN i + 1 ELSE 0
    BY <1>7 DEF j, TokenEnd, Letter
  <2>2. \A k \in i..Len(cs) : Lexeme(cs, i, k) <=> k = i + 1 /\ cs[k] = "="
    BY <1>7, LexemesOf
  <2>3. CASE At(cs, i + 1) = "="
    <3>1. j = i + 1 /\ j \in i..Len(cs) /\ cs[j] = "="
      BY <1>1, <2>1, <2>3
    <3>2. \A k \in (j + 1)..Len(cs) : ~Lexeme(cs, i, k)
      BY <1>1, <1>4, <2>2, <3>1
    <3> QED
      BY <1>3, <1>5, <1>7, <2>2, <3>1, <3>2 DEF j
  <2>4. CASE At(cs, i + 1) # "="
    BY <1>1, <1>2, <2>1, <2>2, <2>4 DEF j
  <2> QED
    BY <2>3, <2>4
<1>8. CASE cs[i] = "<"
  <2>1. j = IF At(cs, i + 1) = "=" THEN i + 1 ELSE i
    BY <1>8 DEF j, TokenEnd, Letter
  <2>2. \A k \in i..Len(cs) : Lexeme(cs, i, k) <=> k = i \/ (k = i + 1 /\ cs[k] = "=")
    BY <1>8, LexemesOf
  <2>3. j \in i..Len(cs) /\ Lexeme(cs, i, j)
    BY <1>1, <2>1, <2>2
  <2>4. ASSUME NEW k \in (j + 1)..Len(cs), Lexeme(cs, i, k)
        PROVE  FALSE
    <3>1. k \in i..Len(cs) /\ j < k
      BY <1>4, <2>3, <2>4
    <3>2. k = i + 1 /\ cs[k] = "=" /\ j = i
      BY <1>1, <2>1, <2>2, <2>4, <3>1
    <3>3. At(cs, i + 1) = "="
      BY <1>1, <3>1, <3>2
    <3> QED
      BY <1>1, <2>1, <3>2, <3>3
  <2> QED
    BY <1>3, <1>5, <1>8, <2>3, <2>4 DEF j
<1>9. CASE cs[i] = "q"
  <2> DEFINE s == String(cs)[i + 1]
  <2>1. j = s.to /\ TokenText(cs, i) = s.text
    BY <1>9 DEF j, TokenEnd, TokenText, Letter
  <2>2. \A k \in i..Len(cs) : Lexeme(cs, i, k) <=> Quoted(cs, i, k)
    BY <1>9, LexemesOf
  <2>3. \/ s.to = 0 /\ \A k \in i..Len(cs) : ~Quoted(cs, i, k)
        \/ /\ s.to \in (i + 1)..Len(cs) /\ s.text = Text(cs, i, s.to)
           /\ \A k \in i..Len(cs) : Quoted(cs, i, k) <=> k = s.to
    BY <1>9, Strings
  <2> HIDE DEF s
  <2>4. CASE s.to = 0 /\ \A k \in i..Len(cs) : ~Quoted(cs, i, k)
    BY <1>2, <2>1, <2>2, <2>4 DEF j
  <2>5. CASE /\ s.to \in (i + 1)..Len(cs) /\ s.text = Text(cs, i, s.to)
             /\ \A k \in i..Len(cs) : Quoted(cs, i, k) <=> k = s.to
    <3>1. j \in i..Len(cs) /\ TokenText(cs, i) = Text(cs, i, j)
      BY <1>1, <2>1, <2>5
    <3>2. Lexeme(cs, i, j)
      BY <2>1, <2>2, <2>5, <3>1
    <3>3. \A k \in (j + 1)..Len(cs) : ~Lexeme(cs, i, k)
      BY <1>1, <1>4, <2>1, <2>2, <2>5, <3>1
    <3> QED
      BY <1>3, <1>5, <1>9, <3>1, <3>2, <3>3 DEF j
  <2> QED
    BY <2>3, <2>4, <2>5
<1>10. CASE cs[i] = "1"
  <2> DEFINE e == RunEnd(cs, i, NumberChar)
  <2>1. j = IF Dots(cs, i, e) <= 1 THEN e ELSE 0
    BY <1>10 DEF j, TokenEnd, Letter
  <2>2. "end" \notin NumberChar /\ cs[i] \in NumberChar
    BY <1>10 DEF NumberChar
  <2>3. e \in i..Len(cs) /\ \A k \in i..e : cs[k] \in NumberChar
    BY <2>2, RunEnds
  <2>4. \A k \in i..Len(cs) : Lexeme(cs, i, k) <=> Number(cs, i, k)
    BY <1>10, LexemesOf
  <2>5. Lexeme(cs, i, e)
    BY <1>10, <2>3, <2>4 DEF Number
  <2>6. \A k \in i..Len(cs) : Lexeme(cs, i, k) => k <= e
    BY <2>2, <2>4, LongestRun DEF Number
  <2> HIDE DEF e
  <2>7. CASE Dots(cs, i, e) <= 1
    <3>1. j = e
      BY <2>1, <2>7
    <3>2. \A k \in (j + 1)..Len(cs) : ~Lexeme(cs, i, k)
      <4>1. \A k \in (j + 1)..Len(cs) : k \in i..Len(cs) /\ ~(k <= e)
        BY <1>1, <1>4, <2>3, <3>1
      <4> QED
        BY <2>6, <4>1
    <3> QED
      BY <1>3, <1>10, <2>3, <2>5, <2>7, <3>1, <3>2 DEF j
  <2>8. CASE ~(Dots(cs, i, e) <= 1)
    <3>1. j = 0
      BY <2>1, <2>8
    <3>2. ASSUME NEW k \in i..Len(cs), Longest(cs, i, k)
          PROVE  ~WellFormed(cs, i, k)
      <4>1. Lexeme(cs, i, k) /\ \A m \in (k + 1)..Len(cs) : ~Lexeme(cs, i, m)
        BY <3>2 DEF Longest
      <4>2. k <= e
        BY <2>6, <4>1
      <4>3. k = e
        <5>1. k < e => e \in (k + 1)..Len(cs)
          BY <1>1, <2>3
        <5>2. ~(k < e)
          BY <2>5, <4>1, <5>1
        <5> QED
          BY <1>1, <2>3, <4>2, <5>2
      <4> QED
        BY <2>4, <2>8, <4>1, <4>3 DEF WellFormed
    <3>3. Stuck(cs, i)
      BY <1>1, <3>2 DEF Stuck
    <3> QED
      BY <3>1, <3>3 DEF j
  <2> QED
    BY <2>7, <2>8
<1>11. CASE cs[i] \in Letter
  <2>1. j = RunEnd(cs, i, WordChar)
    BY <1>11 DEF j, TokenEnd, Letter
  <2>2. "end" \notin WordChar /\ cs[i] \in WordChar
    BY <1>11 DEF WordChar, Letter
  <2>3. j \in i..Len(cs) /\ \A k \in i..j : cs[k] \in WordChar
    BY <2>1, <2>2, RunEnds
  <2>4. \A k \in i..Len(cs) : Lexeme(cs, i, k) <=> Word(cs, i, k)
    BY <1>11, LexemesOf
  <2>5. Lexeme(cs, i, j)
    BY <1>11, <2>3, <2>4 DEF Word
  <2>6. \A k \in i..Len(cs) : Lexeme(cs, i, k) => k <= j
    BY <2>1, <2>2, <2>4, LongestRun DEF Word
  <2>7. \A k \in (j + 1)..Len(cs) : ~Lexeme(cs, i, k)
    <3>1. \A k \in (j + 1)..Len(cs) : k \in i..Len(cs) /\ ~(k <= j)
      BY <1>1, <1>4, <2>3
    <3> QED
      BY <2>6, <3>1
  <2>8. cs[i] # "1" /\ cs[i] # "q"
    BY <1>11 DEF Letter
  <2> QED
    BY <1>3, <1>5, <1>11, <2>3, <2>5, <2>7, <2>8 DEF j
<1>12. CASE cs[i] \in {"x", "b"}
  <2>1. j = 0
    BY <1>12 DEF j, TokenEnd, Letter
  <2>2. \A k \in i..Len(cs) : ~Lexeme(cs, i, k)
    BY <1>12, LexemesOf
  <2> QED
    BY <1>2, <2>1, <2>2 DEF j
<1> QED
  BY <1>1, <1>6, <1>7, <1>8, <1>9, <1>10, <1>11, <1>12 DEF Char, Letter

-----------------------------------------------------------------------------
(* The lexer: the whole text.                                              *)

(* What the lexer finds from position k on, given what it finds further on.*)
LexStep(cs, f, k) ==
  CASE At(cs, k) = "end" -> [tokens |-> {}, stop |-> 0]
    [] At(cs, k) = "s" -> f[k + 1]
    [] OTHER -> IF TokenEnd(cs, k) = 0 THEN [tokens |-> {}, stop |-> k]
                ELSE LET rest == f[TokenEnd(cs, k) + 1]
                     IN [rest EXCEPT !.tokens = @ \cup {Token(cs, k)}]

LEMMA TokenizeFollows ==
  ASSUME NEW cs \in Seq(Char)
  PROVE  /\ Tokenize(cs) \in [1..(Len(cs) + 1) ->
                                [tokens : SUBSET {Token(cs, k) : k \in 1..Len(cs)}, stop : Nat]]
         /\ \A k \in 1..(Len(cs) + 1) : Tokenize(cs)[k] = LexStep(cs, Tokenize(cs), k)
<1> DEFINE n == Len(cs)
           S == 1..(n + 1)
           T == SUBSET {Token(cs, k) : k \in 1..n}
           V == [tokens : T, stop : Nat]
           none == [tokens |-> {}, stop |-> 0]
           rank == [k \in S |-> n + 1 - k]
           G == [p \in S \X [S -> V] |-> LexStep(cs, p[2], p[1])]
           Defined(f) == f = [k \in S |-> LexStep(cs, f, k)]
<1>1. n \in Nat
  BY TextShape
<1>2. \A k \in S : At(cs, k) # "end" => k \in 1..n /\ cs[k] = At(cs, k)
  <2> TAKE k \in S
  <2>1. k \in 1..n \/ k = n + 1
    BY <1>1
  <2> QED
    BY <2>1, TextShape
<1>3. ASSUME NEW k \in S, At(cs, k) # "end", At(cs, k) # "s", TokenEnd(cs, k) # 0
      PROVE  TokenEnd(cs, k) + 1 \in S /\ k < TokenEnd(cs, k) + 1
  <2>1. k \in 1..n /\ cs[k] # "s"
    BY <1>2, <1>3
  <2>2. TokenEnd(cs, k) \in k..n
    BY <1>3, <2>1, TokenAt
  <2> DEFINE e == TokenEnd(cs, k)
  <2> HIDE DEF e, n
  <2> QED
    BY <1>1, <2>1, <2>2 DEF e
<1> HIDE DEF n
<1>4. rank \in [S -> 0..n] /\ \A k \in S : rank[k] = n + 1 - k
  BY <1>1
<1>5. ASSUME NEW k \in S, At(cs, k) # "end"
      PROVE  k + 1 \in S /\ k < k + 1
  BY <1>1, <1>2, <1>5
<1>6. ASSUME NEW k \in S, NEW f \in [S -> V]
      PROVE  LexStep(cs, f, k) \in V
  <2>1. CASE At(cs, k) = "end"
    BY <2>1 DEF LexStep
  <2>2. CASE At(cs, k) = "s"
    <3>1. f[k + 1] \in V
      BY <1>5, <2>2
    <3> QED
      BY <2>2, <3>1 DEF LexStep
  <2>3. CASE At(cs, k) # "end" /\ At(cs, k) # "s" /\ TokenEnd(cs, k) = 0
    BY <1>1, <2>3 DEF LexStep
  <2>4. CASE At(cs, k) # "end" /\ At(cs, k) # "s" /\ TokenEnd(cs, k) # 0
    <3> DEFINE rest == f[TokenEnd(cs, k) + 1]
    <3>1. rest \in V
      BY <1>3, <2>4
    <3> HIDE DEF rest
    <3>2. LexStep(cs, f, k) = [rest EXCEPT !.tokens = @ \cup {Token(cs, k)}]
      BY <2>4 DEF LexStep, rest
    <3>3. Token(cs, k) \in {Token(cs, m) : m \in 1..n}
      BY <1>2, <2>4
    <3> QED
      BY <3>1, <3>2, <3>3
  <2> QED
    BY <2>1, <2>2, <2>3, <2>4
<1>7. ASSUME NEW k \in S, NEW g, NEW h, \A j \in S : rank[j] < rank[k] => g[j] = h[j]
      PROVE  LexStep(cs, g, k) = LexStep(cs, h, k)
  <2>1. ASSUME NEW j \in S, k < j
        PROVE  g[j] = h[j]
    BY <1>1, <1>4, <1>7, <2>1
  <2>2. CASE At(cs, k) = "end" \/ (At(cs, k) # "s" /\ TokenEnd(cs, k) = 0)
    BY <2>2 DEF LexStep
  <2>3. CASE At(cs, k) = "s"
    <3>1. g[k + 1] = h[k + 1]
      BY <1>5, <2>1, <2>3
    <3> QED
      BY <2>3, <3>1 DEF LexStep
  <2>4. CASE At(cs, k) # "end" /\ At(cs, k) # "s" /\ TokenEnd(cs, k) # 0
    <3>1. g[TokenEnd(cs, k) + 1] = h[TokenEnd(cs, k) + 1]
      BY <1>3, <2>1, <2>4
    <3> QED
      BY <2>4, <3>1 DEF LexStep
  <2> QED
    BY <2>2, <2>3, <2>4
<1>8. Grounded(S, n, rank, V, none, G)
  <2>1. none \in V
    OBVIOUS
  <2>2. G \in [S \X [S -> V] -> V]
    <3> HIDE DEF S, V
    <3> QED
      BY <1>6
  <2>3. \A k \in S : \A g, h \in [S -> V] :
          (\A j \in S : rank[j] < rank[k] => g[j] = h[j]) => G[<<k, g>>] = G[<<k, h>>]
    <3> HIDE DEF S, V, rank
    <3> QED
      BY <1>7
  <2> HIDE DEF S, V, rank, G, none
  <2> QED
    BY <1>1, <1>4, <2>1, <2>2, <2>3 DEF Grounded
<1>9. PICK f \in [S -> V] : \A k \in S : f[k] = G[<<k, f>>]
  <2> HIDE DEF S, V, rank, none, G
  <2> QED
    BY <1>8, RankRecursion
<1>10. Defined(f)
  <2> HIDE DEF S, V
  <2> QED
    BY <1>9
<1>11. Tokenize(cs) = CHOOSE g : Defined(g)
  BY DEF Tokenize, LexStep, n
<1> DEFINE E == Tokenize(cs)
<1>12. Defined(E)
  <2> HIDE DEF Defined
  <2> QED
    BY <1>10, <1>11
<1> HIDE DEF E
<1>13. \A k \in S : E[k] = LexStep(cs, E, k)
  BY <1>12
<1> DEFINE A == {k \in S : E[k] = f[k]}
<1>14. \A k \in S : (\A j \in S : rank[j] < rank[k] => j \in A) => k \in A
  <2> SUFFICES ASSUME NEW k \in S, \A j \in S : rank[j] < rank[k] => E[j] = f[j]
               PROVE  E[k] = f[k]
    OBVIOUS
  <2>1. LexStep(cs, E, k) = LexStep(cs, f, k)
    <3> HIDE DEF S, rank
    <3> QED
      BY <1>7
  <2>2. f[k] = LexStep(cs, f, k)
    <3> HIDE DEF S, V
    <3> QED
      BY <1>9
  <2> QED
    BY <1>13, <2>1, <2>2
<1>15. S \subseteq A
  <2>1. rank \in [S -> Nat]
    BY <1>4
  <2> HIDE DEF A, S, rank
  <2> QED
    BY <1>14, <2>1, RankInduction
<1>16. E \in [S -> V]
  <2>1. E = [k \in S |-> f[k]]
    <3> HIDE DEF S, V
    <3> QED
      BY <1>12, <1>15
  <2> HIDE DEF S, V
  <2> QED
    BY <2>1
<1> QED
  BY <1>13, <1>16 DEF E, n

(* What the lexer must find from position k on.                            *)
LexedFrom(cs, k, r) ==
  \/ r.stop = 0 /\ Covers(cs, r.tokens, k, Len(cs))
  \/ r.stop \in k..Len(cs) /\ Stuck(cs, r.stop) /\ Covers(cs, r.tokens, k, r.stop - 1)

(* A token that ends where the others begin.                               *)
LEMMA CoversMore ==
  ASSUME NEW cs \in Seq(Char), NEW k \in 1..Len(cs), cs[k] # "s", TokenEnd(cs, k) # 0,
         NEW ts, NEW j \in Nat, j <= Len(cs), TokenEnd(cs, k) <= j,
         Covers(cs, ts, TokenEnd(cs, k) + 1, j)
  PROVE  Covers(cs, ts \cup {Token(cs, k)}, k, j)
<1> DEFINE e == TokenEnd(cs, k)
           new == Token(cs, k)
           all == ts \cup {new}
<1>1. /\ Len(cs) \in Nat /\ k \in Nat /\ e \in Nat /\ k <= e /\ e <= Len(cs)
      /\ IsToken(cs, new)
  <2>1. e \in k..Len(cs) /\ IsToken(cs, new)
    BY TokenAt
  <2> HIDE DEF e
  <2> QED
    BY <2>1, TextShape
<1>2. new.from = k /\ new.to = e
  BY DEF Token
<1>3. /\ \A t \in ts : IsToken(cs, t) /\ e + 1 <= t.from /\ t.to <= j
      /\ \A t, u \in ts : t = u \/ t.to < u.from \/ u.to < t.from
      /\ \A m \in (e + 1)..j : cs[m] = "s" \/ \E t \in ts : m \in t.from..t.to
  BY DEF Covers
<1> HIDE DEF e, new
<1>4. \A t \in ts : t.from \in Nat /\ k <= t.from /\ e < t.from
  <2> TAKE t \in ts
  <2>1. t.from \in DOMAIN cs /\ e + 1 <= t.from
    BY <1>3 DEF IsToken
  <2>2. t.from \in Nat
    BY <2>1, TextShape
  <2> QED
    BY <1>1, <2>1, <2>2
<1>5. \A t \in all : IsToken(cs, t) /\ k <= t.from /\ t.to <= j
  BY <1>1, <1>2, <1>3, <1>4 DEF e
<1>6. \A t, u \in all : t = u \/ t.to < u.from \/ u.to < t.from
  BY <1>2, <1>3, <1>4
<1>7. \A m \in k..j : cs[m] = "s" \/ \E t \in all : m \in t.from..t.to
  <2> TAKE m \in k..j
  <2>1. CASE m <= e
    <3>1. m \in new.from..new.to
      BY <1>1, <1>2, <2>1
    <3> QED
      BY <3>1
  <2>2. CASE ~(m <= e)
    <3>1. m \in (e + 1)..j
      BY <1>1, <2>2
    <3> QED
      BY <1>3, <3>1
  <2> QED
    BY <2>1, <2>2
<1> HIDE DEF all
<1>8. Covers(cs, all, k, j)
  BY <1>5, <1>6, <1>7 DEF Covers
<1> QED
  BY <1>8 DEF all, new

LEMMA Lexes ==
  ASSUME NEW cs \in Seq(Char)
  PROVE  \A k \in 1..(Len(cs) + 1) : LexedFrom(cs, k, Tokenize(cs)[k])
<1> DEFINE n == Len(cs)
           S == 1..(n + 1)
           rank == [k \in S |-> n + 1 - k]
           L == Tokenize(cs)
           A == {k \in S : LexedFrom(cs, k, L[k])}
<1>1. n \in Nat
  BY TextShape
<1>2. rank \in [S -> Nat]
  BY <1>1
<1>3. ASSUME NEW k \in S, \A j \in S : rank[j] < rank[k] => LexedFrom(cs, j, L[j])
      PROVE  LexedFrom(cs, k, L[k])
  <2>1. L[k] = LexStep(cs, L, k)
    BY TokenizeFollows
  <2>2. ASSUME NEW j \in S, k < j
        PROVE  /\ LexedFrom(cs, j, L[j]) /\ L[j].stop \in Nat
               /\ L[j] \in [tokens : SUBSET {Token(cs, m) : m \in 1..n}, stop : Nat]
    <3>1. rank[j] < rank[k]
      BY <1>1, <2>2
    <3>2. L[j] \in [tokens : SUBSET {Token(cs, m) : m \in 1..n}, stop : Nat]
      BY TokenizeFollows
    <3> QED
      BY <1>3, <3>1, <3>2
  <2> HIDE DEF L
  <2>3. CASE k = n + 1
    <3>1. L[k] = [tokens |-> {}, stop |-> 0]
      BY <2>1, <2>3, TextShape DEF LexStep
    <3>2. \A m \in k..Len(cs) : FALSE
      BY <1>1, <2>3
    <3>3. Covers(cs, {}, k, Len(cs))
      BY <3>2 DEF Covers
    <3> QED
      BY <3>1, <3>3 DEF LexedFrom
  <2>4. CASE k \in 1..n /\ cs[k] = "s"
    <3>1. L[k] = L[k + 1]
      BY <2>1, <2>4, TextShape DEF LexStep
    <3>2. k + 1 \in S /\ k < k + 1 /\ k \in Nat
      BY <1>1, <2>4
    <3>3. LexedFrom(cs, k + 1, L[k])
      BY <2>2, <3>1, <3>2
    <3>4. ASSUME NEW ts, NEW j \in Nat, Covers(cs, ts, k + 1, j)
          PROVE  Covers(cs, ts, k, j)
      <4>1. \A t \in ts : k + 1 <= t.from => k <= t.from
        <5> SUFFICES ASSUME NEW t \in ts, k + 1 <= t.from
                     PROVE  k <= t.from
          OBVIOUS
        <5>1. t.from \in DOMAIN cs
          BY <3>4 DEF Covers, IsToken
        <5>2. t.from \in Nat
          BY <5>1, TextShape
        <5> QED
          BY <3>2, <5>2
      <4>2. \A m \in k..j : m = k \/ m \in (k + 1)..j
        BY <3>2
      <4>3. cs[k] = "s"
        BY <2>4
      <4> QED
        BY <3>4, <4>1, <4>2, <4>3 DEF Covers
    <3>5. \A m \in (k + 1)..Len(cs) : m \in k..Len(cs) /\ m - 1 \in Nat
      BY <1>1, <3>2
    <3> QED
      BY <1>1, <3>3, <3>4, <3>5 DEF LexedFrom
  <2>5. CASE k \in 1..n /\ cs[k] # "s" /\ TokenEnd(cs, k) = 0
    <3>1. L[k] = [tokens |-> {}, stop |-> k]
      BY <2>1, <2>5, TextShape DEF LexStep
    <3>2. Stuck(cs, k) /\ k \in k..Len(cs)
      BY <1>1, <2>5, TokenAt
    <3>3. \A m \in k..(k - 1) : FALSE
      BY <1>1
    <3>4. Covers(cs, {}, k, k - 1)
      BY <3>3 DEF Covers
    <3> QED
      BY <3>1, <3>2, <3>4 DEF LexedFrom
  <2>6. CASE k \in 1..n /\ cs[k] # "s" /\ TokenEnd(cs, k) # 0
    <3> DEFINE e == TokenEnd(cs, k)
               rest == L[e + 1]
    <3>1. e \in k..n /\ e \in Nat /\ e + 1 \in S /\ k < e + 1
      <4>1. e \in k..n
        BY <2>6, TokenAt
      <4> HIDE DEF e
      <4> QED
        BY <1>1, <2>6, <4>1
    <3>2. LexedFrom(cs, e + 1, rest) /\ rest.stop \in Nat
          /\ rest \in [tokens : SUBSET {Token(cs, m) : m \in 1..n}, stop : Nat]
      BY <2>2, <3>1
    <3>3. L[k] = [rest EXCEPT !.tokens = @ \cup {Token(cs, k)}]
      BY <2>1, <2>6, TextShape DEF LexStep
    <3> HIDE DEF rest
    <3>4. L[k].stop = rest.stop /\ L[k].tokens = rest.tokens \cup {Token(cs, k)}
      BY <3>2, <3>3
    <3>5. CASE rest.stop = 0 /\ Covers(cs, rest.tokens, e + 1, Len(cs))
      <4>1. e <= Len(cs)
        BY <1>1, <3>1
      <4>2. Covers(cs, L[k].tokens, k, Len(cs))
        BY <1>1, <2>6, <3>4, <3>5, <4>1, CoversMore
      <4> QED
        BY <3>4, <3>5, <4>2 DEF LexedFrom
    <3>6. CASE /\ rest.stop \in (e + 1)..Len(cs) /\ Stuck(cs, rest.stop)
               /\ Covers(cs, rest.tokens, e + 1, rest.stop - 1)
      <4> DEFINE j == rest.stop - 1
      <4>1. j \in Nat /\ j <= Len(cs) /\ e <= j /\ rest.stop \in k..Len(cs)
        <5> HIDE DEF e
        <5> QED
          BY <1>1, <3>1, <3>6
      <4> HIDE DEF j
      <4>2. Covers(cs, L[k].tokens, k, j)
        BY <1>1, <2>6, <3>4, <3>6, <4>1, CoversMore DEF j
      <4> QED
        BY <3>4, <3>6, <4>1, <4>2 DEF LexedFrom, j
    <3> QED
      BY <3>2, <3>5, <3>6 DEF LexedFrom
  <2> QED
    BY <1>1, <2>3, <2>4, <2>5, <2>6
<1>4. \A k \in S : (\A j \in S : rank[j] < rank[k] => j \in A) => k \in A
  BY <1>3
<1> HIDE DEF S, rank, A
<1>5. S \subseteq A
  BY <1>2, <1>4, RankInduction
<1> QED
  BY <1>5 DEF S, A

(* Property LexesTheText for every text: the tokens are the longest ones   *)
(* from left to right, everything else is blank, the lexer stops where it  *)
(* must, and the text of a string is its characters without the            *)
(* backslashes that escape, an escaped n, r or t being a control character *)
(* (lexer.rs 30-171).                                                      *)
THEOREM EveryTextIsLexed ==
  ASSUME IsText
  PROVE  LexesTheText
<1>1. chars \in Seq(Char) /\ 1 \in 1..(Len(chars) + 1) /\ Len(chars) \in Nat
  BY TextShape DEF IsText
<1>2. LexedFrom(chars, 1, Tokenize(chars)[1])
  BY <1>1, Lexes
<1> QED
  BY <1>2 DEF LexedFrom, LexesTheText

-----------------------------------------------------------------------------
(* What one call of the parser returns.                                    *)

Result(ts) == [nodes : Seq(TreeNode(ts)), at : 0..(Len(ts) + 1)]

(* A function of the parser fails, or has consumed tokens; what it does    *)
(* after an operand may consume none.                                      *)
Reached(ts, c) ==
  {r \in Result(ts) : r.at = 0 \/ c[3] < r.at \/ (c[1] = "more" /\ r.at = c[3])}

CallRank(ts, c) == 8 * (Len(ts) + 1 - c[3]) + (8 - c[2])

(* A token that is not the end is one of the tokens.                        *)
LEMMA Peeks ==
  ASSUME NEW ts \in Seq(Lexical), NEW i \in Nat, Peek(ts, i) # "end"
  PROVE  i \in 1..Len(ts) /\ ts[i] = Peek(ts, i)
BY DEF Peek

(* Beyond the tokens there is only the end, which is no token.              *)
LEMMA TokensShape ==
  ASSUME NEW ts \in Seq(Lexical)
  PROVE  /\ Len(ts) \in Nat /\ DOMAIN ts = 1..Len(ts)
         /\ \A i \in 1..Len(ts) : ts[i] \in Lexical /\ Peek(ts, i) = ts[i] /\ ts[i] # "end"
         /\ \A i \in Nat : i \notin 1..Len(ts) => Peek(ts, i) = "end"
<1>1. Len(ts) \in Nat /\ DOMAIN ts = 1..Len(ts)
  OBVIOUS
<1>2. \A i \in 1..Len(ts) : ts[i] \in Lexical
  BY <1>1
<1>3. "end" \notin Lexical
  BY DEF Lexical
<1> QED
  BY <1>1, <1>2, <1>3 DEF Peek

(* The results the parser is made of, and where they leave it: a failure.   *)
LEMMA FailedIs ==
  ASSUME NEW ts \in Seq(Lexical)
  PROVE  Failed \in Result(ts) /\ Failed.at = 0
<1> DEFINE N == TreeNode(ts)
<1> HIDE DEF N
<1>1. <<>> \in Seq(N) /\ 0 \in 0..(Len(ts) + 1)
  BY TokensShape
<1> QED
  BY <1>1 DEF Failed, Result, N

(* Nothing read.                                                            *)
LEMMA NothingIs ==
  ASSUME NEW ts \in Seq(Lexical), NEW i \in 1..(Len(ts) + 1)
  PROVE  Nothing(i) \in Result(ts) /\ Nothing(i).at = i /\ Nothing(i).nodes = <<>>
<1> DEFINE N == TreeNode(ts)
<1> HIDE DEF N
<1>1. <<>> \in Seq(N) /\ i \in 0..(Len(ts) + 1)
  BY TokensShape
<1> QED
  BY <1>1 DEF Nothing, Result, N

(* A failure of either part is a failure of both.                           *)
LEMMA ThenFails ==
  ASSUME NEW r, NEW s, r.at = 0 \/ s.at = 0
  PROVE  Then(r, s) = Failed
BY DEF Then, IsError

(* No node is built on a failure.                                           *)
LEMMA BuiltFails ==
  ASSUME NEW r, NEW kind, NEW i, NEW j, r.at = 0
  PROVE  Built(r, kind, i, j) = Failed
BY DEF Built, IsError

(* Two results in a row.                                                    *)
LEMMA ThenIs ==
  ASSUME NEW ts \in Seq(Lexical), NEW r \in Result(ts), NEW s \in Result(ts), r.at # 0, s.at # 0
  PROVE  /\ Then(r, s) \in Result(ts)
         /\ Then(r, s).nodes = r.nodes \o s.nodes /\ Then(r, s).at = s.at
<1> DEFINE N == TreeNode(ts)
<1> HIDE DEF N
<1>1. r.nodes \in Seq(N) /\ s.nodes \in Seq(N) /\ s.at \in 0..(Len(ts) + 1)
  BY DEF Result, N
<1>2. r.nodes \o s.nodes \in Seq(N)
  BY <1>1
<1>3. Then(r, s) = [nodes |-> r.nodes \o s.nodes, at |-> s.at]
  BY DEF Then, IsError
<1> QED
  BY <1>1, <1>2, <1>3 DEF Result, N

IsNode(ts, kind, i, j) == <<kind, i, j>> \in TreeNode(ts)

(* A node built on a result.                                                *)
LEMMA BuildsOn ==
  ASSUME NEW ts \in Seq(Lexical), NEW r \in Result(ts), r.at # 0,
         NEW kind, NEW i, NEW j, IsNode(ts, kind, i, j)
  PROVE  /\ Built(r, kind, i, j) \in Result(ts)
         /\ Built(r, kind, i, j).nodes = Append(r.nodes, <<kind, i, j>>)
         /\ Built(r, kind, i, j).at = r.at
<1> DEFINE N == TreeNode(ts)
           d == <<kind, i, j>>
<1>1. d \in N
  BY DEF IsNode
<1>2. Built(r, kind, i, j) = [r EXCEPT !.nodes = Append(@, d)]
  BY DEF Built, IsError
<1> HIDE DEF N, d
<1>3. r \in [nodes : Seq(N), at : 0..(Len(ts) + 1)]
  BY DEF Result, N
<1>4. Append(r.nodes, d) \in Seq(N)
  BY <1>1, <1>3
<1>5. Built(r, kind, i, j) = [nodes |-> Append(r.nodes, d), at |-> r.at]
  BY <1>2, <1>3
<1> QED
  BY <1>3, <1>4, <1>5 DEF Result, N, d

LEMMA BuiltIs ==
  ASSUME NEW ts \in Seq(Lexical), NEW r \in Result(ts), r.at # 0,
         NEW kind \in {"lit", "path", "not", "minus", "bin"},
         NEW i \in 1..Len(ts), NEW j \in 1..Len(ts)
  PROVE  /\ Built(r, kind, i, j) \in Result(ts)
         /\ Built(r, kind, i, j).nodes = Append(r.nodes, <<kind, i, j>>)
         /\ Built(r, kind, i, j).at = r.at
<1>1. IsNode(ts, kind, i, j)
  BY DEF IsNode, TreeNode
<1> QED
  BY <1>1, BuildsOn

(* The levels and their operators.                                          *)
LEMMA LevelNames ==
  /\ \A level \in Level : Operators(level) \subseteq Lexical /\ "end" \notin Operators(level)
                          /\ "." \notin Operators(level) /\ ")" \notin Operators(level)
  /\ \A level \in {NotLevel, MinusLevel} :
       /\ Operators(level) = {} /\ Prefixes[level] \in Lexical /\ Prefixes[level] # "end"
       /\ PrefixNode[level] \in {"not", "minus"}
  /\ Operators(PrimaryLevel) = {}
  /\ Level = LeftAssociative \cup {CompareLevel, NotLevel, MinusLevel, PrimaryLevel}
  /\ \A level \in LeftAssociative : level \in Int /\ level \notin {CompareLevel, NotLevel, MinusLevel, PrimaryLevel}
<1> USE DEF Level, OrLevel, AndLevel, NotLevel, CompareLevel, AddLevel, MulLevel, MinusLevel,
            PrimaryLevel, LeftAssociative
<1>1. \A level \in Level : level \in {1, 2, 3, 4, 5, 6, 7, 8}
  OBVIOUS
<1>2. \A level \in Level : Operators(level) \subseteq Lexical /\ "end" \notin Operators(level)
                          /\ "." \notin Operators(level) /\ ")" \notin Operators(level)
  BY <1>1 DEF Operators, Lexical
<1>3. \A level \in {NotLevel, MinusLevel} :
       /\ Operators(level) = {} /\ Prefixes[level] \in Lexical /\ Prefixes[level] # "end"
       /\ PrefixNode[level] \in {"not", "minus"}
  BY DEF Operators, Prefixes, PrefixNode, Lexical
<1>4. Operators(PrimaryLevel) = {}
  BY DEF Operators
<1> QED
  BY <1>1, <1>2, <1>3, <1>4

(* What a function of the parser returns depends only on calls of smaller   *)
(* rank, and it consumes tokens.                                            *)
LEMMA CallReturns ==
  ASSUME NEW ts \in Seq(Lexical), NEW c \in Call(ts), NEW g, NEW h,
         \A d \in Call(ts) : CallRank(ts, d) < CallRank(ts, c) => g[d] \in Reached(ts, d) /\ h[d] = g[d]
  PROVE  Returned(ts, c, g) \in Reached(ts, c) /\ Returned(ts, c, h) = Returned(ts, c, g)
<1> DEFINE n == Len(ts)
<1>1. n \in Nat /\ \A k \in 1..n : ts[k] \in Lexical
  BY TokensShape
<1>2. PICK part \in {"parse", "more"}, level \in Level, i \in 1..(n + 1) : c = <<part, level, i>>
  BY DEF Call
<1>3. ASSUME NEW q \in {"parse", "more"}, NEW l \in Level, NEW j \in 1..(n + 1),
             i < j \/ (i = j /\ level < l)
      PROVE  /\ <<q, l, j>> \in Call(ts)
             /\ g[<<q, l, j>>] \in Reached(ts, <<q, l, j>>) /\ h[<<q, l, j>>] = g[<<q, l, j>>]
  <2>1. <<q, l, j>> \in Call(ts)
    BY DEF Call
  <2>2. 8 * (n + 1 - j) + (8 - l) < 8 * (n + 1 - i) + (8 - level)
    BY <1>1, <1>3 DEF Level
  <2>3. CallRank(ts, <<q, l, j>>) < CallRank(ts, c)
    BY <1>2, <2>2 DEF CallRank
  <2> QED
    BY <2>1, <2>3
<1>4. \A q \in {"parse", "more"}, l \in Level, j \in 1..(n + 1) : \A r :
        r \in Reached(ts, <<q, l, j>>) <=>
          r \in Result(ts) /\ (r.at = 0 \/ j < r.at \/ (q = "more" /\ r.at = j))
  BY DEF Reached
<1>5. \A r \in Result(ts) : r.at \in 0..(n + 1)
  BY DEF Result
<1>6. \A k \in 1..(n + 1) : Peek(ts, k) # "end" => k \in 1..n
  BY <1>1, Peeks
<1>7. Failed \in Reached(ts, c)
  <2>1. Failed \in Result(ts) /\ Failed.at = 0
    BY FailedIs
  <2> QED
    BY <1>2, <1>4, <2>1
<1> HIDE DEF n
<1>8. CASE part = "parse" /\ level = PrimaryLevel
  <2>1. Returned(ts, c, g) = Primary(ts, i, g) /\ Returned(ts, c, h) = Primary(ts, i, h)
    BY <1>2, <1>8 DEF Returned, Parse, PrimaryLevel, NotLevel, MinusLevel
  <2>2. CASE Peek(ts, i) = "lit"
    <3>1. i \in 1..n /\ i + 1 \in 1..(n + 1)
      BY <1>1, <1>6, <2>2
    <3> DEFINE r == Built(Nothing(i + 1), "lit", i, i)
    <3>2. r \in Result(ts) /\ r.at = i + 1
      <4>1. Nothing(i + 1) \in Result(ts) /\ Nothing(i + 1).at = i + 1 /\ i + 1 # 0
        BY <3>1, NothingIs DEF n
      <4> QED
        BY <3>1, <4>1, BuiltIs DEF n
    <3>3. Primary(ts, i, g) = r /\ Primary(ts, i, h) = r
      BY <2>2 DEF Primary
    <3> HIDE DEF r
    <3> QED
      BY <1>1, <1>2, <1>4, <2>1, <3>1, <3>2, <3>3
  <2>3. CASE Peek(ts, i) = "("
    <3>1. i \in 1..n /\ i + 1 \in 1..(n + 1)
      BY <1>1, <1>6, <2>3
    <3> DEFINE d == <<"parse", OrLevel, i + 1>>
               r == g[d]
    <3>2. r \in Reached(ts, d) /\ h[d] = r
      BY <1>1, <1>3, <3>1 DEF Level, OrLevel
    <3>3. r \in Result(ts) /\ (r.at = 0 \/ i + 1 < r.at)
      BY <1>4, <3>1, <3>2 DEF Level, OrLevel
    <3>4. Primary(ts, i, g) = Closed(ts, r) /\ Primary(ts, i, h) = Closed(ts, r)
      BY <2>3, <3>2 DEF Primary
    <3> HIDE DEF r, d
    <3>5. CASE r.at # 0 /\ Peek(ts, r.at) = ")"
      <4>1. r.at \in 1..n
        BY <1>1, <1>5, <1>6, <3>3, <3>5
      <4>2. Closed(ts, r) = [nodes |-> r.nodes, at |-> r.at + 1]
        <5>1. r \in [nodes : Seq(TreeNode(ts)), at : 0..(n + 1)]
          BY <3>3 DEF Result, n
        <5> QED
          BY <3>5, <5>1 DEF Closed, IsError
      <4>3. Closed(ts, r) \in Result(ts) /\ i < Closed(ts, r).at
        <5>1. r.nodes \in Seq(TreeNode(ts)) /\ r.at + 1 \in 0..(n + 1) /\ i < r.at + 1
          BY <1>1, <3>1, <3>3, <4>1 DEF Result
        <5> QED
          BY <4>2, <5>1 DEF Result, n
      <4> QED
        BY <1>2, <1>4, <2>1, <3>4, <4>3
    <3>6. CASE ~ (r.at # 0 /\ Peek(ts, r.at) = ")")
      BY <1>7, <2>1, <3>4, <3>6 DEF Closed, IsError
    <3> QED
      BY <3>5, <3>6
  <2>4. CASE Peek(ts, i) = "id"
    <3>1. i \in 1..n /\ i + 1 \in 1..(n + 1)
      BY <1>1, <1>6, <2>4
    <3> DEFINE d == <<"more", PrimaryLevel, i + 1>>
               r == g[d]
    <3>2. r \in Reached(ts, d) /\ h[d] = r
      BY <1>1, <1>3, <3>1 DEF Level, PrimaryLevel
    <3>3. r \in Result(ts) /\ (r.at = 0 \/ i + 1 <= r.at)
      BY <1>1, <1>4, <1>5, <3>1, <3>2 DEF Level, PrimaryLevel
    <3>4. /\ Primary(ts, i, g) = Built(r, "path", i, r.at - 1)
          /\ Primary(ts, i, h) = Built(r, "path", i, r.at - 1)
      BY <2>4, <3>2 DEF Primary
    <3> HIDE DEF r, d
    <3>5. CASE r.at = 0
      BY <1>7, <2>1, <3>4, <3>5, BuiltFails
    <3>6. CASE r.at # 0
      <4>1. r.at - 1 \in 1..n /\ i < r.at
        BY <1>1, <1>5, <3>1, <3>3, <3>6
      <4>2. Built(r, "path", i, r.at - 1) \in Result(ts) /\ Built(r, "path", i, r.at - 1).at = r.at
        BY <3>1, <3>3, <3>6, <4>1, BuiltIs DEF n
      <4> QED
        BY <1>2, <1>4, <2>1, <3>4, <4>1, <4>2
    <3> QED
      BY <3>5, <3>6
  <2>5. CASE Peek(ts, i) \notin {"lit", "(", "id"}
    BY <1>7, <2>1, <2>5 DEF Primary
  <2> QED
    BY <2>2, <2>3, <2>4, <2>5
<1>9. CASE part = "parse" /\ level \in {NotLevel, MinusLevel}
  <2>1. level + 1 \in Level /\ level < level + 1 /\ level \in Level /\ level # PrimaryLevel
    BY <1>9 DEF Level, NotLevel, MinusLevel, PrimaryLevel
  <2>2. /\ Returned(ts, c, g) = Parse(ts, level, i, g)
        /\ Returned(ts, c, h) = Parse(ts, level, i, h)
    BY <1>2, <1>9 DEF Returned
  <2>3. CASE Peek(ts, i) = Prefixes[level]
    <3>1. i \in 1..n /\ i + 1 \in 1..(n + 1)
      BY <1>1, <1>6, <1>9, <2>3, LevelNames
    <3> DEFINE d == <<"parse", level, i + 1>>
               r == g[d]
               kind == PrefixNode[level]
    <3>2. r \in Reached(ts, d) /\ h[d] = r
      BY <1>1, <1>3, <2>1, <3>1
    <3>3. r \in Result(ts) /\ (r.at = 0 \/ i + 1 < r.at)
      BY <1>4, <2>1, <3>1, <3>2
    <3>4. Parse(ts, level, i, g) = Built(r, kind, i, i) /\ Parse(ts, level, i, h) = Built(r, kind, i, i)
      BY <1>9, <2>1, <2>3, <3>2 DEF Parse
    <3>5. kind \in {"not", "minus"}
      BY <1>9, LevelNames
    <3> HIDE DEF r, d, kind
    <3>6. CASE r.at = 0
      BY <1>7, <2>2, <3>4, <3>6, BuiltFails
    <3>7. CASE r.at # 0
      <4>1. Built(r, kind, i, i) \in Result(ts) /\ Built(r, kind, i, i).at = r.at
        BY <3>1, <3>3, <3>5, <3>7, BuiltIs DEF n
      <4>2. i < r.at
        BY <1>1, <1>5, <3>1, <3>3, <3>7
      <4> QED
        BY <1>2, <1>4, <2>2, <3>4, <4>1, <4>2
    <3> QED
      BY <3>6, <3>7
  <2>4. CASE Peek(ts, i) # Prefixes[level]
    <3> DEFINE d == <<"parse", level + 1, i>>
    <3>1. g[d] \in Reached(ts, d) /\ h[d] = g[d]
      BY <1>3, <2>1
    <3>2. Parse(ts, level, i, g) = g[d] /\ Parse(ts, level, i, h) = h[d]
      BY <1>9, <2>1, <2>4 DEF Parse
    <3> QED
      BY <1>2, <1>4, <1>9, <2>1, <2>2, <3>1, <3>2
  <2> QED
    BY <2>3, <2>4
<1>10. CASE part = "parse" /\ level \notin {PrimaryLevel, NotLevel, MinusLevel}
  <2>1. level + 1 \in Level /\ level < level + 1
    BY <1>10 DEF Level, PrimaryLevel
  <2> DEFINE d == <<"parse", level + 1, i>>
             r == g[d]
             e == <<"more", level, r.at>>
             s == g[e]
  <2>2. r \in Reached(ts, d) /\ h[d] = r
    BY <1>3, <2>1
  <2>3. r \in Result(ts) /\ (r.at = 0 \/ i < r.at)
    BY <1>4, <2>1, <2>2
  <2>4. /\ Returned(ts, c, g) = Then(r, s)
        /\ Returned(ts, c, h) = Then(r, h[e])
    BY <1>2, <1>10, <2>2 DEF Returned, Parse
  <2>5. CASE r.at = 0
    <3>1. Then(r, s) = Failed /\ Then(r, h[e]) = Failed
      BY <2>5, ThenFails
    <3> QED
      BY <1>7, <2>4, <3>1
  <2>6. CASE r.at # 0
    <3>1. r.at \in 1..(n + 1) /\ i < r.at
      BY <1>1, <1>5, <2>3, <2>6
    <3>2. s \in Reached(ts, e) /\ h[e] = s
      BY <1>3, <3>1
    <3>3. s \in Result(ts) /\ (s.at = 0 \/ r.at <= s.at)
      <4> HIDE DEF r, d, s
      <4> QED
        BY <1>1, <1>4, <1>5, <3>1, <3>2
    <3> HIDE DEF r, s, d, e
    <3>4. CASE s.at = 0
      BY <1>7, <2>4, <3>2, <3>4, ThenFails
    <3>5. CASE s.at # 0
      <4>1. Then(r, s) \in Result(ts) /\ Then(r, s).at = s.at
        BY <2>3, <2>6, <3>3, <3>5, ThenIs
      <4>2. i < s.at
        BY <1>1, <1>5, <3>1, <3>3, <3>5
      <4> QED
        BY <1>2, <1>4, <2>4, <3>2, <4>1, <4>2
    <3> QED
      BY <3>4, <3>5
  <2> QED
    BY <2>5, <2>6
<1>11. ASSUME part = "more", Returned(ts, c, g) = Nothing(i), Returned(ts, c, h) = Nothing(i)
       PROVE  Returned(ts, c, g) \in Reached(ts, c) /\ Returned(ts, c, h) = Returned(ts, c, g)
  <2>1. Nothing(i) \in Result(ts) /\ Nothing(i).at = i
    BY NothingIs DEF n
  <2> QED
    BY <1>2, <1>4, <1>11, <2>1
<1>12. CASE part = "more" /\ level = PrimaryLevel
  <2>1. /\ Returned(ts, c, g) = Path(ts, i, g)
        /\ Returned(ts, c, h) = Path(ts, i, h)
    BY <1>2, <1>12 DEF Returned
  <2>2. CASE Peek(ts, i) # "."
    BY <1>11, <1>12, <2>1, <2>2 DEF Path
  <2>3. CASE Peek(ts, i) = "." /\ Peek(ts, i + 1) = "id"
    <3>1. i \in 1..n /\ i + 1 \in 1..n
      BY <1>1, <1>6, <2>3
    <3> DEFINE d == <<"more", PrimaryLevel, i + 2>>
               r == g[d]
    <3>2. i + 2 \in 1..(n + 1)
      BY <1>1, <3>1
    <3>3. r \in Reached(ts, d) /\ h[d] = r
      BY <1>1, <1>3, <3>1, <3>2 DEF Level, PrimaryLevel
    <3>4. r \in Result(ts) /\ (r.at = 0 \/ i < r.at)
      BY <1>1, <1>4, <1>5, <3>1, <3>2, <3>3 DEF Level, PrimaryLevel
    <3>5. Path(ts, i, g) = r /\ Path(ts, i, h) = r
      BY <2>3, <3>3 DEF Path
    <3> HIDE DEF r, d
    <3> QED
      BY <1>2, <1>4, <2>1, <3>4, <3>5
  <2>4. CASE Peek(ts, i) = "." /\ Peek(ts, i + 1) # "id"
    BY <1>7, <2>1, <2>4 DEF Path
  <2> QED
    BY <2>2, <2>3, <2>4
<1>13. CASE part = "more" /\ level # PrimaryLevel
  <2>1. level + 1 \in Level /\ level < level + 1
    BY <1>13 DEF Level, PrimaryLevel
  <2>2. /\ Returned(ts, c, g) = More(ts, level, i, g)
        /\ Returned(ts, c, h) = More(ts, level, i, h)
    BY <1>2, <1>13 DEF Returned
  <2>3. CASE Peek(ts, i) \notin Operators(level)
    BY <1>11, <1>13, <2>2, <2>3 DEF More
  <2>4. CASE Peek(ts, i) \in Operators(level)
    <3>1. i \in 1..n /\ i + 1 \in 1..(n + 1)
      BY <1>1, <1>6, <2>4, LevelNames
    <3> DEFINE d == <<"parse", level + 1, i + 1>>
               r == g[d]
               b == Built(r, "bin", i, i)
               e == <<"more", level, r.at>>
               s == g[e]
    <3>2. r \in Reached(ts, d) /\ h[d] = r
      BY <1>1, <1>3, <2>1, <3>1
    <3>3. r \in Result(ts) /\ (r.at = 0 \/ i + 1 < r.at)
      BY <1>4, <2>1, <3>1, <3>2
    <3>4. /\ More(ts, level, i, g) = IF level = CompareLevel THEN b ELSE Then(b, s)
          /\ More(ts, level, i, h) = IF level = CompareLevel THEN b ELSE Then(b, h[e])
      BY <2>4, <3>2 DEF More
    <3>5. CASE r.at = 0
      <4>1. b = Failed /\ Failed.at = 0
        BY <3>5, BuiltFails, FailedIs
      <4>2. Then(b, s) = Failed /\ Then(b, h[e]) = Failed
        <5> HIDE DEF b, s, e
        <5> QED
          BY <4>1, ThenFails
      <4> HIDE DEF b, s, r, d, e
      <4> QED
        BY <1>7, <2>2, <3>4, <4>1, <4>2
    <3>6. CASE r.at # 0
      <4>1. r.at \in 1..(n + 1) /\ i < r.at
        BY <1>1, <1>5, <3>1, <3>3, <3>6
      <4>2. s \in Reached(ts, e) /\ h[e] = s
        BY <1>3, <4>1
      <4>3. s \in Result(ts) /\ (s.at = 0 \/ r.at <= s.at)
        BY <1>1, <1>4, <1>5, <4>1, <4>2
      <4>4. b \in Result(ts) /\ b.at = r.at
        BY <3>1, <3>3, <3>6, BuiltIs DEF n
      <4> HIDE DEF r, s, d, e, b
      <4>5. CASE level = CompareLevel
        BY <1>2, <1>4, <2>2, <3>4, <4>1, <4>4, <4>5
      <4>6. CASE level # CompareLevel /\ s.at = 0
        BY <1>7, <2>2, <3>4, <4>2, <4>6, ThenFails
      <4>7. CASE level # CompareLevel /\ s.at # 0
        <5>1. Then(b, s) \in Result(ts) /\ Then(b, s).at = s.at
          BY <3>6, <4>3, <4>4, <4>7, ThenIs
        <5>2. i < s.at
          BY <1>1, <1>5, <4>1, <4>3, <4>7
        <5> QED
          BY <1>2, <1>4, <2>2, <3>4, <4>2, <4>7, <5>1, <5>2
      <4> QED
        BY <4>5, <4>6, <4>7
    <3> QED
      BY <3>5, <3>6
  <2> QED
    BY <2>3, <2>4
<1> QED
  BY <1>8, <1>9, <1>10, <1>12, <1>13

(* The parser returns from every call, having moved on.                    *)
LEMMA ParserFollows ==
  ASSUME NEW ts \in Seq(Lexical)
  PROVE  \A c \in Call(ts) : /\ Parser(ts)[c] \in Reached(ts, c)
                             /\ Parser(ts)[c] = Returned(ts, c, Parser(ts))
<1> DEFINE S == Call(ts)
           top == 8 * Len(ts) + 7
           rank == [c \in S |-> CallRank(ts, c)]
           V == Result(ts)
           Clean(g) == [c \in S |-> IF g[c] \in Reached(ts, c) THEN g[c] ELSE Failed]
           G == [p \in S \X [S -> V] |-> Returned(ts, p[1], Clean(p[2]))]
           Defined(f) == f = [c \in S |-> Returned(ts, c, f)]
<1>1. Len(ts) \in Nat /\ top \in Nat
  BY TokensShape
<1>2. \A c \in S : CallRank(ts, c) \in 0..top
  <2> SUFFICES ASSUME NEW part \in {"parse", "more"}, NEW level \in Level, NEW i \in 1..(Len(ts) + 1)
               PROVE  8 * (Len(ts) + 1 - i) + (8 - level) \in 0..top
    BY DEF Call, CallRank
  <2> QED
    BY <1>1 DEF Level
<1>3. rank \in [S -> 0..top] /\ rank \in [S -> Nat]
  BY <1>1, <1>2
<1>4. \A c \in S : Reached(ts, c) \subseteq V /\ Failed \in Reached(ts, c)
  BY FailedIs DEF Reached
<1>5. \A g : \A c \in S : Clean(g)[c] \in Reached(ts, c)
  BY <1>4
<1>6. \A g : \A c \in S : Returned(ts, c, Clean(g)) \in Reached(ts, c)
  <2> SUFFICES ASSUME NEW g, NEW c \in S
               PROVE  Returned(ts, c, Clean(g)) \in Reached(ts, c)
    OBVIOUS
  <2> DEFINE h == Clean(g)
  <2>1. \A d \in S : h[d] \in Reached(ts, d)
    BY <1>5
  <2> HIDE DEF h
  <2>2. Returned(ts, c, h) \in Reached(ts, c)
    BY <2>1, CallReturns
  <2> QED
    BY <2>2 DEF h
<1>7. G \in [S \X [S -> V] -> V]
  BY <1>4, <1>6
<1>17. \A c \in S : \A g \in [S -> V] : G[<<c, g>>] = Returned(ts, c, Clean(g))
  OBVIOUS
<1>18. \A c \in S : rank[c] = CallRank(ts, c)
  OBVIOUS
<1>8. \A c \in S : \A g, h \in [S -> V] :
        (\A d \in S : rank[d] < rank[c] => g[d] = h[d]) => G[<<c, g>>] = G[<<c, h>>]
  <2> HIDE DEF G, rank, V
  <2> SUFFICES ASSUME NEW c \in S, NEW g \in [S -> V], NEW h \in [S -> V],
                      \A d \in S : rank[d] < rank[c] => g[d] = h[d]
               PROVE  G[<<c, g>>] = G[<<c, h>>]
    OBVIOUS
  <2> DEFINE a == Clean(g)
             b == Clean(h)
  <2>1. \A d \in S : CallRank(ts, d) < CallRank(ts, c) => a[d] = b[d]
    BY <1>18
  <2>2. \A d \in S : a[d] \in Reached(ts, d)
    BY <1>5
  <2> HIDE DEF a, b
  <2>3. Returned(ts, c, b) = Returned(ts, c, a)
    BY <2>1, <2>2, CallReturns
  <2> QED
    BY <1>17, <2>3 DEF a, b
<1>9. PICK f \in [S -> V] : \A c \in S : f[c] = Returned(ts, c, Clean(f))
  <2>1. Grounded(S, top, rank, V, Failed, G)
    BY <1>1, <1>3, <1>7, <1>8, FailedIs DEF Grounded
  <2> HIDE DEF G, rank, S, V, top, Clean
  <2>3. \E f \in [S -> V] : \A c \in S : f[c] = G[<<c, f>>]
    BY <2>1, RankRecursion
  <2> QED
    BY <1>17, <2>3
<1>10. Clean(f) = f
  <2>1. \A c \in S : f[c] \in Reached(ts, c)
    BY <1>6, <1>9
  <2>2. Clean(f) = [c \in S |-> f[c]]
    BY <2>1
  <2> QED
    BY <1>9, <2>2
<1>11. Defined(f)
  BY <1>9, <1>10
<1>12. Parser(ts) = CHOOSE g : Defined(g)
  BY DEF Parser
<1> DEFINE P == Parser(ts)
<1>13. Defined(P)
  <2> HIDE DEF Defined
  <2> QED
    BY <1>11, <1>12
<1> HIDE DEF P
<1>14. \A c \in S : P[c] = Returned(ts, c, P)
  BY <1>13
<1> DEFINE A == {c \in S : P[c] \in Reached(ts, c)}
<1>15. ASSUME NEW c \in S, \A d \in S : rank[d] < rank[c] => d \in A
       PROVE  c \in A
  <2>1. \A d \in S : CallRank(ts, d) < CallRank(ts, c) => P[d] \in Reached(ts, d) /\ P[d] = P[d]
    BY <1>15
  <2>2. Returned(ts, c, P) \in Reached(ts, c)
    BY <2>1, CallReturns
  <2> QED
    BY <1>14, <2>2
<1>16. S \subseteq A
  <2> HIDE DEF A, rank, S
  <2> QED
    BY <1>3, <1>15, RankInduction
<1> QED
  BY <1>14, <1>16 DEF P

-----------------------------------------------------------------------------
(* The grammar.                                                            *)

SpanRank(ts, s) == (IF s[2] <= s[3] THEN 8 * (s[3] - s[2] + 1) ELSE 0) + (8 - s[1])

(* Operands of an infix operator between i and j.                          *)
OperandsLike(ts, level, i, j, g, h) ==
  \A k \in (i + 1)..(j - 1), l \in {level, level + 1} :
    /\ g[<<l, i, k - 1>>] \subseteq Seq(TreeNode(ts))
    /\ g[<<l, k + 1, j>>] \subseteq Seq(TreeNode(ts))
    /\ h[<<l, i, k - 1>>] = g[<<l, i, k - 1>>]
    /\ h[<<l, k + 1, j>>] = g[<<l, k + 1, j>>]

(* The infix derivations of a span depend only on smaller spans.            *)
LEMMA InfixLike ==
  ASSUME NEW ts \in Seq(Lexical), NEW level \in Level, NEW i \in 1..Len(ts), NEW j \in 1..Len(ts),
         level + 1 \in Level, NEW g, NEW h, OperandsLike(ts, level, i, j, g, h)
  PROVE  /\ Infix(ts, level, i, j, g) \subseteq Seq(TreeNode(ts))
         /\ Infix(ts, level, i, j, h) = Infix(ts, level, i, j, g)
<1> DEFINE left == IF level \in LeftAssociative THEN level ELSE level + 1
           K == {m \in (i + 1)..(j - 1) : ts[m] \in Operators(level)}
           N == TreeNode(ts)
           Part(f, k) == {p[1] \o Append(p[2], <<"bin", k, k>>) :
                            p \in f[<<left, i, k - 1>>] \X f[<<level + 1, k + 1, j>>]}
<1>1. left \in {level, level + 1} /\ K \subseteq (i + 1)..(j - 1) /\ Len(ts) \in Nat
  BY TokensShape
<1>2. \A f : Infix(ts, level, i, j, f) = UNION {Part(f, k) : k \in K}
  BY DEF Infix
<1>3. \A k \in K : <<"bin", k, k>> \in N
  BY <1>1 DEF TreeNode
<1> HIDE DEF left, K, N
<1>4. ASSUME NEW k \in K
      PROVE  Part(h, k) = Part(g, k) /\ Part(g, k) \subseteq Seq(N)
  <2> DEFINE L == g[<<left, i, k - 1>>]
             R == g[<<level + 1, k + 1, j>>]
             d == <<"bin", k, k>>
  <2>1. L \subseteq Seq(N) /\ R \subseteq Seq(N) /\ h[<<left, i, k - 1>>] = L
        /\ h[<<level + 1, k + 1, j>>] = R
    BY <1>1 DEF N, OperandsLike
  <2>2. d \in N
    BY <1>3
  <2> DEFINE U == {p[1] \o Append(p[2], d) : p \in L \X R}
  <2>3. Part(h, k) = U /\ Part(g, k) = U
    BY <2>1
  <2> HIDE DEF L, R, d, Part
  <2>4. \A l \in L, r \in R : l \o Append(r, d) \in Seq(N)
    BY <2>1, <2>2
  <2>5. U \subseteq Seq(N)
    <3> SUFFICES ASSUME NEW x \in U
                 PROVE  x \in Seq(N)
      OBVIOUS
    <3>1. PICK p \in L \X R : x = p[1] \o Append(p[2], d)
      OBVIOUS
    <3> QED
      BY <2>4, <3>1
  <2> HIDE DEF U
  <2> QED
    BY <2>3, <2>5
<1> HIDE DEF Part
<1>5. {Part(h, k) : k \in K} = {Part(g, k) : k \in K}
  BY <1>4
<1>6. UNION {Part(g, k) : k \in K} \subseteq Seq(N)
  BY <1>4
<1> QED
  BY <1>2, <1>5, <1>6 DEF N

(* So do all its derivations.                                               *)
LEMMA DerivedLike ==
  ASSUME NEW ts \in Seq(Lexical), NEW s \in Span(ts), NEW g, NEW h,
         \A d \in Span(ts) :
           SpanRank(ts, d) < SpanRank(ts, s) => g[d] \subseteq Seq(TreeNode(ts)) /\ h[d] = g[d]
  PROVE  /\ Derived(ts, s[1], s[2], s[3], g) \subseteq Seq(TreeNode(ts))
         /\ Derived(ts, s[1], s[2], s[3], h) = Derived(ts, s[1], s[2], s[3], g)
<1> DEFINE n == Len(ts)
           N == TreeNode(ts)
<1>1. n \in Nat /\ \A k \in 1..n : ts[k] \in Lexical
  BY TokensShape
<1>2. PICK level \in Level, i \in 1..(n + 1), j \in 0..n : s = <<level, i, j>>
  BY DEF Span
<1>3. ASSUME NEW l \in Level, NEW a \in 1..(n + 1), NEW b \in 0..n, i <= j,
             (a = i /\ b = j /\ level < l) \/ (i <= a /\ b < j) \/ (i < a /\ b <= j)
      PROVE  g[<<l, a, b>>] \subseteq Seq(N) /\ h[<<l, a, b>>] = g[<<l, a, b>>]
  <2>1. <<l, a, b>> \in Span(ts)
    BY DEF Span
  <2>2. (IF a <= b THEN 8 * (b - a + 1) ELSE 0) + (8 - l) < 8 * (j - i + 1) + (8 - level)
    BY <1>1, <1>3 DEF Level
  <2>3. SpanRank(ts, <<l, a, b>>) < SpanRank(ts, s)
    BY <1>2, <1>3, <2>2 DEF SpanRank
  <2> QED
    BY <2>1, <2>3
<1>4. \A kind \in {"lit", "path", "not", "minus", "bin"}, a, b \in 1..n : <<kind, a, b>> \in N
  BY DEF TreeNode
<1> DEFINE D(f) == Derived(ts, level, i, j, f)
<1>5. SUFFICES D(g) \subseteq Seq(N) /\ D(h) = D(g)
  BY <1>2
<1> HIDE DEF n, N
<1>6. CASE i > j
  BY <1>6 DEF Derived
<1>7. CASE i <= j /\ level = PrimaryLevel
  <2>1. i \in 1..n /\ j \in 1..n /\ i + 1 \in 1..(n + 1) /\ j - 1 \in 0..n
    BY <1>1, <1>7
  <2> DEFINE I == g[<<OrLevel, i + 1, j - 1>>]
             A == {<<<<"lit", k, k>>>> : k \in {m \in {i} : i = j /\ ts[m] = "lit"}}
             B == {<<<<"path", k, j>>>> : k \in {m \in {i} : IsPath(ts, m, j)}}
             C(f) == IF ts[i] = "(" /\ ts[j] = ")" THEN f[<<OrLevel, i + 1, j - 1>>] ELSE {}
  <2>2. I \subseteq Seq(N) /\ h[<<OrLevel, i + 1, j - 1>>] = I
    BY <1>1, <1>3, <1>7, <2>1 DEF Level, OrLevel
  <2>3. D(g) = A \cup B \cup C(g) /\ D(h) = A \cup B \cup C(h)
    BY <1>1, <1>7 DEF Derived, Primaries, PrimaryLevel, NotLevel, MinusLevel
  <2>4. C(h) = C(g) /\ C(g) \subseteq Seq(N)
    BY <2>2
  <2>5. A \subseteq Seq(N) /\ B \subseteq Seq(N)
    <3>1. <<"lit", i, i>> \in N /\ <<"path", i, j>> \in N
      BY <1>4, <2>1
    <3> DEFINE a == <<"lit", i, i>>
               b == <<"path", i, j>>
    <3>2. A \subseteq {<<a>>} /\ B \subseteq {<<b>>}
      OBVIOUS
    <3> HIDE DEF A, B, a, b
    <3>3. <<a>> \in Seq(N) /\ <<b>> \in Seq(N)
      BY <3>1 DEF a, b
    <3> QED
      BY <3>2, <3>3
  <2> HIDE DEF A, B, C, D
  <2> QED
    BY <2>3, <2>4, <2>5
<1>8. CASE i <= j /\ level \in {NotLevel, MinusLevel}
  <2>1. i \in 1..n /\ j \in 1..n /\ i + 1 \in 1..(n + 1) /\ level + 1 \in Level /\ level < level + 1
    BY <1>1, <1>8 DEF Level, NotLevel, MinusLevel
  <2> DEFINE I == g[<<level, i + 1, j>>]
             J == g[<<level + 1, i, j>>]
             d == <<PrefixNode[level], i, i>>
             A == IF ts[i] # Prefixes[level] THEN {} ELSE {Append(t, d) : t \in I}
  <2>2. I \subseteq Seq(N) /\ h[<<level, i + 1, j>>] = I
    BY <1>1, <1>3, <1>8, <2>1
  <2>3. J \subseteq Seq(N) /\ h[<<level + 1, i, j>>] = J
    BY <1>3, <1>8, <2>1
  <2>4. D(g) = J \cup A /\ D(h) = J \cup A
    <3>1. i \in Int /\ j \in Int /\ ~ (i > j)
      BY <1>1, <1>8
    <3>2. ASSUME NEW f, f[<<level + 1, i, j>>] = J, f[<<level, i + 1, j>>] = I
          PROVE  D(f) = J \cup A
      <4>1. D(f) = f[<<level + 1, i, j>>] \cup Prefixed(ts, level, i, j, f)
        BY <1>8, <3>1 DEF Derived, PrimaryLevel, NotLevel, MinusLevel
      <4>2. Prefixed(ts, level, i, j, f) = A
        BY <3>2 DEF Prefixed
      <4> QED
        BY <3>2, <4>1, <4>2
    <3> QED
      BY <2>2, <2>3, <3>2
  <2>5. d \in N
    BY <1>4, <1>8, <2>1, LevelNames
  <2> HIDE DEF D, I, J, d
  <2>6. A \subseteq Seq(N)
    BY <2>2, <2>5
  <2> HIDE DEF A
  <2> QED
    BY <2>3, <2>4, <2>6
<1>9. CASE i <= j /\ level \notin {PrimaryLevel, NotLevel, MinusLevel}
  <2>1. i \in 1..n /\ j \in 1..n /\ level + 1 \in Level /\ level < level + 1
    BY <1>1, <1>9 DEF Level, PrimaryLevel
  <2> DEFINE J == g[<<level + 1, i, j>>]
  <2>2. J \subseteq Seq(N) /\ h[<<level + 1, i, j>>] = J
    BY <1>3, <1>9, <2>1
  <2>3. OperandsLike(ts, level, i, j, g, h)
    <3> SUFFICES ASSUME NEW k \in (i + 1)..(j - 1), NEW l \in {level, level + 1}
                 PROVE  /\ g[<<l, i, k - 1>>] \subseteq Seq(N)
                        /\ g[<<l, k + 1, j>>] \subseteq Seq(N)
                        /\ h[<<l, i, k - 1>>] = g[<<l, i, k - 1>>]
                        /\ h[<<l, k + 1, j>>] = g[<<l, k + 1, j>>]
      BY DEF OperandsLike, N
    <3>1. l \in Level /\ k - 1 \in 0..n /\ k - 1 < j /\ k + 1 \in 1..(n + 1) /\ i < k + 1
          /\ i \in 1..(n + 1) /\ i <= i
      BY <1>1, <2>1
    <3> QED
      BY <1>3, <1>9, <3>1
  <2>4. /\ Infix(ts, level, i, j, g) \subseteq Seq(N)
        /\ Infix(ts, level, i, j, h) = Infix(ts, level, i, j, g)
    BY <2>1, <2>3, InfixLike DEF n, N
  <2>5. /\ D(g) = J \cup Infix(ts, level, i, j, g)
        /\ D(h) = J \cup Infix(ts, level, i, j, h)
    BY <1>1, <1>9, <2>2 DEF Derived
  <2> QED
    BY <2>2, <2>4, <2>5
<1> QED
  BY <1>1, <1>6, <1>7, <1>8, <1>9

(* The trees are those the rules of the grammar derive.                    *)
LEMMA TreesFollow ==
  ASSUME NEW ts \in Seq(Lexical)
  PROVE  \A s \in Span(ts) : /\ Trees(ts)[s] \subseteq Seq(TreeNode(ts))
                             /\ Trees(ts)[s] = Derived(ts, s[1], s[2], s[3], Trees(ts))
<1> DEFINE S == Span(ts)
           top == 8 * Len(ts) + 7
           rank == [s \in S |-> SpanRank(ts, s)]
           V == SUBSET Seq(TreeNode(ts))
           Step(s, f) == Derived(ts, s[1], s[2], s[3], f)
           G == [p \in S \X [S -> V] |-> Step(p[1], p[2])]
           Defined(f) == f = [s \in S |-> Step(s, f)]
<1>1. Len(ts) \in Nat /\ top \in Nat
  BY TokensShape
<1>2. \A s \in S : SpanRank(ts, s) \in 0..top
  <2> SUFFICES ASSUME NEW level \in Level, NEW i \in 1..(Len(ts) + 1), NEW j \in 0..Len(ts)
               PROVE  (IF i <= j THEN 8 * (j - i + 1) ELSE 0) + (8 - level) \in 0..top
    BY DEF Span, SpanRank
  <2> QED
    BY <1>1 DEF Level
<1>3. rank \in [S -> 0..top] /\ rank \in [S -> Nat]
  BY <1>1, <1>2
<1>4. \A s \in S : rank[s] = SpanRank(ts, s)
  OBVIOUS
<1> HIDE DEF rank
<1>5. ASSUME NEW g, NEW h, NEW s \in S, \A d \in S : rank[d] < rank[s] => g[d] \in V /\ g[d] = h[d]
      PROVE  Step(s, g) \in V /\ Step(s, g) = Step(s, h)
  BY <1>4, <1>5, DerivedLike
<1> HIDE DEF Step, V, top
<1>6. G \in [S \X [S -> V] -> V]
  BY <1>5
<1>7. \A s \in S : \A g \in [S -> V] : G[<<s, g>>] = Step(s, g)
  OBVIOUS
<1> HIDE DEF G
<1>8. \A s \in S : \A g, h \in [S -> V] :
        (\A d \in S : rank[d] < rank[s] => g[d] = h[d]) => G[<<s, g>>] = G[<<s, h>>]
  BY <1>5, <1>7
<1>9. PICK f \in [S -> V] : \A s \in S : f[s] = G[<<s, f>>]
  <2>1. {} \in V
    BY DEF V
  <2>2. Grounded(S, top, rank, V, {}, G)
    BY <1>1, <1>3, <1>6, <1>8, <2>1 DEF Grounded
  <2> HIDE DEF S
  <2> QED
    BY <2>2, RankRecursion
<1>10. Defined(f)
  BY <1>7, <1>9
<1>11. Trees(ts) = CHOOSE g : Defined(g)
  BY DEF Trees, Step
<1> DEFINE T == Trees(ts)
<1>12. Defined(T)
  <2> HIDE DEF Defined
  <2> QED
    BY <1>10, <1>11
<1> HIDE DEF T
<1>13. \A s \in S : T[s] = Step(s, T)
  BY <1>12
<1> DEFINE A == {s \in S : T[s] \in V}
<1>14. ASSUME NEW s \in S, \A d \in S : rank[d] < rank[s] => d \in A
       PROVE  s \in A
  <2>1. Step(s, T) \in V
    BY <1>5, <1>14
  <2> QED
    BY <1>13, <2>1
<1>15. S \subseteq A
  <2> HIDE DEF A, S
  <2> QED
    BY <1>3, <1>14, RankInduction
<1> QED
  BY <1>13, <1>15 DEF T, V, Step

(* The trees of a span satisfy their equation; the grammar has no empty     *)
(* sentence.                                                                *)
LEMMA Rules ==
  ASSUME NEW ts \in Seq(Lexical), NEW level \in Level, NEW i \in 1..(Len(ts) + 1), NEW j \in 0..Len(ts)
  PROVE  /\ Trees(ts)[<<level, i, j>>] \subseteq Seq(TreeNode(ts))
         /\ Trees(ts)[<<level, i, j>>] = Derived(ts, level, i, j, Trees(ts))
         /\ i > j => Trees(ts)[<<level, i, j>>] = {}
<1>1. <<level, i, j>> \in Span(ts)
  BY DEF Span
<1>2. Len(ts) \in Nat
  BY TokensShape
<1> HIDE DEF Trees
<1>3. /\ Trees(ts)[<<level, i, j>>] \subseteq Seq(TreeNode(ts))
      /\ Trees(ts)[<<level, i, j>>] = Derived(ts, level, i, j, Trees(ts))
  BY <1>1, TreesFollow
<1>4. i > j => Derived(ts, level, i, j, Trees(ts)) = {}
  BY <1>2 DEF Derived
<1> QED
  BY <1>3, <1>4

(* The rules of the grammar, level by level: literals, paths and            *)
(* parentheses.                                                             *)
LEMMA PrimaryRule ==
  ASSUME NEW ts \in Seq(Lexical), NEW i \in 1..Len(ts), NEW j \in i..Len(ts), NEW t
  PROVE  t \in Trees(ts)[<<PrimaryLevel, i, j>>] <=>
           \/ i = j /\ ts[i] = "lit" /\ t = <<<<"lit", i, i>>>>
           \/ IsPath(ts, i, j) /\ t = <<<<"path", i, j>>>>
           \/ ts[i] = "(" /\ ts[j] = ")" /\ t \in Trees(ts)[<<OrLevel, i + 1, j - 1>>]
<1> DEFINE T == Trees(ts)
<1>1. Len(ts) \in Nat
  BY TokensShape
<1>2. i \in Int /\ j \in Int /\ i <= j /\ ~ (i > j) /\ i \in 1..(Len(ts) + 1) /\ j \in 0..Len(ts)
  BY <1>1
<1>3. T[<<PrimaryLevel, i, j>>] = Derived(ts, PrimaryLevel, i, j, T)
  BY <1>2, Rules DEF Level, PrimaryLevel
<1> HIDE DEF T
<1>4. Derived(ts, PrimaryLevel, i, j, T) = Primaries(ts, i, j, T)
  BY <1>2 DEF Derived, PrimaryLevel, NotLevel, MinusLevel
<1> QED
  BY <1>3, <1>4 DEF Primaries, T

PrefixedBy(ts, level, i, j, t) ==
  /\ ts[i] = Prefixes[level]
  /\ \E u \in Trees(ts)[<<level, i + 1, j>>] : t = Append(u, <<PrefixNode[level], i, i>>)

(* A prefix operator, which may be repeated.                                *)
LEMMA PrefixRule ==
  ASSUME NEW ts \in Seq(Lexical), NEW level \in {NotLevel, MinusLevel},
         NEW i \in 1..Len(ts), NEW j \in i..Len(ts), NEW t
  PROVE  t \in Trees(ts)[<<level, i, j>>] <=>
           t \in Trees(ts)[<<level + 1, i, j>>] \/ PrefixedBy(ts, level, i, j, t)
<1> DEFINE T == Trees(ts)
<1>1. Len(ts) \in Nat
  BY TokensShape
<1>2. i \in Int /\ j \in Int /\ i <= j /\ ~ (i > j) /\ i \in 1..(Len(ts) + 1) /\ j \in 0..Len(ts)
  BY <1>1
<1>3. T[<<level, i, j>>] = Derived(ts, level, i, j, T)
  BY <1>2, Rules DEF Level, NotLevel, MinusLevel
<1> HIDE DEF T
<1>4. Derived(ts, level, i, j, T) = T[<<level + 1, i, j>>] \cup Prefixed(ts, level, i, j, T)
  BY <1>2 DEF Derived, PrimaryLevel, NotLevel, MinusLevel
<1> QED
  BY <1>3, <1>4 DEF Prefixed, PrefixedBy, T

LeftLevel(level) == IF level \in LeftAssociative THEN level ELSE level + 1

Infixed(ts, level, i, j, t, k) ==
  /\ k \in (i + 1)..(j - 1) /\ ts[k] \in Operators(level)
  /\ \E l \in Trees(ts)[<<LeftLevel(level), i, k - 1>>], r \in Trees(ts)[<<level + 1, k + 1, j>>] :
       t = l \o Append(r, <<"bin", k, k>>)

(* An infix operator between two operands.                                  *)
LEMMA InfixRule ==
  ASSUME NEW ts \in Seq(Lexical), NEW level \in LeftAssociative \cup {CompareLevel},
         NEW i \in 1..Len(ts), NEW j \in i..Len(ts), NEW t
  PROVE  t \in Trees(ts)[<<level, i, j>>] <=>
           t \in Trees(ts)[<<level + 1, i, j>>] \/ \E k : Infixed(ts, level, i, j, t, k)
<1> DEFINE T == Trees(ts)
           K == {m \in (i + 1)..(j - 1) : ts[m] \in Operators(level)}
           Part(k) == {p[1] \o Append(p[2], <<"bin", k, k>>) :
                         p \in T[<<LeftLevel(level), i, k - 1>>] \X T[<<level + 1, k + 1, j>>]}
<1>1. Len(ts) \in Nat
  BY TokensShape
<1>2. i \in Int /\ j \in Int /\ i <= j /\ ~ (i > j) /\ i \in 1..(Len(ts) + 1) /\ j \in 0..Len(ts)
  BY <1>1
<1>3. level \in Level /\ level \notin {PrimaryLevel, NotLevel, MinusLevel}
  BY LevelNames DEF LeftAssociative, CompareLevel, PrimaryLevel, NotLevel, MinusLevel, OrLevel,
                    AndLevel, AddLevel, MulLevel
<1>4. T[<<level, i, j>>] = Derived(ts, level, i, j, T)
  BY <1>2, <1>3, Rules
<1>5. Infix(ts, level, i, j, T) = UNION {Part(k) : k \in K}
  BY DEF Infix, LeftLevel
<1>6. \A k : (k \in K /\ t \in Part(k)) <=> Infixed(ts, level, i, j, t, k)
  <2> TAKE k
  <2> DEFINE d == <<"bin", k, k>>
             L == T[<<LeftLevel(level), i, k - 1>>]
             R == T[<<level + 1, k + 1, j>>]
  <2>1. t \in Part(k) <=> \E p \in L \X R : t = p[1] \o Append(p[2], d)
    OBVIOUS
  <2>2. Infixed(ts, level, i, j, t, k) <=> k \in K /\ \E l \in L, r \in R : t = l \o Append(r, d)
    BY DEF Infixed
  <2> HIDE DEF L, R, d, K, Part
  <2>3. (\E p \in L \X R : t = p[1] \o Append(p[2], d)) <=> \E l \in L, r \in R : t = l \o Append(r, d)
    <3>1. ASSUME NEW p \in L \X R, t = p[1] \o Append(p[2], d)
          PROVE  \E l \in L, r \in R : t = l \o Append(r, d)
      <4>1. p[1] \in L /\ p[2] \in R
        OBVIOUS
      <4> QED
        BY <3>1, <4>1
    <3>2. ASSUME NEW l \in L, NEW r \in R, t = l \o Append(r, d)
          PROVE  \E p \in L \X R : t = p[1] \o Append(p[2], d)
      <4>1. <<l, r>> \in L \X R /\ <<l, r>>[1] = l /\ <<l, r>>[2] = r
        OBVIOUS
      <4> QED
        BY <3>2, <4>1
    <3> QED
      BY <3>1, <3>2
  <2> QED
    BY <2>1, <2>2, <2>3
<1> HIDE DEF T, K, Part
<1>7. Derived(ts, level, i, j, T) = T[<<level + 1, i, j>>] \cup Infix(ts, level, i, j, T)
  BY <1>2, <1>3 DEF Derived
<1>8. t \in UNION {Part(k) : k \in K} <=> \E k : k \in K /\ t \in Part(k)
  OBVIOUS
<1> QED
  BY <1>4, <1>5, <1>6, <1>7, <1>8 DEF T

-----------------------------------------------------------------------------
(* What the parser accepts is in the grammar.                              *)

(* The equations of the parser, and how far a call may get.                 *)
LEMMA Returns ==
  ASSUME NEW ts \in Seq(Lexical), NEW level \in Level, NEW i \in 1..(Len(ts) + 1)
  PROVE  LET p == Parser(ts)[<<"parse", level, i>>]
             m == Parser(ts)[<<"more", level, i>>]
         IN /\ p \in Result(ts) /\ (p.at = 0 \/ p.at \in (i + 1)..(Len(ts) + 1))
            /\ m \in Result(ts) /\ (m.at = 0 \/ m.at \in i..(Len(ts) + 1))
            /\ p = Parse(ts, level, i, Parser(ts))
            /\ m = IF level = PrimaryLevel THEN Path(ts, i, Parser(ts))
                   ELSE More(ts, level, i, Parser(ts))
<1> DEFINE P == Parser(ts)
           c == <<"parse", level, i>>
           d == <<"more", level, i>>
           p == P[c]
           m == P[d]
<1>1. c \in Call(ts) /\ d \in Call(ts) /\ Len(ts) \in Nat
  BY TokensShape DEF Call
<1>2. p \in Reached(ts, c) /\ m \in Reached(ts, d) /\ p = Returned(ts, c, P) /\ m = Returned(ts, d, P)
  BY <1>1, ParserFollows
<1> HIDE DEF P, p, m
<1>3. p \in Result(ts) /\ (p.at = 0 \/ i < p.at) /\ p.at \in 0..(Len(ts) + 1)
  BY <1>2 DEF Reached, Result
<1>4. m \in Result(ts) /\ (m.at = 0 \/ i <= m.at) /\ m.at \in 0..(Len(ts) + 1)
  BY <1>1, <1>2 DEF Reached, Result
<1>5. p = Parse(ts, level, i, P)
  BY <1>2 DEF Returned
<1>6. m = IF level = PrimaryLevel THEN Path(ts, i, P) ELSE More(ts, level, i, P)
  BY <1>2 DEF Returned
<1>7. (p.at = 0 \/ p.at \in (i + 1)..(Len(ts) + 1)) /\ (m.at = 0 \/ m.at \in i..(Len(ts) + 1))
  BY <1>1, <1>3, <1>4
<1> QED
  BY <1>3, <1>4, <1>5, <1>6, <1>7 DEF P, p, m

(* A call further on, or at a higher level, has a smaller rank.             *)
LEMMA LowerCall ==
  ASSUME NEW ts \in Seq(Lexical), NEW part, NEW level \in Level, NEW i \in 1..(Len(ts) + 1),
         NEW q \in {"parse", "more"}, NEW l \in Level, NEW j \in 1..(Len(ts) + 1),
         i < j \/ (i = j /\ level < l)
  PROVE  <<q, l, j>> \in Call(ts) /\ CallRank(ts, <<q, l, j>>) < CallRank(ts, <<part, level, i>>)
<1>1. Len(ts) \in Nat
  BY TokensShape
<1>2. 8 * (Len(ts) + 1 - j) + (8 - l) < 8 * (Len(ts) + 1 - i) + (8 - level)
  BY <1>1 DEF Level
<1> QED
  BY <1>2 DEF CallRank, Call

(* What parse_<level> returns derives the tokens it has consumed; the loop *)
(* after an operand extends its derivation.                                *)
SoundParse(ts, level, i) ==
  LET p == Parser(ts)[<<"parse", level, i>>]
  IN p.at # 0 => p.nodes \in Trees(ts)[<<level, i, p.at - 1>>]

SoundPath(ts, i) ==
  LET m == Parser(ts)[<<"more", PrimaryLevel, i>>]
  IN m.at # 0 => /\ m.nodes = <<>>
                 /\ \A a \in 1..(i - 1) : IsPath(ts, a, i - 1) => IsPath(ts, a, m.at - 1)

SoundMore(ts, level, i) ==
  LET m == Parser(ts)[<<"more", level, i>>]
  IN m.at # 0 => \A a \in 1..(i - 1) : \A t \in Trees(ts)[<<LeftLevel(level), a, i - 1>>] :
                   t \o m.nodes \in Trees(ts)[<<level, a, m.at - 1>>]

(* The loop of parse_primary extends a path by a point and an identifier.   *)
LEMMA PathsGrow ==
  ASSUME NEW ts \in Seq(Lexical), NEW i \in 1..(Len(ts) + 1),
         \A j \in 1..(Len(ts) + 1) : i < j => SoundPath(ts, j)
  PROVE  SoundPath(ts, i)
<1> DEFINE P == Parser(ts)
           m == P[<<"more", PrimaryLevel, i>>]
<1>1. Len(ts) \in Nat /\ PrimaryLevel \in Level
  BY TokensShape DEF Level, PrimaryLevel
<1>2. m = Path(ts, i, P)
  BY <1>1, Returns
<1> HIDE DEF P, m
<1>3. CASE Peek(ts, i) # "."
  <2>1. m = Nothing(i)
    BY <1>2, <1>3 DEF Path
  <2>2. m.at = i /\ m.nodes = <<>>
    BY <2>1 DEF Nothing
  <2> QED
    BY <2>2 DEF SoundPath, m, P
<1>4. CASE Peek(ts, i) = "." /\ Peek(ts, i + 1) = "id"
  <2>1. i \in 1..Len(ts) /\ i + 1 \in 1..Len(ts) /\ ts[i] = "." /\ ts[i + 1] = "id"
    BY <1>1, <1>4, Peeks
  <2>2. m = P[<<"more", PrimaryLevel, i + 2>>]
    BY <1>2, <1>4 DEF Path
  <2>3. SoundPath(ts, i + 2)
    BY <1>1, <2>1
  <2>4. ASSUME m.at # 0
        PROVE  m.nodes = <<>> /\ \A a \in 1..(i + 1) : IsPath(ts, a, i + 1) => IsPath(ts, a, m.at - 1)
    <3>1. (i + 2) - 1 = i + 1
      BY <1>1
    <3> QED
      BY <2>2, <2>3, <2>4, <3>1 DEF SoundPath, P
  <2>5. ASSUME NEW a \in 1..(i - 1), IsPath(ts, a, i - 1)
        PROVE  IsPath(ts, a, i + 1)
    <3>1. ts[a] = "id" /\ ts[i - 1] = "id" /\ \A k \in a..(i - 2) : {ts[k], ts[k + 1]} = {"id", "."}
      <4>1. (i - 1) - 1 = i - 2
        BY <1>1
      <4> QED
        BY <2>5, <4>1 DEF IsPath
    <3>2. ASSUME NEW k \in a..((i + 1) - 1)
          PROVE  {ts[k], ts[k + 1]} = {"id", "."}
      <4>1. k \in a..(i - 2) \/ k = i - 1 \/ k = i
        BY <1>1
      <4>2. (i - 1) + 1 = i
        BY <1>1
      <4> QED
        BY <2>1, <3>1, <4>1, <4>2
    <3> QED
      BY <2>1, <3>1, <3>2 DEF IsPath
  <2>6. \A a \in 1..(i - 1) : a \in 1..(i + 1)
    BY <1>1
  <2> QED
    BY <2>4, <2>5, <2>6 DEF SoundPath, m, P
<1>5. CASE Peek(ts, i) = "." /\ Peek(ts, i + 1) # "id"
  <2>1. m.at = 0
    BY <1>2, <1>5 DEF Path, Failed
  <2> QED
    BY <2>1 DEF SoundPath, m, P
<1> QED
  BY <1>3, <1>4, <1>5

(* The levels with infix operators.                                         *)
LEMMA BinaryLevels ==
  \A level \in LeftAssociative \cup {CompareLevel} :
    /\ level \in Level /\ level + 1 \in Level /\ level < level + 1
    /\ level \notin {PrimaryLevel, NotLevel, MinusLevel}
    /\ LeftLevel(level) \in {level, level + 1}
BY DEF LeftLevel, LeftAssociative, Level, OrLevel, AndLevel, NotLevel, CompareLevel, AddLevel,
       MulLevel, MinusLevel, PrimaryLevel

(* The loop of a level extends a derivation by operators and operands.      *)
LEMMA MoreIsSound ==
  ASSUME NEW ts \in Seq(Lexical), NEW level \in LeftAssociative \cup {CompareLevel},
         NEW i \in 1..(Len(ts) + 1),
         \A j \in 1..(Len(ts) + 1) : i < j => SoundParse(ts, level + 1, j) /\ SoundMore(ts, level, j)
  PROVE  SoundMore(ts, level, i)
<1> DEFINE n == Len(ts)
           P == Parser(ts)
           T == Trees(ts)
           N == TreeNode(ts)
           m == P[<<"more", level, i>>]
<1>1. /\ n \in Nat /\ level \in Level /\ level + 1 \in Level /\ level # PrimaryLevel
      /\ LeftLevel(level) \in {level, level + 1}
  BY TokensShape, BinaryLevels
<1>2. m = More(ts, level, i, P) /\ m \in Result(ts) /\ (m.at = 0 \/ m.at \in i..(n + 1))
  BY <1>1, Returns
<1>3. SUFFICES ASSUME m.at # 0, NEW a \in 1..(i - 1), NEW t \in T[<<LeftLevel(level), a, i - 1>>]
               PROVE  t \o m.nodes \in T[<<level, a, m.at - 1>>]
  BY DEF SoundMore
<1>4. /\ i - 1 \in 1..n /\ a \in 1..n /\ a <= i - 1 /\ i - 1 \in a..n /\ i - 1 \in 0..n
      /\ a \in 1..(n + 1)
  BY <1>1
<1>5. t \in Seq(N)
  BY <1>1, <1>4, Rules
<1>6. CASE Peek(ts, i) \notin Operators(level)
  <2>1. m.at = i /\ m.nodes = <<>>
    BY <1>2, <1>6 DEF More, Nothing
  <2>2. t \o m.nodes = t
    BY <1>5, <2>1, ConcatEmptySeq
  <2>3. t \in T[<<level, a, i - 1>>]
    BY <1>1, <1>4, InfixRule DEF LeftLevel
  <2> QED
    BY <2>1, <2>2, <2>3
<1>7. CASE Peek(ts, i) \in Operators(level)
  <2>1. i \in 1..n /\ ts[i] \in Operators(level)
    BY <1>1, <1>7, Peeks, LevelNames
  <2> DEFINE right == P[<<"parse", level + 1, i + 1>>]
             both == Built(right, "bin", i, i)
             rest == P[<<"more", level, right.at>>]
  <2>2. i + 1 \in 1..(n + 1) /\ i < i + 1
    BY <1>1, <2>1
  <2>3. right \in Result(ts) /\ (right.at = 0 \/ right.at \in (i + 2)..(n + 1))
    <3>1. right \in Result(ts) /\ (right.at = 0 \/ right.at \in ((i + 1) + 1)..(n + 1))
      BY <1>1, <2>2, Returns
    <3> HIDE DEF right
    <3> QED
      BY <1>1, <3>1
  <2>4. m = IF level = CompareLevel THEN both ELSE Then(both, rest)
    BY <1>2, <1>7 DEF More
  <2>5. SoundParse(ts, level + 1, i + 1)
    BY <2>2
  <2>6. right.at # 0 => right.nodes \in T[<<level + 1, i + 1, right.at - 1>>]
    BY <2>5 DEF SoundParse
  <2>7. \A j \in 1..(n + 1) : i < j => SoundMore(ts, level, j)
    OBVIOUS
  <2> DEFINE d == <<"bin", i, i>>
  <2> HIDE DEF right, m, d
  <2>8. right.at # 0
    <3>1. ASSUME right.at = 0
          PROVE  FALSE
      <4>1. both = Failed /\ both.at = 0
        BY <3>1, BuiltFails DEF Failed
      <4> HIDE DEF both, rest
      <4>2. m.at = 0
        BY <2>4, <4>1, ThenFails DEF Failed
      <4> QED
        BY <1>3, <4>2
    <3> QED
      BY <3>1
  <2>9. /\ both \in Result(ts) /\ both.nodes = Append(right.nodes, d) /\ both.at = right.at
    BY <2>1, <2>3, <2>8, BuiltIs DEF d
  <2>10. /\ right.at - 1 \in 1..n /\ right.at \in 1..(n + 1) /\ right.at - 1 \in a..n /\ i < right.at
         /\ i \in (a + 1)..((right.at - 1) - 1) /\ a \in 1..(right.at - 1)
    BY <1>1, <1>4, <2>1, <2>3, <2>8
  <2>11. t \o both.nodes \in T[<<level, a, right.at - 1>>]
    <3>1. Infixed(ts, level, a, right.at - 1, t \o both.nodes, i)
      BY <2>1, <2>6, <2>8, <2>9, <2>10 DEF Infixed, d
    <3> QED
      BY <1>4, <2>10, <3>1, InfixRule
  <2> HIDE DEF both
  <2>12. CASE level = CompareLevel
    BY <2>4, <2>9, <2>11, <2>12
  <2>13. CASE level # CompareLevel
    <3>1. LeftLevel(level) = level
      BY <2>13 DEF LeftLevel
    <3>2. rest \in Result(ts)
      BY <1>1, <2>10, Returns
    <3>3. rest.at # 0 => (t \o both.nodes) \o rest.nodes \in T[<<level, a, rest.at - 1>>]
      <4>1. SoundMore(ts, level, right.at)
        BY <2>7, <2>10
      <4> QED
        BY <2>10, <2>11, <3>1, <4>1 DEF SoundMore
    <3> HIDE DEF rest, T
    <3>4. m = Then(both, rest)
      BY <2>4, <2>13
    <3>5. rest.at # 0
      BY <1>3, <3>4, ThenFails DEF Failed
    <3>6. m.nodes = both.nodes \o rest.nodes /\ m.at = rest.at
      BY <2>8, <2>9, <3>2, <3>4, <3>5, ThenIs
    <3>7. both.nodes \in Seq(N) /\ rest.nodes \in Seq(N)
      BY <2>9, <3>2 DEF Result
    <3>8. t \o m.nodes = (t \o both.nodes) \o rest.nodes
      <4> DEFINE a1 == both.nodes
                 a2 == rest.nodes
      <4> HIDE DEF N
      <4>1. a1 \in Seq(N) /\ a2 \in Seq(N)
        BY <3>7
      <4> HIDE DEF a1, a2
      <4>2. (t \o a1) \o a2 = t \o (a1 \o a2)
        BY <1>5, <4>1, ConcatAssociative
      <4> QED
        BY <3>6, <4>2 DEF a1, a2
    <3> QED
      BY <3>3, <3>5, <3>6, <3>8
  <2> QED
    BY <2>12, <2>13
<1> QED
  BY <1>6, <1>7

(* One level, from the levels above it and from calls further on.           *)
LEMMA ParseIsSound ==
  ASSUME NEW ts \in Seq(Lexical), NEW level \in Level, NEW i \in 1..(Len(ts) + 1),
         \A l \in Level : level < l => SoundParse(ts, l, i),
         \A j \in 1..(Len(ts) + 1), l \in Level : i < j => SoundParse(ts, l, j),
         \A j \in 1..(Len(ts) + 1) : i < j => SoundPath(ts, j),
         \A j \in 1..(Len(ts) + 1) :
           i < j /\ level \in LeftAssociative \cup {CompareLevel} => SoundMore(ts, level, j)
  PROVE  SoundParse(ts, level, i)
<1> DEFINE n == Len(ts)
           P == Parser(ts)
           T == Trees(ts)
           p == P[<<"parse", level, i>>]
<1>1. n \in Nat
  BY TokensShape
<1>2. p = Parse(ts, level, i, P) /\ p \in Result(ts) /\ (p.at = 0 \/ p.at \in (i + 1)..(n + 1))
  BY Returns
<1>3. SUFFICES ASSUME p.at # 0
               PROVE  p.nodes \in T[<<level, i, p.at - 1>>]
  BY DEF SoundParse
<1>8. OrLevel \in Level /\ PrimaryLevel \in Level
  BY DEF Level, OrLevel, PrimaryLevel
<1>9. \A l \in Level : SoundParse(ts, l, i + 1) /\ SoundPath(ts, i + 1)
  <2>1. i + 1 \in 1..(n + 1) /\ i < i + 1
    BY <1>1, <1>2, <1>3
  <2> QED
    BY <2>1
<1>4. /\ p.at \in 1..(n + 1) /\ p.at - 1 \in i..n /\ p.at - 1 \in 0..n /\ i \in 1..n
      /\ i < p.at /\ i + 1 \in 1..(n + 1) /\ i < i + 1
  BY <1>1, <1>2, <1>3
<1>5. CASE level = PrimaryLevel
  <2>1. p = Primary(ts, i, P)
    BY <1>2, <1>5 DEF Parse, PrimaryLevel, NotLevel, MinusLevel
  <2>2. ts[i] = Peek(ts, i)
    BY <1>4, TokensShape
  <2>3. CASE Peek(ts, i) = "lit"
    <3>1. p = Built(Nothing(i + 1), "lit", i, i)
      BY <2>1, <2>3 DEF Primary
    <3>2. /\ Nothing(i + 1) \in Result(ts) /\ Nothing(i + 1).at = i + 1
          /\ Nothing(i + 1).nodes = <<>> /\ i + 1 # 0
      BY <1>4, NothingIs
    <3> DEFINE r == Nothing(i + 1)
    <3> HIDE DEF p, r
    <3>3. p.at = i + 1 /\ p.nodes = Append(<<>>, <<"lit", i, i>>)
      <4>1. p = Built(r, "lit", i, i) /\ r \in Result(ts) /\ r.at # 0 /\ r.at = i + 1 /\ r.nodes = <<>>
        BY <3>1, <3>2 DEF r
      <4>2. p.nodes = Append(r.nodes, <<"lit", i, i>>) /\ p.at = r.at
        BY <1>4, <4>1, BuiltIs
      <4> QED
        BY <4>1, <4>2
    <3>4. p.nodes = <<<<"lit", i, i>>>> /\ p.at - 1 = i
      BY <1>1, <3>3
    <3>5. <<<<"lit", i, i>>>> \in T[<<PrimaryLevel, i, i>>]
      <4>1. i \in i..n
        BY <1>1, <1>4
      <4> QED
        BY <1>4, <2>2, <2>3, <4>1, PrimaryRule
    <3> QED
      BY <1>5, <3>4, <3>5
  <2>4. CASE Peek(ts, i) = "("
    <3> DEFINE q == P[<<"parse", OrLevel, i + 1>>]
    <3>1. q \in Result(ts) /\ (q.at = 0 \/ q.at \in ((i + 1) + 1)..(n + 1))
      BY <1>4, <1>8, Returns
    <3>2. q.at # 0 => q.nodes \in T[<<OrLevel, i + 1, q.at - 1>>]
      <4>1. SoundParse(ts, OrLevel, i + 1)
        BY <1>8, <1>9
      <4> QED
        BY <4>1 DEF SoundParse
    <3>3. p = Closed(ts, q)
      BY <2>1, <2>4 DEF Primary
    <3> HIDE DEF p, q
    <3>4. q.at # 0 /\ Peek(ts, q.at) = ")"
      BY <1>3, <3>3 DEF Closed, IsError, Failed
    <3>5. p.at = q.at + 1 /\ p.nodes = q.nodes
      BY <3>1, <3>3, <3>4 DEF Closed, IsError, Result
    <3>6. q.at \in 1..n /\ ts[q.at] = ")" /\ q.at = p.at - 1 /\ q.at \in i..n
      <4>1. q.at \in Nat
        BY <1>1, <3>1
      <4> QED
        BY <1>1, <1>4, <3>1, <3>4, <3>5, <4>1, Peeks
    <3>7. p.nodes \in T[<<OrLevel, i + 1, q.at - 1>>]
      BY <3>2, <3>4, <3>5
    <3> QED
      BY <1>4, <1>5, <2>2, <2>4, <3>6, <3>7, PrimaryRule
  <2>5. CASE Peek(ts, i) = "id"
    <3> DEFINE q == P[<<"more", PrimaryLevel, i + 1>>]
    <3>1. q \in Result(ts) /\ (q.at = 0 \/ q.at \in (i + 1)..(n + 1))
      BY <1>4, <1>8, Returns
    <3>2. SoundPath(ts, i + 1)
      BY <1>8, <1>9
    <3>3. p = Built(q, "path", i, q.at - 1)
      BY <2>1, <2>5 DEF Primary
    <3>4. q.at # 0 => q.nodes = <<>> /\ \A a \in 1..((i + 1) - 1) : IsPath(ts, a, (i + 1) - 1) => IsPath(ts, a, q.at - 1)
      BY <3>2 DEF SoundPath
    <3> HIDE DEF p, q
    <3>5. q.at # 0
      BY <1>3, <3>3, BuiltFails DEF Failed
    <3>6. q.at - 1 \in 1..n
      BY <1>1, <1>4, <3>1, <3>5
    <3>7. p.at = q.at /\ p.nodes = Append(<<>>, <<"path", i, q.at - 1>>)
      <4>1. q.nodes = <<>> /\ "path" \in {"lit", "path", "not", "minus", "bin"}
        BY <3>4, <3>5
      <4>2. p.nodes = Append(q.nodes, <<"path", i, q.at - 1>>) /\ p.at = q.at
        <5> DEFINE j == q.at - 1
        <5>1. j \in 1..n /\ p = Built(q, "path", i, j)
          BY <3>3, <3>6
        <5> HIDE DEF j
        <5>2. q \in Result(ts) /\ q.at # 0 /\ IsNode(ts, "path", i, j)
          BY <1>4, <3>1, <3>5, <5>1 DEF IsNode, TreeNode
        <5>3. p.nodes = Append(q.nodes, <<"path", i, j>>) /\ p.at = q.at
          BY <5>1, <5>2, BuildsOn
        <5> QED
          BY <5>3 DEF j
      <4> QED
        BY <4>1, <4>2
    <3>8. IsPath(ts, i, i)
      BY <1>1, <1>4, <2>2, <2>5 DEF IsPath
    <3>9. IsPath(ts, i, p.at - 1)
      <4>1. (i + 1) - 1 = i /\ i \in 1..i
        BY <1>1, <1>4
      <4> QED
        BY <3>4, <3>5, <3>7, <3>8, <4>1
    <3>10. p.nodes = <<<<"path", i, p.at - 1>>>>
      BY <3>7
    <3> QED
      BY <1>4, <1>5, <3>9, <3>10, PrimaryRule
  <2>6. CASE Peek(ts, i) \notin {"lit", "(", "id"}
    BY <1>3, <2>1, <2>6 DEF Primary, Failed
  <2> QED
    BY <2>3, <2>4, <2>5, <2>6
<1>6. CASE level \in {NotLevel, MinusLevel}
  <2>1. level + 1 \in Level /\ level < level + 1 /\ level # PrimaryLevel
    BY <1>6 DEF Level, NotLevel, MinusLevel, PrimaryLevel
  <2>2. CASE Peek(ts, i) # Prefixes[level]
    <3> DEFINE q == P[<<"parse", level + 1, i>>]
    <3>1. p = q
      BY <1>2, <1>6, <2>1, <2>2 DEF Parse
    <3>2. q.at # 0 => q.nodes \in T[<<level + 1, i, q.at - 1>>]
      BY <2>1 DEF SoundParse
    <3> QED
      BY <1>3, <1>4, <1>6, <3>1, <3>2, PrefixRule
  <2>3. CASE Peek(ts, i) = Prefixes[level]
    <3> DEFINE q == P[<<"parse", level, i + 1>>]
               kind == PrefixNode[level]
    <3>1. p = Built(q, kind, i, i)
      BY <1>2, <1>6, <2>1, <2>3 DEF Parse
    <3>2. q.at # 0 => q.nodes \in T[<<level, i + 1, q.at - 1>>]
      BY <1>9 DEF SoundParse
    <3>3. q \in Result(ts) /\ kind \in {"not", "minus"} /\ ts[i] = Prefixes[level]
      BY <1>4, <1>6, <2>3, Returns, LevelNames, TokensShape
    <3> HIDE DEF p, q, kind
    <3>4. q.at # 0
      BY <1>3, <3>1, BuiltFails DEF Failed
    <3>5. p.at = q.at /\ p.nodes = Append(q.nodes, <<kind, i, i>>)
      <4>1. kind \in {"lit", "path", "not", "minus", "bin"}
        BY <3>3
      <4> QED
        BY <1>4, <3>1, <3>3, <3>4, <4>1, BuiltIs
    <3>6. q.nodes \in T[<<level, i + 1, q.at - 1>>] /\ q.at - 1 \in i..n
      BY <1>4, <3>2, <3>4, <3>5
    <3> DEFINE j == q.at - 1
               u == q.nodes
               t == Append(u, <<kind, i, i>>)
    <3>7. t \in T[<<level, i, j>>]
      <4>1. u \in T[<<level, i + 1, j>>] /\ j \in i..n
        BY <3>6
      <4> HIDE DEF u, j
      <4> QED
        BY <1>4, <1>6, <3>3, <4>1, PrefixRule DEF kind, PrefixedBy
    <3> QED
      BY <3>5, <3>7
  <2> QED
    BY <2>2, <2>3
<1>7. CASE level \in LeftAssociative \cup {CompareLevel}
  <2>1. /\ level + 1 \in Level /\ level < level + 1
        /\ level \notin {PrimaryLevel, NotLevel, MinusLevel}
    BY <1>7, BinaryLevels
  <2> DEFINE q == P[<<"parse", level + 1, i>>]
             m == P[<<"more", level, q.at>>]
  <2>2. p = Then(q, m)
    BY <1>2, <2>1 DEF Parse
  <2>3. q \in Result(ts) /\ (q.at = 0 \/ q.at \in (i + 1)..(n + 1))
    BY <2>1, Returns
  <2>4. q.at # 0 => q.nodes \in T[<<level + 1, i, q.at - 1>>]
    BY <2>1 DEF SoundParse
  <2>5. q.at # 0
    <3> HIDE DEF p, q, m
    <3> QED
      BY <1>3, <2>2, ThenFails DEF Failed
  <2>6. q.at \in 1..(n + 1) /\ i < q.at /\ i \in 1..(q.at - 1) /\ q.at - 1 \in i..n
    <3> HIDE DEF q
    <3> QED
      BY <1>1, <2>3, <2>5
  <2>7. m \in Result(ts)
    BY <2>6, Returns
  <2>8. m.at # 0 => \A t \in T[<<LeftLevel(level), i, q.at - 1>>] : t \o m.nodes \in T[<<level, i, m.at - 1>>]
    <3>1. SoundMore(ts, level, q.at)
      BY <1>7, <2>6
    <3> QED
      BY <2>6, <3>1 DEF SoundMore
  <2>9. q.nodes \in T[<<LeftLevel(level), i, q.at - 1>>]
    <3> HIDE DEF q
    <3>1. q.nodes \in T[<<level, i, q.at - 1>>]
      BY <1>4, <1>7, <2>4, <2>5, <2>6, InfixRule
    <3> QED
      BY <2>4, <2>5, <3>1 DEF LeftLevel
  <2> HIDE DEF p, q, m
  <2>10. m.at # 0
    BY <1>3, <2>2, ThenFails DEF Failed
  <2>11. p.at = m.at /\ p.nodes = q.nodes \o m.nodes
    BY <2>2, <2>3, <2>5, <2>7, <2>10, ThenIs
  <2> QED
    BY <2>8, <2>9, <2>10, <2>11
<1> QED
  BY <1>5, <1>6, <1>7, LevelNames

(* Every call of the parser is sound.                                       *)
LEMMA Sound ==
  ASSUME NEW ts \in Seq(Lexical)
  PROVE  \A level \in Level, i \in 1..(Len(ts) + 1) :
           /\ SoundParse(ts, level, i)
           /\ SoundPath(ts, i)
           /\ level \in LeftAssociative \cup {CompareLevel} => SoundMore(ts, level, i)
<1> DEFINE S == Call(ts)
           rank == [c \in S |-> CallRank(ts, c)]
           Right(c) == IF c[1] = "parse" THEN SoundParse(ts, c[2], c[3])
                       ELSE /\ c[2] = PrimaryLevel => SoundPath(ts, c[3])
                            /\ c[2] \in LeftAssociative \cup {CompareLevel} => SoundMore(ts, c[2], c[3])
           A == {c \in S : Right(c)}
<1>1. \A c \in S : CallRank(ts, c) \in Nat
  <2>1. Len(ts) \in Nat
    BY TokensShape
  <2> SUFFICES ASSUME NEW part \in {"parse", "more"}, NEW level \in Level, NEW i \in 1..(Len(ts) + 1)
               PROVE  8 * (Len(ts) + 1 - i) + (8 - level) \in Nat
    BY DEF Call, CallRank
  <2> QED
    BY <2>1 DEF Level
<1>2. rank \in [S -> Nat]
  BY <1>1
<1>3. ASSUME NEW c \in S, \A d \in S : rank[d] < rank[c] => d \in A
      PROVE  c \in A
  <2>1. PICK part \in {"parse", "more"}, level \in Level, i \in 1..(Len(ts) + 1) : c = <<part, level, i>>
    BY DEF Call
  <2>2. ASSUME NEW q \in {"parse", "more"}, NEW l \in Level, NEW j \in 1..(Len(ts) + 1),
               i < j \/ (i = j /\ level < l)
        PROVE  Right(<<q, l, j>>)
    <3>1. <<q, l, j>> \in S /\ CallRank(ts, <<q, l, j>>) < CallRank(ts, c)
      BY <2>1, <2>2, LowerCall
    <3> QED
      BY <1>3, <3>1
  <2>3. \A l \in Level, j \in 1..(Len(ts) + 1) :
          i < j \/ (i = j /\ level < l) =>
            /\ SoundParse(ts, l, j)
            /\ l = PrimaryLevel => SoundPath(ts, j)
            /\ l \in LeftAssociative \cup {CompareLevel} => SoundMore(ts, l, j)
    <3> TAKE l \in Level, j \in 1..(Len(ts) + 1)
    <3> HAVE i < j \/ (i = j /\ level < l)
    <3>1. Right(<<"parse", l, j>>) /\ Right(<<"more", l, j>>)
      BY <2>2
    <3> QED
      BY <3>1
  <2> HIDE DEF Right
  <2>4. PrimaryLevel \in Level
    BY DEF Level, PrimaryLevel
  <2>5. CASE part = "parse"
    <3>1. SoundParse(ts, level, i)
      BY <2>3, <2>4, ParseIsSound
    <3> QED
      BY <2>1, <2>5, <3>1 DEF Right
  <2>6. CASE part = "more"
    <3>1. level = PrimaryLevel => SoundPath(ts, i)
      BY <2>3, <2>4, PathsGrow
    <3>2. level \in LeftAssociative \cup {CompareLevel} => SoundMore(ts, level, i)
      BY <2>3, BinaryLevels, MoreIsSound
    <3> QED
      BY <2>1, <2>6, <3>1, <3>2 DEF Right
  <2> QED
    BY <2>5, <2>6
<1>4. S \subseteq A
  <2> HIDE DEF A, S, rank
  <2> QED
    BY <1>2, <1>3, RankInduction
<1>5. ASSUME NEW level \in Level, NEW i \in 1..(Len(ts) + 1)
      PROVE  /\ SoundParse(ts, level, i)
             /\ SoundPath(ts, i)
             /\ level \in LeftAssociative \cup {CompareLevel} => SoundMore(ts, level, i)
  <2>1. /\ <<"parse", level, i>> \in S /\ <<"more", level, i>> \in S
        /\ <<"more", PrimaryLevel, i>> \in S
    BY DEF Call, Level, PrimaryLevel
  <2>2. Right(<<"parse", level, i>>) /\ Right(<<"more", level, i>>) /\ Right(<<"more", PrimaryLevel, i>>)
    BY <1>4, <2>1
  <2> QED
    BY <2>2
<1> QED
  BY <1>5

-----------------------------------------------------------------------------
(* What is in the grammar is accepted, with its tree.                      *)

(* Tokens a derivation may start with, and tokens that continue an operand *)
(* of a level or of a higher one.                                          *)
Starts(level) ==
  {"lit", "id", "("} \cup (IF level <= MinusLevel THEN {"-"} ELSE {})
                     \cup (IF level <= NotLevel THEN {"not"} ELSE {})

Continues(level) == {"."} \cup UNION {Operators(l) : l \in {m \in Level : level <= m}}

(* A prefix operator starts no derivation of a higher level.                *)
LEMMA StartsShape ==
  /\ \A level \in Level : {"lit", "id", "("} \subseteq Starts(level)
  /\ \A level \in Level : level + 1 \in Level => Starts(level + 1) \subseteq Starts(level)
  /\ \A level \in {NotLevel, MinusLevel} :
       Prefixes[level] \in Starts(level) /\ Prefixes[level] \notin Starts(level + 1)
<1>1. \A level \in Level : {"lit", "id", "("} \subseteq Starts(level)
  BY DEF Starts
<1>2. \A level \in Level : level + 1 \in Level => Starts(level + 1) \subseteq Starts(level)
  BY DEF Starts, Level, MinusLevel, NotLevel
<1>3. \A level \in {NotLevel, MinusLevel} :
        Prefixes[level] \in Starts(level) /\ Prefixes[level] \notin Starts(level + 1)
  BY DEF Starts, Prefixes, MinusLevel, NotLevel
<1> QED
  BY <1>1, <1>2, <1>3

(* No operator belongs to two levels.                                       *)
LEMMA OperatorsDiffer ==
  ASSUME NEW l \in Level, NEW m \in Level, l # m
  PROVE  Operators(l) \cap Operators(m) = {}
<1>1. /\ Operators(1) = {"or"} /\ Operators(2) = {"and"} /\ Operators(3) = {} /\ Operators(4) = {"="}
      /\ Operators(5) = {"+", "-"} /\ Operators(6) = {"*"} /\ Operators(7) = {} /\ Operators(8) = {}
  BY DEF Operators, OrLevel, AndLevel, CompareLevel, AddLevel, MulLevel
<1>2. l \in {1, 2, 3, 4, 5, 6, 7, 8} /\ m \in {1, 2, 3, 4, 5, 6, 7, 8}
  BY DEF Level
<1> QED
  BY <1>1, <1>2

(* An operator of a level continues no operand of a higher one; neither do  *)
(* ")" and the end.                                                         *)
LEMMA ContinuesShape ==
  ASSUME NEW level \in Level
  PROVE  /\ "." \in Continues(level) /\ ")" \notin Continues(level) /\ "end" \notin Continues(level)
         /\ Operators(level) \subseteq Continues(level)
         /\ level + 1 \in Level => /\ Continues(level + 1) \subseteq Continues(level)
                                   /\ Operators(level) \cap Continues(level + 1) = {}
<1>1. "." \in Continues(level) /\ ")" \notin Continues(level) /\ "end" \notin Continues(level)
  BY LevelNames DEF Continues
<1>2. Operators(level) \subseteq Continues(level)
  <2>1. level \in {m \in Level : level <= m}
    BY DEF Level
  <2> QED
    BY <2>1 DEF Continues
<1>3. ASSUME level + 1 \in Level
      PROVE  /\ Continues(level + 1) \subseteq Continues(level)
             /\ Operators(level) \cap Continues(level + 1) = {}
  <2>1. {m \in Level : level + 1 <= m} \subseteq {m \in Level : level <= m}
    BY DEF Level
  <2>2. \A m \in Level : level + 1 <= m => level # m
    BY DEF Level
  <2>3. \A m \in Level : level + 1 <= m => Operators(level) \cap Operators(m) = {}
    BY <2>2, OperatorsDiffer
  <2>4. "." \notin Operators(level)
    BY LevelNames
  <2> QED
    BY <2>1, <2>3, <2>4 DEF Continues
<1> QED
  BY <1>1, <1>2, <1>3

(* All smaller spans, and the same one at higher levels, are in A.         *)
InnerSpans(A, level, i, j) ==
  \A l \in Level, a \in i..j, b \in i..j :
    a <= b /\ (b - a < j - i \/ (a = i /\ b = j /\ level < l)) => <<l, a, b>> \in A

(* An inner span has a smaller rank.                                        *)
LEMMA InnerRank ==
  ASSUME NEW level \in Level, NEW i \in Nat, NEW j \in Nat, NEW l \in Level, NEW a \in i..j, NEW b \in i..j,
         i <= j, a <= b, b - a < j - i \/ (a = i /\ b = j /\ level < l)
  PROVE  /\ 8 * (j - i) + (8 - level) \in Nat /\ 8 * (b - a) + (8 - l) \in Nat
         /\ 8 * (b - a) + (8 - l) < 8 * (j - i) + (8 - level)
BY DEF Level

(* What holds of a span when it holds of all inner ones holds of every      *)
(* span.                                                                    *)
LEMMA SpanInduction ==
  ASSUME NEW ts \in Seq(Lexical), NEW A,
         \A level \in Level, i \in 1..Len(ts), j \in 1..Len(ts) :
           i <= j /\ InnerSpans(A, level, i, j) => <<level, i, j>> \in A
  PROVE  \A level \in Level, i \in 1..Len(ts), j \in 1..Len(ts) : i <= j => <<level, i, j>> \in A
<1> DEFINE n == Len(ts)
           S == {s \in Level \X (1..n) \X (1..n) : s[2] <= s[3]}
           rank == [s \in S |-> 8 * (s[3] - s[2]) + (8 - s[1])]
<1>1. n \in Nat
  BY TokensShape
<1>2. ASSUME NEW l \in Level, NEW i \in 1..n, NEW j \in 1..n, i <= j
      PROVE  /\ <<l, i, j>> \in S /\ rank[<<l, i, j>>] = 8 * (j - i) + (8 - l)
             /\ rank[<<l, i, j>>] \in Nat
  <2>1. <<l, i, j>> \in S
    BY <1>2
  <2>2. rank[<<l, i, j>>] = 8 * (j - i) + (8 - l)
    BY <2>1
  <2>3. 8 * (j - i) + (8 - l) \in Nat
    <3>1. i \in Nat /\ j \in Nat
      BY <1>1
    <3>2. l \in Int /\ 8 - l \in Nat
      BY DEF Level
    <3> QED
      BY <1>2, <3>1, <3>2
  <2> QED
    BY <2>1, <2>2, <2>3
<1>3. \A s \in S : \E l \in Level, i \in 1..n, j \in 1..n : s = <<l, i, j>> /\ i <= j
  OBVIOUS
<1> DEFINE dom == S
<1>4. rank = [s \in dom |-> rank[s]]
  OBVIOUS
<1> HIDE DEF S, rank, dom
<1>5. rank \in [S -> Nat]
  <2>1. \A s \in S : rank[s] \in Nat
    BY <1>2, <1>3
  <2> QED
    BY <1>4, <2>1 DEF dom
<1>6. ASSUME NEW s \in S, \A d \in S : rank[d] < rank[s] => d \in A
      PROVE  s \in A
  <2>1. PICK level \in Level, i \in 1..n, j \in 1..n : s = <<level, i, j>> /\ i <= j
    BY <1>3
  <2>2. InnerSpans(A, level, i, j)
    <3>1. SUFFICES ASSUME NEW l \in Level, NEW a \in i..j, NEW b \in i..j,
                          a <= b, b - a < j - i \/ (a = i /\ b = j /\ level < l)
                   PROVE  <<l, a, b>> \in A
      BY DEF InnerSpans
    <3>2. a \in 1..n /\ b \in 1..n /\ i \in Nat /\ j \in Nat
      BY <1>1
    <3>3. 8 * (b - a) + (8 - l) < 8 * (j - i) + (8 - level)
      BY <2>1, <3>1, <3>2, InnerRank
    <3> DEFINE d == <<l, a, b>>
               e == <<level, i, j>>
    <3>4. d \in S /\ rank[d] < rank[e]
      BY <1>2, <2>1, <3>1, <3>2, <3>3
    <3> HIDE DEF d
    <3>5. d \in A
      BY <1>6, <2>1, <3>4
    <3> QED
      BY <3>5 DEF d
  <2> QED
    BY <2>1, <2>2
<1>7. S \subseteq A
  BY <1>5, <1>6, RankInduction
<1> QED
  BY <1>2, <1>7

(* Every derivation starts with a token that may start it.                  *)
LEMMA SentencesStart ==
  ASSUME NEW ts \in Seq(Lexical), NEW level \in Level, NEW i \in 1..Len(ts), NEW j \in i..Len(ts),
         NEW t \in Trees(ts)[<<level, i, j>>]
  PROVE  ts[i] \in Starts(level)
<1> DEFINE n == Len(ts)
           T == Trees(ts)
           A == {s \in Level \X (1..n) \X (1..n) : T[s] # {} => ts[s[2]] \in Starts(s[1])}
<1>1. n \in Nat
  BY TokensShape
<1>2. ASSUME NEW l \in Level, NEW a \in 1..n, NEW b \in 1..n, a <= b, InnerSpans(A, l, a, b)
      PROVE  <<l, a, b>> \in A
  <2>1. SUFFICES ASSUME NEW u \in T[<<l, a, b>>]
                 PROVE  ts[a] \in Starts(l)
    OBVIOUS
  <2>2. a \in a..b /\ b \in a..b /\ b \in a..n /\ a \in 1..(n + 1)
    BY <1>1, <1>2
  <2>3. ASSUME l + 1 \in Level, T[<<l + 1, a, b>>] # {}
        PROVE  ts[a] \in Starts(l)
    <3>1. l < l + 1
      BY DEF Level
    <3>2. <<l + 1, a, b>> \in A
      BY <1>2, <2>2, <2>3, <3>1 DEF InnerSpans
    <3> QED
      BY <2>3, <3>2, StartsShape
  <2> HIDE DEF A
  <2>4. CASE l = PrimaryLevel
    <3>1. ts[a] = "lit" \/ IsPath(ts, a, b) \/ ts[a] = "("
      BY <2>1, <2>2, <2>4, PrimaryRule
    <3>2. ts[a] \in {"lit", "id", "("}
      BY <3>1 DEF IsPath
    <3> QED
      BY <3>2, StartsShape
  <2>5. CASE l \in {NotLevel, MinusLevel}
    <3>1. l + 1 \in Level
      BY <2>5 DEF Level, NotLevel, MinusLevel
    <3>2. T[<<l + 1, a, b>>] # {} \/ ts[a] = Prefixes[l]
      BY <2>1, <2>2, <2>5, PrefixRule DEF PrefixedBy
    <3> QED
      BY <2>3, <2>5, <3>1, <3>2, StartsShape
  <2>6. CASE l \in LeftAssociative \cup {CompareLevel}
    <3>1. l + 1 \in Level
      BY <2>6, BinaryLevels
    <3>2. T[<<l + 1, a, b>>] # {} \/ \E k : Infixed(ts, l, a, b, u, k)
      BY <2>1, <2>2, <2>6, InfixRule
    <3>3. ASSUME NEW k, Infixed(ts, l, a, b, u, k)
          PROVE  ts[a] \in Starts(l)
      <4>1. k \in (a + 1)..(b - 1) /\ T[<<LeftLevel(l), a, k - 1>>] # {}
        BY <3>3 DEF Infixed
      <4>2. k - 1 \in a..b /\ (k - 1) - a < b - a /\ a <= k - 1 /\ k - 1 \in 1..n
        BY <1>1, <4>1
      <4>3. LeftLevel(l) \in Level /\ LeftLevel(l) \in {l, l + 1}
        BY <2>6, BinaryLevels
      <4> DEFINE c == k - 1
                 m == LeftLevel(l)
      <4>4. <<m, a, c>> \in A
        BY <1>2, <2>2, <4>2, <4>3 DEF InnerSpans
      <4>5. ts[a] \in Starts(m)
        BY <4>1, <4>4 DEF A
      <4> QED
        BY <3>1, <4>3, <4>5, StartsShape
    <3> QED
      BY <2>3, <3>1, <3>2, <3>3
  <2> QED
    BY <2>4, <2>5, <2>6, LevelNames
<1>3. \A l \in Level, a \in 1..n, b \in 1..n : a <= b => <<l, a, b>> \in A
  <2> HIDE DEF A
  <2> QED
    BY <1>2, SpanInduction
<1>4. j \in 1..n /\ i <= j
  BY <1>1
<1>5. <<level, i, j>> \in A
  BY <1>3, <1>4
<1> QED
  BY <1>5

(* parse_primary reads a path to its end.                                   *)
LEMMA PathScans ==
  ASSUME NEW ts \in Seq(Lexical), NEW i \in 1..Len(ts), NEW j \in i..Len(ts),
         IsPath(ts, i, j), Peek(ts, j + 1) # "."
  PROVE  Parser(ts)[<<"more", PrimaryLevel, i + 1>>] = Nothing(j + 1)
<1> DEFINE n == Len(ts)
           P == Parser(ts)
           S == i..j
           rank == [k \in S |-> j - k]
           A == {k \in S : ts[k] = "id" => P[<<"more", PrimaryLevel, k + 1>>] = Nothing(j + 1)}
<1>1. n \in Nat /\ rank \in [S -> Nat] /\ PrimaryLevel \in Level
  BY TokensShape DEF Level, PrimaryLevel
<1>2. ASSUME NEW k \in S, \A d \in S : rank[d] < rank[k] => d \in A
      PROVE  k \in A
  <2>1. SUFFICES ASSUME ts[k] = "id"
                 PROVE  P[<<"more", PrimaryLevel, k + 1>>] = Nothing(j + 1)
    OBVIOUS
  <2>2. k \in 1..n /\ k + 1 \in 1..(n + 1) /\ k \in Int
    BY <1>1
  <2>3. P[<<"more", PrimaryLevel, k + 1>>] = Path(ts, k + 1, P)
    BY <1>1, <2>2, Returns
  <2>4. CASE k = j
    <3>1. Path(ts, j + 1, P) = Nothing(j + 1)
      BY DEF Path
    <3> QED
      BY <2>3, <2>4, <3>1
  <2>5. CASE k # j
    <3>1. k \in i..(j - 1) /\ k + 1 \in 1..n
      BY <1>1, <2>5
    <3>2. ts[k + 1] = "."
      BY <2>1, <3>1 DEF IsPath
    <3>3. ts[j] = "id"
      BY DEF IsPath
    <3>4. k + 1 \in i..(j - 1) /\ k + 2 \in S /\ k + 2 \in 1..n /\ (k + 1) + 1 = k + 2 /\ (k + 2) + 1 = k + 3
          /\ (k + 1) + 2 = k + 3 /\ j - (k + 2) < j - k
      BY <1>1, <2>5, <3>1, <3>2, <3>3
    <3>5. ts[k + 2] = "id"
      <4>1. {ts[k + 1], ts[(k + 1) + 1]} = {"id", "."}
        BY <3>4 DEF IsPath
      <4> QED
        BY <3>2, <3>4, <4>1
    <3>6. Peek(ts, k + 1) = "." /\ Peek(ts, (k + 1) + 1) = "id"
      BY <3>1, <3>2, <3>4, <3>5, TokensShape
    <3>7. Path(ts, k + 1, P) = P[<<"more", PrimaryLevel, (k + 1) + 2>>]
      BY <3>6 DEF Path
    <3>8. k + 2 \in A
      BY <1>2, <3>4
    <3>9. P[<<"more", PrimaryLevel, (k + 2) + 1>>] = Nothing(j + 1)
      BY <3>5, <3>8
    <3> QED
      BY <2>3, <3>4, <3>7, <3>9
  <2> QED
    BY <2>4, <2>5
<1>3. S \subseteq A
  <2> HIDE DEF A, S, rank
  <2> QED
    BY <1>1, <1>2, RankInduction
<1>4. i \in A
  BY <1>1, <1>3
<1> QED
  BY <1>4 DEF IsPath

(* The parser reads a derivation of i..j to its end when what follows does *)
(* not continue it.  At a left-associative level it reads it, and goes on  *)
(* with what follows, when only an operator of that level could.           *)
ReadsAlone(ts, level, i, j, t) ==
  LET p == Parser(ts)[<<"parse", level, i>>]
  IN Peek(ts, j + 1) \notin Continues(level) => p.at = j + 1 /\ p.nodes = t

ReadsOn(ts, level, i, j, t) ==
  LET p == Parser(ts)[<<"parse", level, i>>]
      m == Parser(ts)[<<"more", level, j + 1>>]
  IN Peek(ts, j + 1) \notin Continues(level + 1) =>
       IF m.at = 0 THEN p.at = 0 ELSE p.at = m.at /\ p.nodes = t \o m.nodes

Reads(ts, level, i, j) ==
  \A t \in Trees(ts)[<<level, i, j>>] :
    /\ ReadsAlone(ts, level, i, j, t)
    /\ level \in LeftAssociative => ReadsOn(ts, level, i, j, t)

(* One level of the grammar, from what holds of inner spans: primaries.     *)
LEMMA ReadsPrimary ==
  ASSUME NEW ts \in Seq(Lexical), NEW i \in 1..Len(ts), NEW j \in i..Len(ts),
         i + 1 <= j - 1 => Reads(ts, OrLevel, i + 1, j - 1)
  PROVE  Reads(ts, PrimaryLevel, i, j)
<1> DEFINE n == Len(ts)
           P == Parser(ts)
           T == Trees(ts)
           p == P[<<"parse", PrimaryLevel, i>>]
<1>1. /\ n \in Nat /\ PrimaryLevel \in Level /\ OrLevel \in Level
      /\ PrimaryLevel \notin LeftAssociative
  BY TokensShape DEF Level, PrimaryLevel, OrLevel, LeftAssociative, AndLevel, AddLevel, MulLevel
<1>2. SUFFICES ASSUME NEW t \in T[<<PrimaryLevel, i, j>>], Peek(ts, j + 1) \notin Continues(PrimaryLevel)
               PROVE  p.at = j + 1 /\ p.nodes = t
  BY <1>1 DEF Reads, ReadsAlone
<1>3. /\ i \in 1..(n + 1) /\ j \in 1..n /\ i + 1 \in 1..(n + 1) /\ j + 1 \in 1..(n + 1) /\ i <= j
      /\ ts[i] = Peek(ts, i) /\ ts[j] = Peek(ts, j)
  <2>1. i \in 1..n /\ j \in 1..n
    BY <1>1
  <2> QED
    BY <1>1, <2>1, TokensShape
<1>4. p = Primary(ts, i, P)
  <2>1. p = Parse(ts, PrimaryLevel, i, P)
    BY <1>1, <1>3, Returns
  <2> QED
    BY <2>1 DEF Parse, PrimaryLevel, NotLevel, MinusLevel
<1>5. CASE i = j /\ ts[i] = "lit" /\ t = <<<<"lit", i, i>>>>
  <2> DEFINE r == Nothing(i + 1)
             kind == "lit"
  <2>1. p = Built(r, kind, i, i)
    BY <1>3, <1>4, <1>5 DEF Primary
  <2>2. r \in Result(ts) /\ r.at = i + 1 /\ r.nodes = <<>> /\ i + 1 # 0
    BY <1>3, NothingIs
  <2>3. kind \in {"lit", "path", "not", "minus", "bin"}
    OBVIOUS
  <2> HIDE DEF p, r, kind
  <2>4. p.nodes = Append(r.nodes, <<kind, i, i>>) /\ p.at = r.at
    BY ONLY ts \in Seq(Lexical), i \in 1..n, <2>1, <2>2, <2>3, BuiltIs
  <2>5. p.nodes = Append(<<>>, <<"lit", i, i>>) /\ p.at = j + 1
    BY <1>5, <2>2, <2>4 DEF kind
  <2> QED
    BY <1>5, <2>5
<1>6. CASE IsPath(ts, i, j) /\ t = <<<<"path", i, j>>>>
  <2> DEFINE r == P[<<"more", PrimaryLevel, i + 1>>]
             kind == "path"
  <2>1. r = Nothing(j + 1)
    <3>1. Peek(ts, j + 1) # "."
      BY <1>1, <1>2, ContinuesShape
    <3> QED
      BY <1>6, <3>1, PathScans
  <2>2. r \in Result(ts) /\ r.at = j + 1 /\ r.nodes = <<>> /\ j + 1 # 0 /\ (j + 1) - 1 = j
    <3> HIDE DEF r
    <3> QED
      BY <1>3, <2>1, NothingIs
  <2>3. p = Built(r, kind, i, j)
    <3>1. ts[i] = "id"
      BY <1>6 DEF IsPath
    <3>2. p = Built(r, "path", i, r.at - 1)
      BY <1>3, <1>4, <3>1 DEF Primary
    <3> HIDE DEF p, r
    <3> QED
      BY <2>2, <3>2
  <2>4. kind \in {"lit", "path", "not", "minus", "bin"}
    OBVIOUS
  <2> HIDE DEF p, r, kind
  <2>5. p.nodes = Append(r.nodes, <<kind, i, j>>) /\ p.at = r.at
    <3>1. r \in Result(ts) /\ r.at # 0 /\ IsNode(ts, kind, i, j)
      BY <1>3, <2>2, <2>4 DEF IsNode, TreeNode
    <3>2. /\ Built(r, kind, i, j).nodes = Append(r.nodes, <<kind, i, j>>)
          /\ Built(r, kind, i, j).at = r.at
      BY <3>1, BuildsOn
    <3> QED
      BY <2>3, <3>2
  <2>6. p.nodes = Append(<<>>, <<"path", i, j>>) /\ p.at = j + 1
    BY <2>2, <2>5 DEF kind
  <2> QED
    BY <1>6, <2>6
<1>7. CASE ts[i] = "(" /\ ts[j] = ")" /\ t \in T[<<OrLevel, i + 1, j - 1>>]
  <2> DEFINE q == P[<<"parse", OrLevel, i + 1>>]
  <2>1. i + 1 <= j - 1
    <3>1. j - 1 \in 0..n
      BY <1>1, <1>3
    <3>2. ~ (i + 1 > j - 1)
      BY <1>1, <1>3, <1>7, <3>1, Rules
    <3> QED
      BY <1>3, <3>2
  <2>2. (j - 1) + 1 = j /\ Peek(ts, j) \notin Continues(OrLevel)
    BY <1>1, <1>3, <1>7, ContinuesShape
  <2>3. q.at = j /\ q.nodes = t
    <3>1. ReadsAlone(ts, OrLevel, i + 1, j - 1, t)
      BY <1>7, <2>1 DEF Reads
    <3> QED
      BY <2>2, <3>1 DEF ReadsAlone
  <2>4. p = Closed(ts, q)
    BY <1>3, <1>4, <1>7 DEF Primary
  <2>5. q \in Result(ts)
    BY <1>1, <1>3, Returns
  <2> HIDE DEF p, q
  <2>6. p = [q EXCEPT !.at = @ + 1]
    <3>1. j # 0 /\ Peek(ts, j) = ")"
      BY <1>1, <1>3, <1>7
    <3>2. q.at # 0 /\ Peek(ts, q.at) = ")"
      BY <2>3, <3>1
    <3> QED
      BY <2>4, <3>2 DEF Closed, IsError
  <2> QED
    BY <2>3, <2>5, <2>6 DEF Result
<1> QED
  BY <1>2, <1>5, <1>6, <1>7, PrimaryRule

(* Prefix operators.                                                        *)
LEMMA ReadsPrefix ==
  ASSUME NEW ts \in Seq(Lexical), NEW level \in {NotLevel, MinusLevel},
         NEW i \in 1..Len(ts), NEW j \in i..Len(ts),
         Reads(ts, level + 1, i, j), i + 1 <= j => Reads(ts, level, i + 1, j)
  PROVE  Reads(ts, level, i, j)
<1> DEFINE n == Len(ts)
           P == Parser(ts)
           T == Trees(ts)
           p == P[<<"parse", level, i>>]
<1>1. /\ n \in Nat /\ level \in Level /\ level + 1 \in Level /\ level \notin LeftAssociative
      /\ level # PrimaryLevel
  BY TokensShape DEF Level, LeftAssociative, OrLevel, AndLevel, NotLevel, AddLevel, MulLevel, MinusLevel,
                     PrimaryLevel
<1>2. SUFFICES ASSUME NEW t \in T[<<level, i, j>>], Peek(ts, j + 1) \notin Continues(level)
               PROVE  p.at = j + 1 /\ p.nodes = t
  BY <1>1 DEF Reads, ReadsAlone
<1>3. i \in 1..(n + 1) /\ j \in 1..n /\ i + 1 \in 1..(n + 1) /\ i <= j /\ ts[i] = Peek(ts, i) /\ j + 1 # 0
  <2>1. i \in 1..n /\ j \in 1..n
    BY <1>1
  <2> QED
    BY <1>1, <2>1, TokensShape
<1>4. p = Parse(ts, level, i, P)
  BY <1>1, <1>3, Returns
<1>5. CASE t \in T[<<level + 1, i, j>>]
  <2> DEFINE q == P[<<"parse", level + 1, i>>]
  <2>1. Peek(ts, i) # Prefixes[level]
    BY <1>1, <1>3, <1>5, SentencesStart, StartsShape
  <2>2. p = q
    BY <1>1, <1>4, <2>1 DEF Parse
  <2>3. q.at = j + 1 /\ q.nodes = t
    <3>1. Peek(ts, j + 1) \notin Continues(level + 1)
      BY <1>1, <1>2, ContinuesShape
    <3> QED
      BY <1>5, <3>1 DEF Reads, ReadsAlone
  <2> QED
    BY <2>2, <2>3
<1>6. ASSUME ts[i] = Prefixes[level],
             NEW u \in T[<<level, i + 1, j>>], t = Append(u, <<PrefixNode[level], i, i>>)
      PROVE  p.at = j + 1 /\ p.nodes = t
  <2> DEFINE q == P[<<"parse", level, i + 1>>]
             kind == PrefixNode[level]
  <2>1. i + 1 <= j
    <3>1. j \in 0..n
      BY <1>3
    <3>2. ~ (i + 1 > j)
      BY <1>1, <1>3, <1>6, <3>1, Rules
    <3> QED
      BY <1>3, <3>2
  <2>2. q.at = j + 1 /\ q.nodes = u
    BY <1>2, <1>6, <2>1 DEF Reads, ReadsAlone
  <2>3. p = Built(q, kind, i, i)
    BY <1>1, <1>3, <1>4, <1>6 DEF Parse
  <2>4. q \in Result(ts) /\ q.at # 0 /\ kind \in {"not", "minus"}
    BY <1>1, <1>3, <2>2, Returns, LevelNames
  <2> HIDE DEF p, q, kind
  <2>5. p.nodes = Append(q.nodes, <<kind, i, i>>) /\ p.at = q.at
    <3>1. IsNode(ts, kind, i, i)
      BY <2>4 DEF IsNode, TreeNode
    <3>2. /\ Built(q, kind, i, i).nodes = Append(q.nodes, <<kind, i, i>>)
          /\ Built(q, kind, i, i).at = q.at
      BY <2>4, <3>1, BuildsOn
    <3> QED
      BY <2>3, <3>2
  <2> QED
    BY <1>6, <2>2, <2>5 DEF kind
<1>7. t \in T[<<level + 1, i, j>>] \/ PrefixedBy(ts, level, i, j, t)
  BY <1>2, PrefixRule
<1>8. PrefixedBy(ts, level, i, j, t) => p.at = j + 1 /\ p.nodes = t
  BY <1>6 DEF PrefixedBy
<1> HIDE DEF T, p
<1> QED
  BY <1>5, <1>7, <1>8

(* An operator and its right operand: what the parser does with them.      *)
IsRightOperand(ts, level, k, j, r) ==
  /\ level \in LeftAssociative \cup {CompareLevel} /\ k \in 1..Len(ts) /\ j \in 1..Len(ts) /\ k < j
  /\ ts[k] \in Operators(level)
  /\ r \in Trees(ts)[<<level + 1, k + 1, j>>] /\ Reads(ts, level + 1, k + 1, j)
  /\ Peek(ts, j + 1) \notin Continues(level + 1)

(* both is what the parser has built of the operator and the operand.      *)
IsRead(ts, level, k, j, r, both) ==
  /\ both \in Result(ts) /\ both.at = j + 1 /\ both.nodes = Append(r, <<"bin", k, k>>)
  /\ Parser(ts)[<<"more", level, k>>] =
       IF level = CompareLevel THEN both ELSE Then(both, Parser(ts)[<<"more", level, j + 1>>])

(* After a left operand the parser builds the operator on its right         *)
(* operand.                                                                 *)
LEMMA RightOperand ==
  ASSUME NEW ts \in Seq(Lexical), NEW level, NEW k, NEW j, NEW r, IsRightOperand(ts, level, k, j, r)
  PROVE  \E both : IsRead(ts, level, k, j, r, both)
<1> DEFINE n == Len(ts)
           P == Parser(ts)
           right == P[<<"parse", level + 1, k + 1>>]
           both == Built(right, "bin", k, k)
           m == P[<<"more", level, k>>]
<1>1. /\ n \in Nat /\ level \in Level /\ level + 1 \in Level /\ level # PrimaryLevel
      /\ k \in 1..n /\ j \in 1..n /\ ts[k] \in Operators(level)
  BY TokensShape, BinaryLevels DEF IsRightOperand
<1>2. k \in 1..(n + 1) /\ k + 1 \in 1..(n + 1) /\ j + 1 # 0 /\ Peek(ts, k) = ts[k]
  BY <1>1, TokensShape
<1>3. right \in Result(ts)
  BY <1>1, <1>2, Returns
<1>4. right.at = j + 1 /\ right.nodes = r
  BY DEF IsRightOperand, Reads, ReadsAlone
<1>5. m = More(ts, level, k, P)
  BY <1>1, <1>2, Returns
<1>6. m = IF level = CompareLevel THEN both ELSE Then(both, P[<<"more", level, right.at>>])
  BY <1>1, <1>2, <1>5 DEF More
<1>7. both \in Result(ts) /\ both.nodes = Append(right.nodes, <<"bin", k, k>>) /\ both.at = right.at
  <2> HIDE DEF right
  <2>1. right.at # 0 /\ IsNode(ts, "bin", k, k)
    BY <1>1, <1>2, <1>4 DEF IsNode, TreeNode
  <2> QED
    BY <1>3, <2>1, BuildsOn
<1>8. m = IF level = CompareLevel THEN both ELSE Then(both, P[<<"more", level, j + 1>>])
  <2> HIDE DEF m, both, P
  <2> QED
    BY <1>4, <1>6
<1> HIDE DEF both, right
<1>9. IsRead(ts, level, k, j, r, both)
  BY <1>4, <1>7, <1>8 DEF IsRead
<1> QED
  BY <1>9

(* Left-associative operators: whatever the parser does after a             *)
(* derivation, it has the derivation.                                       *)
LEMMA LeftAssociativeReadsOn ==
  ASSUME NEW ts \in Seq(Lexical), NEW level \in LeftAssociative, NEW i \in 1..Len(ts), NEW j \in i..Len(ts),
         Reads(ts, level + 1, i, j),
         \A k \in (i + 1)..(j - 1) : Reads(ts, level, i, k - 1) /\ Reads(ts, level + 1, k + 1, j),
         NEW t \in Trees(ts)[<<level, i, j>>]
  PROVE  ReadsOn(ts, level, i, j, t)
<1> DEFINE n == Len(ts)
           P == Parser(ts)
           T == Trees(ts)
           N == TreeNode(ts)
           p == P[<<"parse", level, i>>]
           q == P[<<"parse", level + 1, i>>]
           m == P[<<"more", level, j + 1>>]
<1>1. /\ n \in Nat /\ level \in LeftAssociative \cup {CompareLevel} /\ level \in Level /\ level + 1 \in Level
      /\ level \notin {PrimaryLevel, NotLevel, MinusLevel}
  BY TokensShape, BinaryLevels
<1>2. SUFFICES ASSUME Peek(ts, j + 1) \notin Continues(level + 1)
               PROVE  IF m.at = 0 THEN p.at = 0 ELSE p.at = m.at /\ p.nodes = t \o m.nodes
  BY DEF ReadsOn
<1>3. i \in 1..(n + 1) /\ j \in 1..n /\ j + 1 \in 1..(n + 1) /\ i <= j /\ j + 1 # 0 /\ i \in Int /\ j \in Int
  BY <1>1
<1>4. p = Then(q, P[<<"more", level, q.at>>]) /\ q \in Result(ts)
  <2>1. p = Parse(ts, level, i, P) /\ q \in Result(ts)
    BY <1>1, <1>3, Returns
  <2> QED
    BY <1>1, <2>1 DEF Parse
<1>5. m \in Result(ts)
  BY <1>1, <1>3, Returns
<1>6. CASE t \in T[<<level + 1, i, j>>]
  <2>1. q.at = j + 1 /\ q.nodes = t
    BY <1>2, <1>6 DEF Reads, ReadsAlone
  <2>2. p = Then(q, m)
    <3> HIDE DEF p, q, P
    <3> QED
      BY <1>4, <2>1 DEF P
  <2> HIDE DEF p, q, m
  <2>3. m.at = 0 => p.at = 0
    BY <2>2, ThenFails DEF Failed
  <2>4. m.at # 0 => p.at = m.at /\ p.nodes = q.nodes \o m.nodes
    <3>1. q.at # 0 /\ q \in Result(ts)
      BY <1>3, <1>4, <2>1
    <3> QED
      BY <1>5, <2>2, <3>1, ThenIs
  <2> QED
    BY <2>1, <2>3, <2>4
<1>7. ASSUME NEW k, Infixed(ts, level, i, j, t, k)
      PROVE  IF m.at = 0 THEN p.at = 0 ELSE p.at = m.at /\ p.nodes = t \o m.nodes
  <2>1. k \in (i + 1)..(j - 1) /\ ts[k] \in Operators(level)
    BY <1>7 DEF Infixed
  <2>2. LeftLevel(level) = level /\ level # CompareLevel
    BY DEF LeftLevel, LeftAssociative, CompareLevel, OrLevel, AndLevel, AddLevel, MulLevel
  <2>3. PICK l \in T[<<level, i, k - 1>>], r \in T[<<level + 1, k + 1, j>>] : t = l \o Append(r, <<"bin", k, k>>)
    BY <1>7, <2>2 DEF Infixed
  <2>4. /\ k \in 1..n /\ k < j /\ (k - 1) + 1 = k /\ Peek(ts, k) = ts[k]
        /\ k - 1 \in 0..n /\ k + 1 \in 1..(n + 1) /\ j \in 0..n
    <3>1. k \in 1..n
      BY <1>1, <1>3, <2>1
    <3> QED
      BY <1>1, <1>3, <2>1, <3>1, TokensShape
  <2> DEFINE mk == P[<<"more", level, k>>]
  <2>5. IF mk.at = 0 THEN p.at = 0 ELSE p.at = mk.at /\ p.nodes = l \o mk.nodes
    <3>1. Peek(ts, k) \notin Continues(level + 1)
      BY <1>1, <2>1, <2>4, ContinuesShape
    <3>2. ReadsOn(ts, level, i, k - 1, l)
      BY <2>1 DEF Reads
    <3> QED
      BY <2>4, <3>1, <3>2 DEF ReadsOn
  <2>10. PICK both : IsRead(ts, level, k, j, r, both)
    <3>1. IsRightOperand(ts, level, k, j, r)
      BY <1>1, <1>2, <1>3, <2>1, <2>4 DEF IsRightOperand
    <3> QED
      BY <3>1, RightOperand
  <2>6. /\ both \in Result(ts) /\ both.at = j + 1 /\ both.nodes = Append(r, <<"bin", k, k>>)
        /\ mk = Then(both, m)
    BY <2>2, <2>10 DEF IsRead
  <2>7. l \in Seq(N)
    BY <1>1, <1>3, <2>4, Rules
  <2> HIDE DEF p, m, mk, N
  <2>8. m.at = 0 => p.at = 0
    <3> SUFFICES ASSUME m.at = 0
                 PROVE  p.at = 0
      OBVIOUS
    <3>1. mk.at = 0
      BY <2>6, ThenFails DEF Failed
    <3> QED
      BY <2>5, <3>1
  <2>9. m.at # 0 => p.at = m.at /\ p.nodes = t \o m.nodes
    <3> SUFFICES ASSUME m.at # 0
                 PROVE  p.at = m.at /\ p.nodes = t \o m.nodes
      OBVIOUS
    <3>1. mk.at = m.at /\ mk.nodes = both.nodes \o m.nodes
      BY <1>3, <1>5, <2>6, ThenIs
    <3>2. p.at = m.at /\ p.nodes = l \o mk.nodes
      BY <2>5, <3>1
    <3>3. t = l \o both.nodes
      BY <2>3, <2>6
    <3> DEFINE a1 == both.nodes
               a2 == m.nodes
    <3>4. a1 \in Seq(N) /\ a2 \in Seq(N)
      BY <1>5, <2>6 DEF Result, N
    <3>5. p.nodes = l \o (a1 \o a2) /\ t = l \o a1
      BY <3>1, <3>2, <3>3
    <3> HIDE DEF a1
    <3>6. p.nodes = (l \o a1) \o a2
      <4> HIDE DEF a2
      <4>1. (l \o a1) \o a2 = l \o (a1 \o a2)
        BY ONLY <2>7, <3>4, ConcatAssociative
      <4> QED
        BY <3>5, <4>1
    <3> QED
      BY <3>2, <3>5, <3>6
  <2> QED
    BY <2>8, <2>9
<1>8. t \in T[<<level + 1, i, j>>] \/ \E k : Infixed(ts, level, i, j, t, k)
  BY <1>1, InfixRule
<1> HIDE DEF p, m, T
<1> QED
  BY <1>6, <1>7, <1>8

(* Where nothing continues the derivation, it ends there.                   *)
LEMMA ReadsLeftAssociative ==
  ASSUME NEW ts \in Seq(Lexical), NEW level \in LeftAssociative, NEW i \in 1..Len(ts), NEW j \in i..Len(ts),
         Reads(ts, level + 1, i, j),
         \A k \in (i + 1)..(j - 1) : Reads(ts, level, i, k - 1) /\ Reads(ts, level + 1, k + 1, j)
  PROVE  Reads(ts, level, i, j)
<1> DEFINE n == Len(ts)
           P == Parser(ts)
           p == P[<<"parse", level, i>>]
           m == P[<<"more", level, j + 1>>]
<1>1. SUFFICES ASSUME NEW t \in Trees(ts)[<<level, i, j>>]
               PROVE  ReadsAlone(ts, level, i, j, t) /\ ReadsOn(ts, level, i, j, t)
  BY DEF Reads
<1>2. ReadsOn(ts, level, i, j, t)
  BY LeftAssociativeReadsOn
<1>3. ASSUME Peek(ts, j + 1) \notin Continues(level)
      PROVE  p.at = j + 1 /\ p.nodes = t
  <2>1. n \in Nat /\ level \in Level /\ level + 1 \in Level /\ level # PrimaryLevel
    BY TokensShape, BinaryLevels
  <2>2. i \in 1..(n + 1) /\ j + 1 \in 1..(n + 1) /\ j \in 0..n /\ j + 1 # 0
    BY <2>1
  <2>3. Peek(ts, j + 1) \notin Continues(level + 1) /\ Peek(ts, j + 1) \notin Operators(level)
    BY <1>3, <2>1, ContinuesShape
  <2>4. m = Nothing(j + 1)
    <3>1. m = More(ts, level, j + 1, P)
      BY <2>1, <2>2, Returns
    <3> QED
      BY <2>3, <3>1 DEF More
  <2>5. t \in Seq(TreeNode(ts))
    BY <2>1, <2>2, Rules
  <2>6. IF m.at = 0 THEN p.at = 0 ELSE p.at = m.at /\ p.nodes = t \o m.nodes
    BY <1>2, <2>3 DEF ReadsOn
  <2> HIDE DEF p, m
  <2>7. m.at = j + 1 /\ m.nodes = <<>>
    BY <2>4 DEF Nothing
  <2>8. p.at = j + 1 /\ p.nodes = t \o <<>>
    BY <2>2, <2>6, <2>7
  <2> QED
    BY <2>5, <2>8, ConcatEmptySeq
<1> QED
  BY <1>2, <1>3 DEF ReadsAlone

(* Comparisons, which do not chain.                                         *)
LEMMA ReadsComparison ==
  ASSUME NEW ts \in Seq(Lexical), NEW i \in 1..Len(ts), NEW j \in i..Len(ts),
         Reads(ts, CompareLevel + 1, i, j),
         \A k \in (i + 1)..(j - 1) :
           Reads(ts, CompareLevel + 1, i, k - 1) /\ Reads(ts, CompareLevel + 1, k + 1, j)
  PROVE  Reads(ts, CompareLevel, i, j)
<1> DEFINE level == CompareLevel
           n == Len(ts)
           P == Parser(ts)
           T == Trees(ts)
           p == P[<<"parse", level, i>>]
           q == P[<<"parse", level + 1, i>>]
<1>1. /\ n \in Nat /\ level \in LeftAssociative \cup {CompareLevel} /\ level \in Level /\ level + 1 \in Level
      /\ level \notin {PrimaryLevel, NotLevel, MinusLevel}
  BY TokensShape, BinaryLevels
<1>2. level \notin LeftAssociative /\ LeftLevel(level) = level + 1
  BY DEF LeftLevel, LeftAssociative, CompareLevel, OrLevel, AndLevel, AddLevel, MulLevel
<1> DEFINE left == level + 1
<1>3. SUFFICES ASSUME NEW t \in T[<<level, i, j>>], Peek(ts, j + 1) \notin Continues(level)
               PROVE  p.at = j + 1 /\ p.nodes = t
  BY <1>2 DEF Reads, ReadsAlone
<1>4. Peek(ts, j + 1) \notin Continues(level + 1) /\ Peek(ts, j + 1) \notin Operators(level)
  BY <1>1, <1>3, ContinuesShape
<1>5. /\ i \in 1..(n + 1) /\ j \in 1..n /\ j + 1 \in 1..(n + 1) /\ i <= j /\ j + 1 # 0 /\ j \in 0..n
      /\ i \in Int /\ j \in Int
  BY <1>1
<1>6. p = Then(q, P[<<"more", level, q.at>>]) /\ q \in Result(ts)
  <2>1. p = Parse(ts, level, i, P) /\ q \in Result(ts)
    BY <1>1, <1>5, Returns
  <2> QED
    BY <1>1, <2>1 DEF Parse
<1>7. CASE t \in T[<<level + 1, i, j>>]
  <2> DEFINE m == P[<<"more", level, j + 1>>]
  <2>1. q.at = j + 1 /\ q.nodes = t
    BY <1>4, <1>7 DEF Reads, ReadsAlone
  <2>2. m = Nothing(j + 1)
    <3>1. m = More(ts, level, j + 1, P)
      BY <1>1, <1>5, Returns
    <3> QED
      BY <1>4, <3>1 DEF More
  <2>3. p = Then(q, m)
    <3> HIDE DEF p, q, P
    <3> QED
      BY <1>6, <2>1 DEF P
  <2>4. m \in Result(ts) /\ m.at = j + 1 /\ m.nodes = <<>>
    BY <1>5, <2>2, NothingIs
  <2>5. t \in Seq(TreeNode(ts))
    BY <1>1, <1>5, <1>7, Rules
  <2> HIDE DEF p, q, m
  <2>6. p.at = j + 1 /\ p.nodes = t \o <<>>
    <3>1. q.at # 0 /\ q \in Result(ts) /\ m.at # 0
      BY <1>5, <1>6, <2>1, <2>4
    <3>2. p.at = m.at /\ p.nodes = q.nodes \o m.nodes
      BY <2>3, <2>4, <3>1, ThenIs
    <3> QED
      BY <2>1, <2>4, <3>2
  <2> QED
    BY <2>5, <2>6, ConcatEmptySeq
<1>8. ASSUME NEW k, Infixed(ts, level, i, j, t, k)
      PROVE  p.at = j + 1 /\ p.nodes = t
  <2>1. k \in (i + 1)..(j - 1) /\ ts[k] \in Operators(level)
    BY <1>8 DEF Infixed
  <2>2. PICK l \in T[<<level + 1, i, k - 1>>], r \in T[<<level + 1, k + 1, j>>] : t = l \o Append(r, <<"bin", k, k>>)
    BY <1>2, <1>8 DEF Infixed
  <2>3. k \in 1..n /\ k < j /\ (k - 1) + 1 = k /\ Peek(ts, k) = ts[k] /\ k # 0
    <3>1. k \in 1..n
      BY <1>1, <1>5, <2>1
    <3> QED
      BY <1>1, <1>5, <2>1, <3>1, TokensShape
  <2> DEFINE mk == P[<<"more", level, k>>]
  <2>4. q.at = k /\ q.nodes = l
    <3>1. Peek(ts, k) \notin Continues(level + 1)
      BY <1>1, <2>1, <2>3, ContinuesShape
    <3>2. ReadsAlone(ts, level + 1, i, k - 1, l)
      BY <2>1 DEF Reads
    <3> QED
      BY <2>3, <3>1, <3>2 DEF ReadsAlone
  <2>5. mk \in Result(ts) /\ mk.at = j + 1 /\ mk.nodes = Append(r, <<"bin", k, k>>)
    <3>1. IsRightOperand(ts, level, k, j, r)
      BY <1>1, <1>4, <1>5, <2>1, <2>3 DEF IsRightOperand
    <3>2. PICK both : IsRead(ts, level, k, j, r, both)
      BY <3>1, RightOperand
    <3> QED
      BY <3>2 DEF IsRead
  <2>6. p = Then(q, mk)
    <3> HIDE DEF p, q, P
    <3> QED
      BY <1>6, <2>4 DEF P
  <2> HIDE DEF p, q, mk
  <2> QED
    BY <1>5, <1>6, <2>2, <2>3, <2>4, <2>5, <2>6, ThenIs
<1>9. t \in T[<<level + 1, i, j>>] \/ \E k : Infixed(ts, level, i, j, t, k)
  BY <1>1, <1>3, InfixRule
<1> HIDE DEF p, T
<1> QED
  BY <1>7, <1>8, <1>9

(* The parser reads every derivation.                                       *)
LEMMA Complete ==
  ASSUME NEW ts \in Seq(Lexical)
  PROVE  \A level \in Level, i \in 1..Len(ts), j \in 1..Len(ts) : i <= j => Reads(ts, level, i, j)
<1> DEFINE n == Len(ts)
           A == {s \in Level \X (1..n) \X (1..n) : Reads(ts, s[1], s[2], s[3])}
<1>1. n \in Nat
  BY TokensShape
<1>2. ASSUME NEW level \in Level, NEW i \in 1..n, NEW j \in 1..n, i <= j, InnerSpans(A, level, i, j)
      PROVE  Reads(ts, level, i, j)
  <2>1. i \in i..j /\ j \in i..j /\ j \in i..n /\ i \in Int /\ j \in Int
    BY <1>1, <1>2
  <2>2. ASSUME NEW l \in Level, NEW a \in i..j, NEW b \in i..j,
               a <= b, b - a < j - i \/ (a = i /\ b = j /\ level < l)
        PROVE  Reads(ts, l, a, b)
    <3>1. <<l, a, b>> \in A
      BY <1>2, <2>2 DEF InnerSpans
    <3> QED
      BY <3>1
  <2> HIDE DEF A
  <2>3. level + 1 \in Level => Reads(ts, level + 1, i, j)
    <3>1. level < level + 1
      BY DEF Level
    <3> QED
      BY <1>2, <2>1, <2>2, <3>1
  <2>4. CASE level = PrimaryLevel
    <3>1. i + 1 <= j - 1 => Reads(ts, OrLevel, i + 1, j - 1)
      <4> HAVE i + 1 <= j - 1
      <4> DEFINE a == i + 1
                 b == j - 1
      <4>1. a \in i..j /\ b \in i..j /\ a <= b /\ b - a < j - i /\ OrLevel \in Level
        BY <2>1 DEF Level, OrLevel
      <4> HIDE DEF a, b
      <4>2. Reads(ts, OrLevel, a, b)
        BY <2>2, <4>1
      <4> QED
        BY <4>2 DEF a, b
    <3> QED
      BY <2>1, <2>4, <3>1, ReadsPrimary
  <2>5. CASE level \in {NotLevel, MinusLevel}
    <3>1. level + 1 \in Level
      BY <2>5 DEF Level, NotLevel, MinusLevel
    <3>2. i + 1 <= j => Reads(ts, level, i + 1, j)
      <4> HAVE i + 1 <= j
      <4> DEFINE a == i + 1
      <4>1. a \in i..j /\ a <= j /\ j - a < j - i
        BY <2>1
      <4> HIDE DEF a
      <4>2. Reads(ts, level, a, j)
        BY <2>1, <2>2, <4>1
      <4> QED
        BY <4>2 DEF a
    <3> QED
      BY <2>1, <2>3, <2>5, <3>1, <3>2, ReadsPrefix
  <2>6. CASE level \in LeftAssociative \cup {CompareLevel}
    <3>1. level + 1 \in Level
      BY <2>6, BinaryLevels
    <3>2. ASSUME NEW k \in (i + 1)..(j - 1)
          PROVE  Reads(ts, level, i, k - 1) /\ Reads(ts, level + 1, i, k - 1) /\ Reads(ts, level + 1, k + 1, j)
      <4> DEFINE a == k + 1
                 b == k - 1
      <4>1. a \in i..j /\ b \in i..j /\ i <= b /\ a <= j /\ b - i < j - i /\ j - a < j - i
        BY <2>1
      <4> HIDE DEF a, b
      <4>2. Reads(ts, level, i, b) /\ Reads(ts, level + 1, i, b) /\ Reads(ts, level + 1, a, j)
        BY <2>1, <2>2, <3>1, <4>1
      <4> QED
        BY <4>2 DEF a, b
    <3>3. CASE level \in LeftAssociative
      BY <2>1, <2>3, <3>1, <3>2, <3>3, ReadsLeftAssociative
    <3>4. CASE level = CompareLevel
      BY <2>1, <2>3, <3>1, <3>2, <3>4, ReadsComparison
    <3> QED
      BY <2>6, <3>3, <3>4
  <2> QED
    BY <2>4, <2>5, <2>6, LevelNames
<1>3. \A level \in Level, i \in 1..n, j \in 1..n : i <= j => <<level, i, j>> \in A
  <2>1. \A level \in Level, i \in 1..n, j \in 1..n :
          i <= j /\ InnerSpans(A, level, i, j) => <<level, i, j>> \in A
    BY <1>2
  <2> HIDE DEF A
  <2> QED
    BY <2>1, SpanInduction
<1> QED
  BY <1>3

(* The grammar is unambiguous, and the parser accepts exactly its          *)
(* sentences and returns their tree: of every sequence of tokens.          *)
THEOREM EverySentenceIsParsed == IsTokens => ParsesTheGrammar
<1> SUFFICES ASSUME IsTokens
             PROVE  ParsesTheGrammar
  OBVIOUS
<1> DEFINE ts == Stripped(tokens)
           n == Len(ts)
           r == Parser(ts)[<<"parse", OrLevel, 1>>]
           X == Trees(ts)[<<OrLevel, 1, n>>]
<1>1. ts \in Seq(Lexical)
  <2>1. tokens \in Seq(Lexical)
    BY DEF IsTokens
  <2>2. Peek(tokens, 1) = "=" => tokens # <<>>
    BY <2>1, Peeks
  <2> QED
    BY <2>1, <2>2 DEF Stripped
<1>2. ParseAll(tokens) = IF r.at > n THEN r ELSE Failed
  BY DEF ParseAll
<1>3. ParsesTheGrammar <=> X = IF IsError(ParseAll(tokens)) THEN {} ELSE {ParseAll(tokens).nodes}
  BY DEF ParsesTheGrammar
<1> HIDE DEF ts
<1>4. n \in Nat /\ OrLevel \in Level /\ 1 \in 1..(n + 1) /\ n \in 0..n /\ Peek(ts, n + 1) = "end"
  <2>1. n \in Nat /\ OrLevel \in Level
    BY <1>1, TokensShape DEF Level, OrLevel
  <2>2. n + 1 \in Nat /\ n + 1 \notin 1..n
    BY <2>1
  <2> QED
    BY <1>1, <2>1, <2>2, TokensShape
<1>5. r.at = 0 \/ r.at \in 2..(n + 1)
  <2>1. r.at = 0 \/ r.at \in (1 + 1)..(n + 1)
    BY <1>1, <1>4, Returns
  <2> HIDE DEF r
  <2> QED
    BY <2>1
<1>6. r.at # 0 => r.nodes \in Trees(ts)[<<OrLevel, 1, r.at - 1>>]
  <2>1. SoundParse(ts, OrLevel, 1)
    BY <1>1, <1>4, Sound
  <2> QED
    BY <2>1 DEF SoundParse
<1>7. ASSUME NEW t \in X
      PROVE  r.at = n + 1 /\ r.nodes = t
  <2>1. 1 <= n
    <3>1. ~ (1 > n)
      BY <1>1, <1>4, <1>7, Rules
    <3> QED
      BY <1>4, <3>1
  <2>2. Reads(ts, OrLevel, 1, n)
    <3>1. 1 \in 1..n /\ n \in 1..n
      BY <1>4, <2>1
    <3> QED
      BY <1>1, <1>4, <2>1, <3>1, Complete
  <2>3. Peek(ts, n + 1) \notin Continues(OrLevel)
    BY <1>4, ContinuesShape
  <2> QED
    BY <2>2, <2>3 DEF Reads, ReadsAlone
<1>8. CASE r.at > n
  <2> HIDE DEF r
  <2>1. r.at = n + 1 /\ r.at - 1 = n /\ r.at # 0
    BY <1>4, <1>5, <1>8
  <2>2. r.nodes \in X
    BY <1>6, <2>1
  <2>3. X = {r.nodes}
    <3> HIDE DEF X
    <3> QED
      BY <1>7, <2>2
  <2>4. ParseAll(tokens) = r /\ ~IsError(r)
    BY <1>2, <1>8, <2>1 DEF IsError
  <2> HIDE DEF X
  <2> QED
    BY <1>3, <2>3, <2>4
<1>9. CASE ~ (r.at > n)
  <2> HIDE DEF r, X
  <2>1. X = {}
    <3> SUFFICES ASSUME NEW t \in X
                 PROVE  FALSE
      OBVIOUS
    <3>1. r.at = n + 1
      BY <1>7
    <3> QED
      BY <1>4, <1>9, <3>1
  <2>2. ParseAll(tokens) = Failed /\ IsError(Failed)
    BY <1>2, <1>9 DEF IsError, Failed
  <2> QED
    BY <1>3, <2>1, <2>2
<1> QED
  BY <1>8, <1>9
=============================================================================
