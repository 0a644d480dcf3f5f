------------------------------ MODULE FeelEval ------------------------------
(***************************************************************************)
(* The evaluator of the expression language (forge-engine expr/eval.rs).   *)
(* Numbers are fractions <<"num", n, d>> with d > 0: the rounding of f64   *)
(* and its overflow are left out, the tolerance of = is not.  A variable   *)
(* stands for a whole path: what a field of an object adds is one more way *)
(* to be unknown.                                                          *)
(***************************************************************************)
EXTENDS Integers, Sequences

CONSTANTS
  Value,  \* the values variables have
  Name,   \* variable names
  Small   \* f64::EPSILON is 1 / Small here

Num(n) == <<"num", n, 1>>
Bool(b) == <<"bool", b>>
Null == <<"null">>
Error == <<"error">>

FeelValue ==
  ({"num"} \X Int \X (Nat \ {0})) \cup ({"bool"} \X BOOLEAN)
  \cup ({"str"} \X STRING) \cup {Null}

ASSUME EvalAssumption == Value \subseteq FeelValue /\ Small \in Nat \ {0}

Comparison == {"lt", "le", "gt", "ge"}
Arithmetic == {"add", "sub", "mul", "div"}
BinOp == Comparison \cup Arithmetic \cup {"eq", "ne", "and", "or"}

(* An expression is the sequence of its nodes, operands before the         *)
(* operator that names their positions; the last node is the root.         *)
Operand(k) == 1..(k - 1)

Node(k) ==
  ({"value"} \X FeelValue) \cup ({"var"} \X Name)
  \cup ({"minus", "not"} \X Operand(k)) \cup ({"bin"} \X BinOp \X Operand(k) \X Operand(k))

VARIABLE expr

IsExpression ==
  /\ Len(expr) \in Nat /\ DOMAIN expr = 1..Len(expr)
  /\ \A k \in DOMAIN expr : expr[k] \in Node(k)

(* A scope binds some of the names.                                        *)
Scope == UNION {[N -> Value] : N \in SUBSET Name}

-----------------------------------------------------------------------------
IsNum(v) == v[1] = "num"
IsBool(v) == v[1] = "bool"

Truth(v) == IF IsBool(v) THEN v ELSE Error

(* compare_numeric: the sign of the difference.                            *)
Difference(v, w) == v[2] * w[3] - w[2] * v[3]

(* values_equal: the difference is less than EPSILON.                      *)
Within(v, w) ==
  \A sign \in {1, -1} : sign * Difference(v, w) * Small < v[3] * w[3]

Equal(v, w) == IF IsNum(v) /\ IsNum(w) THEN Within(v, w) ELSE v = w

MutStrict(op, v, w) ==
  IF op \in {"lt", "le"} THEN Difference(v, w) < 0 ELSE Difference(v, w) > 0

Compare(op, v, w) ==
  CASE op = "lt" -> Difference(v, w) < 0
    [] op = "le" -> Difference(v, w) <= 0
    [] op = "gt" -> Difference(v, w) > 0
    [] op = "ge" -> Difference(v, w) >= 0

Fraction(n, d) == IF d < 0 THEN <<"num", -n, -d>> ELSE <<"num", n, d>>

Calculate(op, v, w) ==
  CASE op = "add" -> Fraction(v[2] * w[3] + w[2] * v[3], v[3] * w[3])
    [] op = "sub" -> Fraction(v[2] * w[3] - w[2] * v[3], v[3] * w[3])
    [] op = "mul" -> Fraction(v[2] * w[2], v[3] * w[3])
    [] op = "div" -> IF w[2] = 0 THEN Error ELSE Fraction(v[2] * w[3], v[3] * w[2])

(* The operators that evaluate both sides first.                           *)
Apply(op, v, w) ==
  IF v = Error \/ w = Error THEN Error
  ELSE CASE op = "eq" -> Bool(Equal(v, w))
         [] op = "ne" -> Bool(~Equal(v, w))
         [] OTHER -> IF ~(IsNum(v) /\ IsNum(w)) THEN Error
                     ELSE IF op \in Comparison THEN Bool(Compare(op, v, w))
                          ELSE Calculate(op, v, w)

MutNullVariable(x, scope) == IF x \in DOMAIN scope THEN scope[x] ELSE Null

Lookup(x, scope) == IF x \in DOMAIN scope THEN scope[x] ELSE Error

(* and, or: the right side counts only if the left one does not decide.    *)
ShortCircuit(decided, v, w) ==
  CASE Truth(v) = Error -> Error
    [] v = Bool(decided) -> v
    [] OTHER -> Truth(w)

MutNotNull(v) ==
  IF IsBool(v) THEN Bool(~v[2]) ELSE IF v = Error THEN Error ELSE Bool(TRUE)

Negated(v) == IF IsBool(v) THEN Bool(~v[2]) ELSE Error

Minus(v) == IF IsNum(v) THEN Fraction(-v[2], v[3]) ELSE Error

Binary(op, v, w) ==
  CASE op = "and" -> ShortCircuit(FALSE, v, w)
    [] op = "or" -> ShortCircuit(TRUE, v, w)
    [] OTHER -> Apply(op, v, w)

(* The value of node n in a scope, given the values of its operands.       *)
NodeValue(n, val, scope) ==
  CASE n[1] = "value" -> n[2]
    [] n[1] = "var" -> Lookup(n[2], scope)
    [] n[1] = "minus" -> Minus(val[n[2]])
    [] n[1] = "not" -> Negated(val[n[2]])
    [] n[1] = "bin" -> Binary(n[2], val[n[3]], val[n[4]])

(* The values of all nodes.                                                *)
Evaluation(e, scope) ==
  LET val[k \in DOMAIN e] == NodeValue(e[k], val, scope)
  IN val

-----------------------------------------------------------------------------
(* Properties of the expression expr.                                      *)

Extends(t, s) == DOMAIN s \subseteq DOMAIN t /\ \A x \in DOMAIN s : t[x] = s[x]

(* What later tasks add to the variables of an instance never changes the  *)
(* answer of a condition that had one: the path a gateway took stays the   *)
(* one its condition asks for (eval.rs 14-123, gateway.rs 42-75).          *)
ScopeMonotone ==
  LET answer == [s \in Scope |-> Evaluation(expr, s)[Len(expr)]]
  IN expr # <<>> =>
       \A s, t \in Scope : Extends(t, s) => answer[s] \in {Error, answer[t]}

(* De Morgan's law holds in every scope, errors and unknown variables      *)
(* included: "not (a and b)" may be written "not a or not b" (eval.rs      *)
(* 42-46, 59-74).                                                          *)
DeMorgan ==
  \A s \in Scope :
    LET val == Evaluation(expr, s)
    IN \A i, j \in DOMAIN expr :
         Negated(Binary("and", val[i], val[j])) = Binary("or", Negated(val[i]), Negated(val[j]))

Compared(v, w) ==
  LET Is(op) == Binary(op, v, w) = Bool(TRUE)
      Reversed(op) == Binary(op, w, v) = Bool(TRUE)
      close == Difference(v, w) # 0 /\ Is("eq")
  IN Binary("lt", v, w) # Error =>
       /\ (Is("lt") <=> ~Is("ge")) /\ (Is("gt") <=> ~Is("le")) /\ (Is("eq") <=> ~Is("ne"))
       /\ (Is("lt") <=> Reversed("gt")) /\ (Is("eq") <=> Reversed("eq"))
       /\ Is("lt") \/ Is("gt") \/ Is("eq")
       /\ ~(Is("lt") /\ Is("gt"))
       /\ ~close => ~(Is("eq") /\ (Is("lt") \/ Is("gt")))

(* Of two numbers one is less or they are equal, and not both unless they  *)
(* differ by less than EPSILON; the negations agree with <=, != and >=, and *)
(* comparing the other way round is the same (eval.rs 79-84, 101-113).     *)
Trichotomy ==
  \A s \in Scope :
    LET val == Evaluation(expr, s)
    IN \A i, j \in DOMAIN expr : Compared(val[i], val[j])
=============================================================================
