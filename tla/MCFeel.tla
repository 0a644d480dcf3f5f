------------------------------- MODULE MCFeel -------------------------------
(***************************************************************************)
(* Inputs for each stage of the expression language: character strings for *)
(* the lexer; tokens of every class, and longer sequences of operators,    *)
(* for the parser; for the evaluator expressions over literals of every    *)
(* type and two variables, and longer ones of logical operators.  0 and    *)
(* 1/4 differ by less than EPSILON, and their quotients and sums do not.   *)
(***************************************************************************)
EXTENDS FeelLexer, FeelParser, FeelEval

CONSTANTS MaxChars, MaxTokens, MaxOperators, MaxNodes, MaxLogical

OperatorToken == {"lit", "and", "not", "=", "-", "*"}
AnyToken == Lexical

McValue == {Num(0), Bool(TRUE)}

Leaf == {<<"value", v>> : v \in {<<"num", 1, 4>>, Bool(FALSE), Null}}
        \cup {<<"var", x>> : x \in Name}

McNode(k) ==
  Leaf \cup ({"minus", "not"} \X Operand(k)) \cup ({"bin"} \X BinOp \X Operand(k) \X Operand(k))

IsLogical(n) == n[1] \in {"var", "not"} \/ (n[1] = "bin" /\ n[2] \in {"and", "or"})

McInit == chars = <<>> /\ tokens = <<>> /\ expr = <<>>

Lex ==
  /\ tokens = <<>> /\ expr = <<>> /\ Len(chars) < MaxChars
  /\ \E c \in Char : chars' = Append(chars, c)
  /\ UNCHANGED <<tokens, expr>>

Longer(t) ==
  \/ Len(tokens) < MaxTokens
  \/ Len(tokens) < MaxOperators /\ t \in OperatorToken
     /\ \A k \in DOMAIN tokens : tokens[k] \in OperatorToken

Parsing ==
  /\ chars = <<>> /\ expr = <<>>
  /\ \E t \in AnyToken : Longer(t) /\ tokens' = Append(tokens, t)
  /\ UNCHANGED <<chars, expr>>

Deeper(n) ==
  \/ Len(expr) < MaxNodes
  \/ Len(expr) < MaxLogical /\ IsLogical(n) /\ \A k \in DOMAIN expr : IsLogical(expr[k])

Evaluate ==
  /\ chars = <<>> /\ tokens = <<>>
  /\ \E n \in McNode(Len(expr) + 1) : Deeper(n) /\ expr' = Append(expr, n)
  /\ UNCHANGED <<chars, tokens>>

McNext == Lex \/ Parsing \/ Evaluate

McSpec == McInit /\ [][McNext]_<<chars, tokens, expr>>
=============================================================================
