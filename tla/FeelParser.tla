----------------------------- MODULE FeelParser -----------------------------
(***************************************************************************)
(* The recursive-descent parser of the expression language (forge-engine   *)
(* expr/parser.rs) on token sequences, against the grammar it implements.  *)
(* Tokens are classes: "lit" is a number, a string, true, false or null,   *)
(* "id" an identifier, "=" any comparison (as the first token "=" itself), *)
(* "+" and "*" any operator of their level except "-", which is also the   *)
(* unary minus.                                                            *)
(***************************************************************************)
EXTENDS Naturals, Sequences

Lexical == {"lit", "id", "not", "and", "or", "=", "+", "-", "*", "(", ")", "."}

VARIABLE tokens  \* the expression

IsTokens == tokens \in Seq(Lexical)

Peek(ts, i) == IF i \in DOMAIN ts THEN ts[i] ELSE "end"

(* A tree is the sequence of its nodes in the order in which they are      *)
(* built, operands first.  A node has a constructor and its first and last *)
(* token.  A parse result is a tree and the position after it.             *)
TreeNode(ts) == {"lit", "path", "not", "minus", "bin"} \X (1..Len(ts)) \X (1..Len(ts))

Failed == [nodes |-> <<>>, at |-> 0]
IsError(r) == r.at = 0

Nothing(i) == [nodes |-> <<>>, at |-> i]

Then(r, s) ==
  IF IsError(r) \/ IsError(s) THEN Failed ELSE [nodes |-> r.nodes \o s.nodes, at |-> s.at]

Built(r, kind, i, j) ==
  IF IsError(r) THEN Failed ELSE [r EXCEPT !.nodes = Append(@, <<kind, i, j>>)]

-----------------------------------------------------------------------------
(* The levels of the grammar, from parse_or to parse_primary.              *)
Level == 1..8

OrLevel == 1
AndLevel == 2
NotLevel == 3
CompareLevel == 4
AddLevel == 5
MulLevel == 6
MinusLevel == 7
PrimaryLevel == 8

Operators(level) ==
  CASE level = OrLevel -> {"or"}
    [] level = AndLevel -> {"and"}
    [] level = CompareLevel -> {"="}
    [] level = AddLevel -> {"+", "-"}
    [] level = MulLevel -> {"*"}
    [] OTHER -> {}

LeftAssociative == {OrLevel, AndLevel, AddLevel, MulLevel}

Prefixes == [level \in {NotLevel, MinusLevel} |-> IF level = NotLevel THEN "not" ELSE "-"]
PrefixNode == [level \in {NotLevel, MinusLevel} |-> IF level = NotLevel THEN "not" ELSE "minus"]

-----------------------------------------------------------------------------
(* The parser.  call is what its functions return: <<"parse", level, i>>   *)
(* from position i, <<"more", level, i>> what they do there after an       *)
(* operand (for parse_primary, after an identifier).                       *)
Call(ts) == {"parse", "more"} \X Level \X (1..(Len(ts) + 1))

Path(ts, i, call) ==
  IF Peek(ts, i) # "." THEN Nothing(i)
  ELSE IF Peek(ts, i + 1) = "id" THEN call[<<"more", PrimaryLevel, i + 2>>] ELSE Failed

MutMore(ts, level, i, call) ==
  IF Peek(ts, i) \notin Operators(level) THEN Nothing(i)
  ELSE Built(call[<<"parse", level, i + 1>>], "bin", i, i)

More(ts, level, i, call) ==
  LET right == call[<<"parse", level + 1, i + 1>>]
      both == Built(right, "bin", i, i)
  IN IF Peek(ts, i) \notin Operators(level) THEN Nothing(i)
     ELSE IF level = CompareLevel THEN both
          ELSE Then(both, call[<<"more", level, right.at>>])

Closed(ts, inner) ==
  IF ~IsError(inner) /\ Peek(ts, inner.at) = ")" THEN [inner EXCEPT !.at = @ + 1] ELSE Failed

Primary(ts, i, call) ==
  LET path == call[<<"more", PrimaryLevel, i + 1>>]
  IN CASE Peek(ts, i) = "lit" -> Built(Nothing(i + 1), "lit", i, i)
       [] Peek(ts, i) = "(" -> Closed(ts, call[<<"parse", OrLevel, i + 1>>])
       [] Peek(ts, i) = "id" -> Built(path, "path", i, path.at - 1)
       [] OTHER -> Failed

Parse(ts, level, i, call) ==
  LET next == call[<<"parse", level + 1, i>>]
  IN CASE level = PrimaryLevel -> Primary(ts, i, call)
       [] level \in {NotLevel, MinusLevel} ->
            IF Peek(ts, i) # Prefixes[level] THEN next
            ELSE Built(call[<<"parse", level, i + 1>>], PrefixNode[level], i, i)
       [] OTHER -> Then(next, call[<<"more", level, next.at>>])

Returned(ts, c, call) ==
  IF c[1] = "parse" THEN Parse(ts, c[2], c[3], call)
  ELSE IF c[2] = PrimaryLevel THEN Path(ts, c[3], call) ELSE More(ts, c[2], c[3], call)

Parser(ts) ==
  LET call[c \in Call(ts)] == Returned(ts, c, call)
  IN call

(* parse: one leading "=" is dropped, and nothing may be left over.        *)
Stripped(ts) == IF Peek(ts, 1) = "=" THEN Tail(ts) ELSE ts

ParseAll(ts) ==
  LET r == Parser(Stripped(ts))[<<"parse", OrLevel, 1>>]
  IN IF r.at > Len(Stripped(ts)) THEN r ELSE Failed

-----------------------------------------------------------------------------
(* The grammar: the trees that derive tokens i..j at a level.              *)
Span(ts) == Level \X (1..(Len(ts) + 1)) \X (0..Len(ts))

(* Identifiers with a point between any two.                               *)
IsPath(ts, i, j) ==
  /\ ts[i] = "id" /\ ts[j] = "id"
  /\ \A k \in i..(j - 1) : {ts[k], ts[k + 1]} = {"id", "."}

Primaries(ts, i, j, trees) ==
  {<<<<"lit", k, k>>>> : k \in {m \in {i} : i = j /\ ts[m] = "lit"}}
  \cup {<<<<"path", k, j>>>> : k \in {m \in {i} : IsPath(ts, m, j)}}
  \cup (IF ts[i] = "(" /\ ts[j] = ")" THEN trees[<<OrLevel, i + 1, j - 1>>] ELSE {})

Prefixed(ts, level, i, j, trees) ==
  IF ts[i] # Prefixes[level] THEN {}
  ELSE {Append(t, <<PrefixNode[level], i, i>>) : t \in trees[<<level, i + 1, j>>]}

Infix(ts, level, i, j, trees) ==
  LET left == IF level \in LeftAssociative THEN level ELSE level + 1
  IN UNION {{p[1] \o Append(p[2], <<"bin", k, k>>) :
               p \in trees[<<left, i, k - 1>>] \X trees[<<level + 1, k + 1, j>>]} :
            k \in {m \in (i + 1)..(j - 1) : ts[m] \in Operators(level)}}

Derived(ts, level, i, j, trees) ==
  CASE i > j -> {}
    [] i <= j /\ level = PrimaryLevel -> Primaries(ts, i, j, trees)
    [] i <= j /\ level \in {NotLevel, MinusLevel} ->
         trees[<<level + 1, i, j>>] \cup Prefixed(ts, level, i, j, trees)
    [] OTHER -> trees[<<level + 1, i, j>>] \cup Infix(ts, level, i, j, trees)

Trees(ts) ==
  LET trees[s \in Span(ts)] == Derived(ts, s[1], s[2], s[3], trees)
  IN trees

-----------------------------------------------------------------------------
(* The grammar is unambiguous, and the parser, which never backtracks,     *)
(* accepts exactly its sentences and returns their tree: precedence,       *)
(* association to the left, comparisons that do not chain, and no token    *)
(* left over (parser.rs 74-217, 222-236).                                  *)
ParsesTheGrammar ==
  LET ts == Stripped(tokens)
      r == ParseAll(tokens)
  IN Trees(ts)[<<OrLevel, 1, Len(ts)>>] = IF IsError(r) THEN {} ELSE {r.nodes}
=============================================================================
