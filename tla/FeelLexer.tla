------------------------------ MODULE FeelLexer ------------------------------
(***************************************************************************)
(* The lexer of the expression language (forge-engine expr/lexer.rs) on    *)
(* classes of characters: "s" is blank, "n", "r" and "t" are themselves    *)
(* and "a" is any other letter or "_", "1" an ASCII digit, "x" any other   *)
(* numeric character, which only continues a word, "+" any operator of one *)
(* character that starts no longer one, "<" also stands for ">", "q" is    *)
(* the double quote and "b" the backslash.                                 *)
(***************************************************************************)
EXTENDS Naturals, Sequences, FiniteSets

Char == {"s", "a", "n", "r", "t", "1", "x", ".", "=", "!", "<", "q", "b", "+"}

VARIABLE chars  \* the expression

IsText == chars \in Seq(Char)

At(cs, i) == IF i \in DOMAIN cs THEN cs[i] ELSE "end"

-----------------------------------------------------------------------------
(* tokenize.  A token is the span of its characters; a string also has its *)
(* text: the characters pushed, each with the position it is read at.      *)

Letter == {"a", "n", "r", "t"}
WordChar == Letter \cup {"1", "x"}
NumberChar == {"1", "."}

(* The end of the run of characters of a class that starts at i.           *)
RunEnd(cs, i, class) ==
  CHOOSE j \in i..Len(cs) : (\A k \in i..j : cs[k] \in class) /\ At(cs, j + 1) \notin class

MutWidth(cs, k) == 1

(* Inside a string a backslash takes the next character with it.           *)
Width(cs, k) == IF cs[k] = "b" /\ k < Len(cs) THEN 2 ELSE 1

MutUnescaped(c) == c

(* What a character behind a backslash becomes.                            *)
Unescaped(c) ==
  CASE c = "n" -> "newline" [] c = "r" -> "return" [] c = "t" -> "tab" [] OTHER -> c

(* The character that is pushed for the one, or the two, at k.             *)
Pushed(cs, k) == IF Width(cs, k) = 2 THEN Unescaped(cs[k + 1]) ELSE cs[k]

(* From each position inside a string: the closing quote (0: unterminated) *)
(* and the text up to it.                                                  *)
String(cs) ==
  LET string[k \in 1..(Len(cs) + 1)] ==
        CASE At(cs, k) = "end" -> [to |-> 0, text |-> {}]
          [] At(cs, k) = "q" -> [to |-> k, text |-> {}]
          [] OTHER -> LET next == k + Width(cs, k)
                      IN [to |-> string[next].to,
                          text |-> string[next].text \cup {<<next - 1, Pushed(cs, k)>>}]
  IN string

Dots(cs, i, j) == Cardinality({k \in i..j : cs[k] = "."})

(* The last character of the token at i; 0 is a LexError.                  *)
TokenEnd(cs, i) ==
  CASE cs[i] \in {"+", "=", "."} -> i
    [] cs[i] = "!" -> IF At(cs, i + 1) = "=" THEN i + 1 ELSE 0
    [] cs[i] = "<" -> IF At(cs, i + 1) = "=" THEN i + 1 ELSE i
    [] cs[i] = "q" -> String(cs)[i + 1].to
    [] cs[i] = "1" -> LET j == RunEnd(cs, i, NumberChar) IN IF Dots(cs, i, j) <= 1 THEN j ELSE 0
    [] cs[i] \in Letter -> RunEnd(cs, i, WordChar)
    [] OTHER -> 0

TokenText(cs, i) == IF cs[i] = "q" THEN String(cs)[i + 1].text ELSE {}

Token(cs, i) == [from |-> i, to |-> TokenEnd(cs, i), text |-> TokenText(cs, i)]

(* From each position: the tokens from there on, and where the lexer       *)
(* fails, or 0.                                                            *)
Tokenize(cs) ==
  LET lexing[k \in 1..(Len(cs) + 1)] ==
        CASE At(cs, k) = "end" -> [tokens |-> {}, stop |-> 0]
          [] At(cs, k) = "s" -> lexing[k + 1]
          [] OTHER -> IF TokenEnd(cs, k) = 0 THEN [tokens |-> {}, stop |-> k]
                      ELSE LET rest == lexing[TokenEnd(cs, k) + 1]
                           IN [rest EXCEPT !.tokens = @ \cup {Token(cs, k)}]
  IN lexing

-----------------------------------------------------------------------------
(* What a token is, from character i to character j.                       *)

(* An odd number of backslashes ends right before position k of the string *)
(* that opens at i.                                                        *)
Escaped(cs, i, k) ==
  \E n \in 1..(k - i - 1) : /\ n % 2 = 1 /\ cs[k - n - 1] # "b"
                            /\ \A m \in (k - n)..(k - 1) : cs[m] = "b"

Operator(cs, i, j) ==
  \/ i = j /\ cs[i] \in {"+", "=", ".", "<"}
  \/ i + 1 = j /\ cs[i] \in {"<", "!"} /\ cs[j] = "="
Word(cs, i, j) == cs[i] \in Letter /\ \A k \in i..j : cs[k] \in WordChar
Number(cs, i, j) == cs[i] = "1" /\ \A k \in i..j : cs[k] \in NumberChar
Quoted(cs, i, j) ==
  /\ i < j /\ cs[i] = "q"
  /\ \A k \in (i + 1)..j : (cs[k] = "q" /\ ~Escaped(cs, i, k)) <=> k = j

Lexeme(cs, i, j) ==
  Operator(cs, i, j) \/ Word(cs, i, j) \/ Number(cs, i, j) \/ Quoted(cs, i, j)

Longest(cs, i, j) == Lexeme(cs, i, j) /\ \A k \in (j + 1)..Len(cs) : ~Lexeme(cs, i, k)

WellFormed(cs, i, j) == Number(cs, i, j) => Dots(cs, i, j) <= 1

-----------------------------------------------------------------------------
(* Properties of the expression chars, whatever it is.                     *)

(* The characters of a string that are not an escaping backslash.          *)
Kept(cs, i, j) == {k \in (i + 1)..(j - 1) : cs[k] # "b" \/ Escaped(cs, i, k)}

(* The characters that letters stand for when they are escaped.            *)
Control == [n |-> "newline", r |-> "return", t |-> "tab"]
Meant(c, escaped) == IF escaped /\ c \in DOMAIN Control THEN Control[c] ELSE c

Text(cs, i, j) == {<<k, Meant(cs[k], Escaped(cs, i, k))>> : k \in Kept(cs, i, j)}

IsToken(cs, t) ==
  /\ t.from \in DOMAIN cs /\ t.to \in t.from..Len(cs)
  /\ Longest(cs, t.from, t.to) /\ WellFormed(cs, t.from, t.to)
  /\ cs[t.from] = "q" => t.text = Text(cs, t.from, t.to)

(* The lexer stops where no token starts or where a number has two points. *)
Stuck(cs, i) ==
  /\ i \in DOMAIN cs /\ cs[i] # "s"
  /\ \A j \in i..Len(cs) : Longest(cs, i, j) => ~WellFormed(cs, i, j)

(* Tokens ts are those of positions i..j: the longest ones, one after the  *)
(* other, and every other character is blank.                              *)
Covers(cs, ts, i, j) ==
  /\ \A t \in ts : IsToken(cs, t) /\ i <= t.from /\ t.to <= j
  /\ \A t, u \in ts : t = u \/ t.to < u.from \/ u.to < t.from
  /\ \A k \in i..j : cs[k] = "s" \/ \E t \in ts : k \in t.from..t.to

(* The tokens are the longest ones, from left to right, and every other    *)
(* character before the end or the error is blank; the lexer stops where   *)
(* no token starts or where a number has two points.  The text of a string *)
(* is what is between its quotes without the backslashes that escape, and  *)
(* with a newline, a carriage return and a tab for an escaped n, r and t   *)
(* (lexer.rs 30-171).                                                      *)
LexesTheText ==
  LET r == Tokenize(chars)[1]
  IN \/ r.stop = 0 /\ Covers(chars, r.tokens, 1, Len(chars))
     \/ Stuck(chars, r.stop) /\ Covers(chars, r.tokens, 1, r.stop - 1)
=============================================================================
