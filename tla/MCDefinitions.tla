---------------------------- MODULE MCDefinitions ----------------------------
(***************************************************************************)
(* Two processes, four definitions, two handlers at once.                  *)
(***************************************************************************)
EXTENDS Definitions, TLC

CONSTANTS p1, p2, r1, r2

MCProcess == {p1, p2}
MCRequest == {r1, r2}
MCSymmetry == Permutations(MCProcess) \cup Permutations(MCRequest)
=============================================================================
