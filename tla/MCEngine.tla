------------------------------- MODULE MCEngine -------------------------------
(***************************************************************************)
(* Two processes for TLC.  A review loop with a task of each kind:         *)
(*                                                                         *)
(*   start -> review (manual) -> work (service) -> check (gateway)         *)
(*   check: x = yes -> end;  default -> review;  x unknown -> incident     *)
(*   work maps its result to x                                             *)
(*                                                                         *)
(* and a loop over one service task:                                       *)
(*                                                                         *)
(*   start -> work (service) -> check (gateway)                            *)
(*   check: x = yes -> end;  x = no -> work;  x unknown -> incident        *)
(***************************************************************************)
EXTENDS EngineRefinement, TLC

CONSTANTS r1, r2

Always == [op |-> "none", var |-> "x", val |-> "yes"]
Is(v)  == [op |-> "equals", var |-> "x", val |-> v]
To(n, c) == [target |-> n, cond |-> c, default |-> FALSE]
Default(n) == [To(n, Always) EXCEPT !.default = TRUE]

McNode == {"start", "review", "work", "check", "end"}
McKind == [start |-> "start", review |-> "manual", work |-> "service",
           check |-> "gateway", end |-> "end"]
ReviewLoop ==
  [start  |-> <<To("review", Always)>>,
   review |-> <<To("work", Always)>>,
   work   |-> <<To("check", Always)>>,
   check  |-> <<Default("review"), To("end", Is("yes"))>>,
   end    |-> <<>>]
WorkLoop ==
  [ReviewLoop EXCEPT !.start = <<To("work", Always)>>,
                     !.check = <<To("end", Is("yes")), To("work", Is("no"))>>]
McTaskType == [n \in McNode |-> "t"]
McVar == {"x"}
McVal == {"yes", "no"}
McInputs == [n \in McNode |-> {}]
McOutputs == [n \in McNode |-> [t \in IF n = "work" THEN {"x"} ELSE {} |-> "x"]]

McRequest == {r1, r2}
Symmetry == Permutations(McRequest)
=============================================================================
