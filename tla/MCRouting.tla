------------------------------ MODULE MCRouting ------------------------------
(***************************************************************************)
(* A process for TLC with one of everything a gateway and a mapping can do.*)
(*                                                                         *)
(*   start -> route (gateway)                                              *)
(*   route:  x = a -> work;  x = b -> spin;  default -> review             *)
(*   work (service) reads y, writes the result's y to x; -> end            *)
(*   spin (gateway):  y = a -> broken;  unconditional -> spin              *)
(*   broken (gateway):  malformed condition -> end                         *)
(*   review (manual) has no outgoing flow, which the validator accepts     *)
(***************************************************************************)
EXTENDS EngineRefinement, TLC

CONSTANTS r1, r2

NoCondition == [op |-> "none", var |-> "x", val |-> "a"]
Is(v, a)    == [op |-> "equals", var |-> v, val |-> a]
Malformed   == [op |-> "malformed", var |-> "x", val |-> "a"]
To(n, c)    == [target |-> n, cond |-> c, default |-> FALSE]
Default(n)  == [target |-> n, cond |-> NoCondition, default |-> TRUE]

McNode == {"start", "route", "work", "spin", "broken", "review", "end"}
McKind == [start |-> "start", route |-> "gateway", work |-> "service",
           spin |-> "gateway", broken |-> "gateway", review |-> "manual",
           end |-> "end"]
McOutgoing ==
  [start  |-> <<To("route", NoCondition)>>,
   route  |-> <<Default("review"), To("work", Is("x", "a")), To("spin", Is("x", "b"))>>,
   work   |-> <<To("end", NoCondition)>>,
   spin   |-> <<To("broken", Is("y", "a")), To("spin", NoCondition)>>,
   broken |-> <<To("end", Malformed)>>,
   review |-> <<>>,
   end    |-> <<>>]
McTaskType == [n \in McNode |-> n]
McVar == {"x", "y"}
McVal == {"a", "b", "c"}
McInputs == [n \in McNode |-> IF n = "work" THEN {"y"} ELSE {}]
McOutputs ==
  [n \in McNode |-> IF n = "work" THEN [t \in {"x"} |-> "y"] ELSE [t \in {} |-> "x"]]

McRequest == {r1, r2}
=============================================================================
