-------------------------- MODULE DefinitionRegistry --------------------------
(***************************************************************************)
(* What the registry of process definitions promises its clients:          *)
(* deployments and activations take effect one at a time, a deployment     *)
(* gets the version after the latest one of its process, and an activated  *)
(* version is the only active one.                                         *)
(***************************************************************************)
EXTENDS DefinitionTable

VARIABLE definitions

(* The table with only the definition k of its process active.             *)
Only(defs, k) ==
  [j \in DefinitionKey |->
     IF defs[j].process = defs[k].process THEN [defs[j] EXCEPT !.active = (j = k)]
     ELSE defs[j]]

Init == definitions = [k \in DefinitionKey |-> NoDefinition]

Deploy(p, auto) ==
  \E k \in DefinitionKey, v \in 1..MaxDefinitions :
    LET new == [definitions EXCEPT ![k] = [process |-> p, version |-> v, active |-> FALSE]]
    IN /\ IsNextDefinition(definitions, k)
       /\ Versions(definitions, p) = 1..(v - 1)
       /\ definitions' = IF auto THEN Only(new, k) ELSE new

Activate(k) ==
  /\ definitions[k].process # NoProcess
  /\ definitions' = Only(definitions, k)

Next ==
  \/ \E p \in Process, auto \in BOOLEAN : Deploy(p, auto)
  \/ \E k \in DefinitionKey : Activate(k)

Spec == Init /\ [][Next]_definitions
=============================================================================
