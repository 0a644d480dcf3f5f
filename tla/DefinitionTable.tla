--------------------------- MODULE DefinitionTable ---------------------------
(***************************************************************************)
(* The table process_definitions: a row for every deployed version of a    *)
(* process, of which at most one should be active.                         *)
(***************************************************************************)
EXTENDS Naturals

CONSTANTS
  Process,        \* values of bpmn_process_id
  NoProcess,
  MaxDefinitions  \* bound: definitions ever deployed

ASSUME RegistryAssumption ==
  /\ NoProcess \notin Process
  /\ MaxDefinitions \in Nat

DefinitionKey == 1..MaxDefinitions

(* A row that was not inserted has no process.                             *)
DefinitionRow == [process : Process \cup {NoProcess},
                  version : 0..MaxDefinitions,
                  active : BOOLEAN]

NoDefinition == [process |-> NoProcess, version |-> 0, active |-> FALSE]

(* The rows SELECT ... WHERE bpmn_process_id = p sees, and their versions. *)
RowsOf(defs, p) == {k \in DefinitionKey : defs[k].process = p}
Versions(defs, p) == {defs[k].version : k \in RowsOf(defs, p)}

(* The next AUTOINCREMENT key.                                             *)
IsNextDefinition(defs, k) ==
  /\ defs[k].process = NoProcess
  /\ \A j \in DefinitionKey : j < k => defs[j].process # NoProcess
=============================================================================
