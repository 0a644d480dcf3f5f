----------------------------- MODULE Definitions -----------------------------
(***************************************************************************)
(* Deployment and activation of process definitions, one action for each   *)
(* SQL statement (forge-store definitions.rs, forge-engine deployment.rs). *)
(*                                                                         *)
(* Transactions are deferred: the first read takes a snapshot and the      *)
(* first write asks for the database's only write lock.  A transaction     *)
(* that has read cannot wait for the lock: SQLite refuses it at once when  *)
(* another one holds it, or has committed since the snapshot.  The         *)
(* transaction works on its own view, which the commit publishes.          *)
(***************************************************************************)
EXTENDS DefinitionTable, FiniteSets

CONSTANTS
  Request,   \* handlers in flight
  NoRequest

ASSUME DefinitionsAssumption == NoRequest \notin Request

VARIABLES
  definitions,  \* the committed table
  writer,       \* the request that holds the write lock
  tx            \* the handler and the transaction of every request

vars == <<definitions, writer, tx>>

(* The pc names the next statement.                                        *)
Writing == {"deactivate", "insert", "set_active", "commit"}

TxRecord ==
  [pc : {"idle", "read_max", "lookup"} \cup Writing,
   process : Process \cup {NoProcess},
   auto : BOOLEAN,
   key : Nat,               \* of the definition to activate, 0 in a deployment
   version : Nat,
   view : [DefinitionKey -> DefinitionRow],
   stale : BOOLEAN]         \* somebody committed since the snapshot

EmptyTable == [k \in DefinitionKey |-> NoDefinition]

NoTx == [pc |-> "idle", process |-> NoProcess, auto |-> FALSE, key |-> 0,
         version |-> 0, view |-> EmptyTable, stale |-> FALSE]

Init ==
  /\ definitions = EmptyTable
  /\ writer = NoRequest
  /\ tx = [r \in Request |-> NoTx]

-----------------------------------------------------------------------------
(* Statements.                                                             *)

(* Mutations of the definitions below, named Mut...                        *)
MutNothingDeactivated(defs, p) == defs
MutNothingActivated(defs, k) == defs
MutMaxOfAllProcesses(defs, p, max) ==
  LET all == UNION {Versions(defs, q) : q \in Process}
  IN max \in all \cup {0} /\ \A v \in all : v <= max

(* SELECT MAX(version) ... WHERE bpmn_process_id = p, 0 without a row.     *)
IsMaxVersion(defs, p, max) ==
  /\ max = 0 \/ max \in Versions(defs, p)
  /\ \A v \in Versions(defs, p) : v <= max

(* UPDATE ... SET is_active = 0 WHERE bpmn_process_id = p AND is_active = 1. *)
Deactivated(defs, p) ==
  [k \in DefinitionKey |->
     IF defs[k].process = p THEN [defs[k] EXCEPT !.active = FALSE] ELSE defs[k]]

(* UPDATE ... SET is_active = 1 WHERE key = k.                             *)
SetActive(defs, k) == [defs EXCEPT ![k].active = TRUE]

(* The next write statement is granted the write lock.                     *)
MayWrite(r) ==
  \/ writer = r
  \/ writer = NoRequest /\ ~tx[r].stale

(* A write statement leaves its view and goes on.                          *)
Write(r, pc, view) ==
  /\ MayWrite(r)
  /\ writer' = r
  /\ tx' = [tx EXCEPT ![r].pc = pc, ![r].view = view]
  /\ UNCHANGED definitions

-----------------------------------------------------------------------------
(* POST /deployments, once the document is parsed, validated and compiled. *)

Deploy(r) ==
  /\ tx[r].pc = "idle"
  /\ \E p \in Process, auto \in BOOLEAN :
       tx' = [tx EXCEPT ![r] = [NoTx EXCEPT !.pc = "read_max", !.process = p, !.auto = auto]]
  /\ UNCHANGED <<definitions, writer>>

ReadMaxVersion(r) ==
  /\ tx[r].pc = "read_max"
  /\ \E max \in 0..MaxDefinitions :
       /\ IsMaxVersion(definitions, tx[r].process, max)
       /\ tx' = [tx EXCEPT ![r].pc = IF tx[r].auto THEN "deactivate" ELSE "insert",
                           ![r].version = max + 1,
                           ![r].view = definitions]
  /\ UNCHANGED <<definitions, writer>>

(* UNIQUE (bpmn_process_id, version) is checked by the INSERT.             *)
Insert(r) ==
  /\ tx[r].pc = "insert"
  /\ tx[r].version \notin Versions(tx[r].view, tx[r].process)
  /\ \E k \in DefinitionKey :
       /\ IsNextDefinition(tx[r].view, k)
       /\ Write(r, "commit", [tx[r].view EXCEPT ![k] =
                                [process |-> tx[r].process, version |-> tx[r].version,
                                 active |-> tx[r].auto]])

-----------------------------------------------------------------------------
(* POST /process-definitions/{key}/activation                              *)

Activate(r) ==
  /\ tx[r].pc = "idle"
  /\ \E k \in DefinitionKey :
       tx' = [tx EXCEPT ![r] = [NoTx EXCEPT !.pc = "lookup", !.key = k]]
  /\ UNCHANGED <<definitions, writer>>

LookupProcess(r) ==
  LET p == definitions[tx[r].key].process
  IN /\ tx[r].pc = "lookup"
     /\ tx' = IF p = NoProcess THEN [tx EXCEPT ![r] = NoTx]
              ELSE [tx EXCEPT ![r].pc = "deactivate", ![r].process = p,
                              ![r].view = definitions]
     /\ UNCHANGED <<definitions, writer>>

SetActiveVersion(r) ==
  /\ tx[r].pc = "set_active"
  /\ Write(r, "commit", SetActive(tx[r].view, tx[r].key))

-----------------------------------------------------------------------------
(* Both.                                                                   *)

(* The statement runs on the pool instead of the transaction.              *)
MutDeactivateOutsideTransaction(r) ==
  /\ tx[r].pc = "deactivate"
  /\ MayWrite(r)
  /\ writer' = r
  /\ definitions' = Deactivated(definitions, tx[r].process)
  /\ tx' = [tx EXCEPT ![r].pc = IF tx[r].key = 0 THEN "insert" ELSE "set_active",
                      ![r].view = Deactivated(tx[r].view, tx[r].process)]

Deactivate(r) ==
  /\ tx[r].pc = "deactivate"
  /\ Write(r, IF tx[r].key = 0 THEN "insert" ELSE "set_active",
           Deactivated(tx[r].view, tx[r].process))

(* The snapshots of the other open transactions are no longer the latest.  *)
Commit(r) ==
  /\ tx[r].pc = "commit"
  /\ definitions' = tx[r].view
  /\ writer' = NoRequest
  /\ tx' = [s \in Request |->
              IF s = r THEN NoTx
              ELSE [tx[s] EXCEPT !.stale = @ \/ tx[s].pc \in Writing]]

(* Every request of S ends and its transaction is rolled back.             *)
Rollback(S) ==
  /\ tx' = [r \in Request |-> IF r \in S THEN NoTx ELSE tx[r]]
  /\ writer' = IF writer \in S THEN NoRequest ELSE writer
  /\ UNCHANGED definitions

(* SQLITE_BUSY, SQLITE_BUSY_SNAPSHOT.                                      *)
Refused(r) ==
  /\ tx[r].pc \in Writing
  /\ ~MayWrite(r)
  /\ Rollback({r})

(* Any other error of a statement, or the client disconnects.              *)
Abort(r) == tx[r].pc # "idle" /\ Rollback({r})

Crash ==
  /\ \E r \in Request : tx[r].pc # "idle"
  /\ Rollback(Request)

Next ==
  \/ \E r \in Request :
       \/ Deploy(r) \/ ReadMaxVersion(r) \/ Insert(r)
       \/ Activate(r) \/ LookupProcess(r) \/ SetActiveVersion(r)
       \/ Deactivate(r) \/ Commit(r)
       \/ Refused(r) \/ Abort(r)
  \/ Crash

Spec == Init /\ [][Next]_vars

-----------------------------------------------------------------------------
(* Properties.                                                             *)

TypeOK ==
  /\ definitions \in [DefinitionKey -> DefinitionRow]
  /\ writer \in Request \cup {NoRequest}
  /\ tx \in [Request -> TxRecord]

(* At most one version of a process is active, so that get_active, which   *)
(* takes the first row it is given, has no choice.                         *)
OneActive ==
  \A j, k \in DefinitionKey :
    /\ definitions[j].active /\ definitions[k].active
    /\ definitions[j].process = definitions[k].process
    => j = k

(* Rows are inserted in key order, their versions do not exceed their keys *)
(* and leave no gap.                                                       *)
TableOK ==
  /\ \A k \in DefinitionKey :
       /\ definitions[k].process = NoProcess => definitions[k] = NoDefinition
       /\ definitions[k].process # NoProcess => definitions[k].version \in 1..k
       /\ \A j \in DefinitionKey :
            j < k /\ definitions[k].process # NoProcess => definitions[j].process # NoProcess
  /\ \A p \in Process : \E n \in 0..MaxDefinitions : Versions(definitions, p) = 1..n

(* What a transaction whose snapshot is the latest has done so far to its  *)
(* view of the table.                                                      *)
Deploying(t) ==
  /\ t.key = 0
  /\ t.version \in Nat \ {0}
  /\ IsMaxVersion(definitions, t.process, t.version - 1)

Activating(t) ==
  /\ t.key \in DefinitionKey
  /\ definitions[t.key].process = t.process

ViewOK(t) ==
  LET prepared == IF t.auto \/ t.key # 0 THEN Deactivated(definitions, t.process)
                  ELSE definitions
      inserted(k) == [prepared EXCEPT ![k] = [process |-> t.process, version |-> t.version,
                                              active |-> t.auto]]
  IN /\ t.process \in Process
     /\ Deploying(t) \/ Activating(t)
     /\ t.pc = "deactivate" => (t.auto \/ t.key # 0) /\ t.view = definitions
     /\ t.pc = "insert" => Deploying(t) /\ t.view = prepared
     /\ t.pc = "set_active" => Activating(t) /\ t.view = prepared
     /\ t.pc = "commit" =>
          IF t.key = 0
          THEN \E k \in DefinitionKey : IsNextDefinition(definitions, k) /\ t.view = inserted(k)
          ELSE t.view = SetActive(prepared, t.key)

(* The holder of the write lock has the latest snapshot, and whoever is    *)
(* past its first write holds the lock.                                    *)
TxOK(r) ==
  LET t == tx[r]
  IN /\ t.pc = "read_max" => t.process \in Process /\ t.key = 0
     /\ t.pc = "lookup" => t.key \in DefinitionKey
     /\ t.pc \in Writing /\ ~t.stale => ViewOK(t)
     /\ writer = r => t.pc \in Writing /\ ~t.stale
     /\ t.pc \in {"set_active", "commit"} => writer = r

(* The inductive invariant.                                                *)
IInv == TypeOK /\ TableOK /\ OneActive /\ \A r \in Request : TxOK(r)

(* The versions of a process count its deployments: none is missing, none  *)
(* is used twice, and a later deployment has a larger one, whatever        *)
(* deployments ran at the same time and failed.                            *)
VersionsCountDeployments ==
  \A k \in DefinitionKey :
    definitions[k].process # NoProcess =>
      definitions[k].version =
        Cardinality({j \in RowsOf(definitions, definitions[k].process) : j <= k})

(* A process that can be started stays so: no step, crashes included,      *)
(* leaves it with versions none of which is active.                        *)
StaysStartable ==
  [][\A p \in Process :
       (\E k \in RowsOf(definitions, p) : definitions[k].active)
       => \E k \in RowsOf(definitions, p)' : definitions'[k].active]_vars

(* The statements, whatever order they run in, together do what the        *)
(* registry promises.                                                      *)
Registry == INSTANCE DefinitionRegistry
RefinesRegistry == Registry!Spec
=============================================================================
