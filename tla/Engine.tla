------------------------------- MODULE Engine -------------------------------
(***************************************************************************)
(* The workflow engine (forge-engine) over its SQLite tables (forge-store),*)
(* driven by concurrent REST requests (forge-api).                         *)
(*                                                                         *)
(* A request is one handler future.  It is split where the code is: every  *)
(* read outside a transaction and every transaction is a step of its own,  *)
(* and between two steps any other request may run.  A transaction that    *)
(* consists of a fixed list of statements is one action; run_step, whose   *)
(* transaction loops over graph nodes, holds the database's only writer    *)
(* slot (variable writer) from its begin to its commit, one action for     *)
(* each node handler, and its effects become visible at the commit.        *)
(*                                                                         *)
(* A row that was moved to its history table keeps its place in the model  *)
(* with "archived" set; keys are AUTOINCREMENT and are never reused.       *)
(***************************************************************************)
EXTENDS RuntimeGraph, Integers, FiniteSets

CONSTANTS
  Request,       \* request slots: handlers that may be in flight at once
  NoRequest,
  Worker,        \* worker names of activation requests
  NoWorker,
  MaxInstances,  \* bound: process instances ever created
  MaxJobs,       \* bound: jobs ever created
  MaxTasks,      \* bound: manual tasks ever created
  MaxIncidents,  \* bound: incidents ever created
  MaxSteps       \* MAX_STEPS, the node handlers one run_step may execute

ASSUME EngineAssumption ==
  /\ NoRequest \notin Request
  /\ NoWorker \notin Worker
  /\ MaxInstances \in Nat
  /\ MaxJobs \in Nat
  /\ MaxTasks \in Nat
  /\ MaxIncidents \in Nat
  /\ MaxSteps \in Nat \ {0}

InstanceKey == 1..MaxInstances
JobKey      == 1..MaxJobs
TaskKey     == 1..MaxTasks
IncidentKey == 1..MaxIncidents
NoKey       == 0

VARIABLES
  instance,   \* process_instances ("active") and their history
  token,      \* executions: the current node of the root execution
  scope,      \* variables: the runtime rows of every instance
  jobs,       \* jobs and jobs_history
  tasks,      \* manual_tasks and manual_tasks_history
  incidents,  \* incidents and incidents_history
  audit,      \* process_events: the terminal events of every instance
  raised,     \* process_events: gateways that emitted incident.created
  writer,     \* the request whose open transaction holds the write lock
  req,        \* the local state of every request
  lost        \* history: instances for which some run_step did not commit

tables == <<instance, token, scope, jobs, tasks, incidents, audit, raised>>
vars == <<instance, token, scope, jobs, tasks, incidents, audit, raised,
          writer, req, lost>>

-----------------------------------------------------------------------------
(* Rows.                                                                   *)

JobRow == [state : {"absent", "activatable", "activated", "completed", "dead"},
           inst : InstanceKey \cup {NoKey}, node : Node \cup {NoNode},
           archived : BOOLEAN,
           lock : {"none", "live", "expired"},  \* locked_until
           due : BOOLEAN,                       \* retry_at is null or past
           worker : Worker \cup {NoWorker},
           left : BOOLEAN]                      \* its element instance is completed

NoJob == [state |-> "absent", inst |-> NoKey, node |-> NoNode,
          archived |-> FALSE, lock |-> "none", due |-> TRUE,
          worker |-> NoWorker, left |-> FALSE]

TaskRow == [state : {"absent", "open", "completed", "cancelled"},
            inst : InstanceKey \cup {NoKey}, node : Node \cup {NoNode},
            archived : BOOLEAN, left : BOOLEAN]

NoTask == [state |-> "absent", inst |-> NoKey, node |-> NoNode,
           archived |-> FALSE, left |-> FALSE]

IncidentRow == [state : {"absent", "active", "resolved"},
                inst : InstanceKey \cup {NoKey}, job : JobKey \cup {NoKey},
                archived : BOOLEAN]

NoIncident == [state |-> "absent", inst |-> NoKey, job |-> NoKey,
               archived |-> FALSE]

(* The next AUTOINCREMENT key of a table; when the bound is reached the    *)
(* INSERT fails, as it does in SQLite at the largest key.                  *)
IsNextKey(table, k) ==
  /\ table[k].state = "absent"
  /\ \A j \in DOMAIN table : j < k => table[j].state # "absent"

(* A row a statement on the runtime table can see.                         *)
Live(row) == row.state # "absent" /\ ~row.archived

(* Mutations of the definitions below, named Mut...: what a bug in the     *)
(* code would make of them.  Nothing in the specification uses them.       *)
MutSameRow(row) == row
MutSameTable(table, i) == table
MutAnyRow(table, k, row) == [table EXCEPT ![k] = row]
MutKeepStatus(old, new) == old

(* UPDATE ... WHERE key = k: no row is touched once k is in history.       *)
Updated(table, k, row) ==
  IF Live(table[k]) THEN [table EXCEPT ![k] = row] ELSE table

(* INSERT INTO ..._history SELECT ...; DELETE ... WHERE instance_key = i.  *)
MovedToHistory(table, i) ==
  [k \in DOMAIN table |->
     IF table[k].inst = i THEN [table[k] EXCEPT !.archived = TRUE] ELSE table[k]]

-----------------------------------------------------------------------------
(* Statements on the jobs, manual_tasks and incidents tables.              *)

NewJob(i, n) ==
  [NoJob EXCEPT !.state = "activatable", !.inst = i, !.node = n]

Activated(job, w) ==
  [job EXCEPT !.state = "activated", !.worker = w, !.lock = "live"]

CompletedJob(job) == [job EXCEPT !.state = "completed", !.left = TRUE]

FailedJob(job, backoff) ==
  [job EXCEPT !.state = "activatable", !.worker = NoWorker, !.lock = "none",
              !.due = ~backoff]

DeadJob(job) ==
  [job EXCEPT !.state = "dead", !.worker = NoWorker, !.lock = "none"]

ResetJob(job) ==
  [job EXCEPT !.state = "activatable", !.worker = NoWorker, !.lock = "none",
              !.due = TRUE]

NewTask(i, n) == [NoTask EXCEPT !.state = "open", !.inst = i, !.node = n]

CompletedTask(task) == [task EXCEPT !.state = "completed", !.left = TRUE]

CancelledTask(task) == [task EXCEPT !.state = "cancelled"]

NewIncident(i, k) ==
  [state |-> "active", inst |-> i, job |-> k, archived |-> FALSE]

ResolvedIncident(incident) == [incident EXCEPT !.state = "resolved"]

(* The state a completion or a failure, and a completion or a cancellation *)
(* of a task, demand of the row they read first.                           *)
JobIsActivated(row) == Live(row) /\ row.state = "activated"
TaskIsOpen(row) == Live(row) /\ row.state = "open"

MutActivatableWhileLocked(k) ==
  Live(jobs[k]) /\ jobs[k].state \in {"activatable", "activated"}

(* Jobs an activation may hand out: activatable and due, or activated with *)
(* an expired lock.                                                        *)
Activatable(k) ==
  /\ Live(jobs[k])
  /\ \/ jobs[k].state = "activatable" /\ jobs[k].due
     \/ jobs[k].state = "activated" /\ jobs[k].lock = "expired"

(* UPDATE process_instances SET status, then the move of the row: both     *)
(* touch the runtime row only.                                             *)
EndStatus(old, new) == IF old = "active" THEN new ELSE old

(* history::archive_instance on everything but jobs and manual tasks,      *)
(* which its callers combine with their own updates of those tables.       *)
ArchiveInstance(i, status) ==
  /\ instance' = [instance EXCEPT ![i] = EndStatus(@, status)]
  /\ token' = [token EXCEPT ![i] = NoNode]
  /\ scope' = [scope EXCEPT ![i] = EmptyScope]
  /\ incidents' = MovedToHistory(incidents, i)

-----------------------------------------------------------------------------
(* Requests.                                                               *)

(* Steps before which a request has no transaction open.  The pc names the *)
(* next statement; "begin" and "run" are inside run_step.                  *)
LoadingJob   == {"job_instance", "job_execution", "job_tx",
                 "fail_instance", "fail_tx"}
LoadingTask  == {"task_instance", "task_execution", "task_tx",
                 "cancel_instance", "cancel_tx"}
Resuming     == {"begin", "run"}
Replying     == {"status", "status_second"}
PC == LoadingJob \cup LoadingTask \cup Resuming \cup Replying
        \cup {"idle", "resolve_tx", "lock", "unresolved"}

(* Statements that must take the database's write lock.                    *)
Writing == {"job_tx", "fail_tx", "task_tx", "cancel_tx", "resolve_tx",
            "lock", "begin"}

ReqRecord == [pc : PC, inst : InstanceKey \cup {NoKey}, key : Nat,
              at : Node \cup {NoNode}, steps : 0..MaxSteps,
              todo : SUBSET JobKey, worker : Worker \cup {NoWorker}]

Idle == [pc |-> "idle", inst |-> NoKey, key |-> NoKey, at |-> NoNode,
         steps |-> 0, todo |-> {}, worker |-> NoWorker]

Goto(r, pc) == req' = [req EXCEPT ![r].pc = pc]

(* The request is answered, successfully or with an error, and forgotten.  *)
Done(r) == req' = [req EXCEPT ![r] = Idle]

Init ==
  /\ instance = [i \in InstanceKey |-> "none"]
  /\ token = [i \in InstanceKey |-> NoNode]
  /\ scope = [i \in InstanceKey |-> EmptyScope]
  /\ jobs = [k \in JobKey |-> NoJob]
  /\ tasks = [k \in TaskKey |-> NoTask]
  /\ incidents = [k \in IncidentKey |-> NoIncident]
  /\ audit = [i \in InstanceKey |-> {}]
  /\ raised = [i \in InstanceKey |-> {}]
  /\ writer = NoRequest
  /\ req = [r \in Request |-> Idle]
  /\ lost = {}

-----------------------------------------------------------------------------
(* POST /process-instances                                                 *)

MutNoResume(r, i) ==
  req' = [req EXCEPT ![r] = [Idle EXCEPT !.pc = "status", !.inst = i]]

(* The request goes on with run_step for the instance it worked on.        *)
Resume(r, i) ==
  req' = [req EXCEPT ![r] = [Idle EXCEPT !.pc = "begin", !.inst = i]]

(* The instance, its variables and its root execution are created in one   *)
(* transaction; run_step follows.                                          *)
StartInstance(r) ==
  /\ req[r].pc = "idle"
  /\ writer = NoRequest
  /\ \E i \in InstanceKey, initial \in Scope :
       /\ instance[i] = "none"
       /\ \A j \in InstanceKey : j < i => instance[j] # "none"
       /\ instance' = [instance EXCEPT ![i] = "active"]
       /\ scope' = [scope EXCEPT ![i] = initial]
       /\ token' = [token EXCEPT ![i] = StartNode]
       /\ Resume(r, i)
  /\ UNCHANGED <<jobs, tasks, incidents, audit, raised, writer, lost>>

-----------------------------------------------------------------------------
(* POST /jobs/{key}/completion                                             *)

CompleteJob(r) ==
  /\ req[r].pc = "idle"
  /\ \E k \in JobKey :
       /\ JobIsActivated(jobs[k])
       /\ req' = [req EXCEPT ![r] =
                    [Idle EXCEPT !.pc = "job_instance", !.key = k,
                                 !.inst = jobs[k].inst, !.at = jobs[k].node]]
  /\ UNCHANGED <<tables, writer, lost>>

(* get_instance, get_by_key and the first outgoing flow of the element.    *)
LoadInstance(r, here, next) ==
  /\ req[r].pc = here
  /\ IF instance[req[r].inst] = "active" /\ HasNext(req[r].at)
     THEN Goto(r, next) ELSE Done(r)
  /\ UNCHANGED <<tables, writer, lost>>

(* find_execution_at: an active execution parked at the element.           *)
FindExecution(r, here, next) ==
  /\ req[r].pc = here
  /\ IF token[req[r].inst] = req[r].at THEN Goto(r, next) ELSE Done(r)
  /\ UNCHANGED <<tables, writer, lost>>

MutTokenStays(i, n) == token' = token

(* UPDATE executions SET current_node_id: nothing once it is in history.   *)
AdvanceTo(i, n) ==
  token' = IF token[i] = NoNode THEN token ELSE [token EXCEPT ![i] = n]

(* The completion transaction jobs and manual tasks share; it leaves the   *)
(* two tables as given.  An output mapping that fails rolls everything     *)
(* back and ends the request.                                              *)
CompletionTx(r, here, newJobs, newTasks) ==
  /\ req[r].pc = here
  /\ writer = NoRequest
  /\ \E result \in Scope :
       IF OutputsEvaluate(req[r].at, result)
       THEN /\ scope' = [scope EXCEPT ![req[r].inst] =
                           ApplyOutputs(req[r].at, @, result)]
            /\ jobs' = newJobs
            /\ tasks' = newTasks
            /\ AdvanceTo(req[r].inst, FirstTarget(req[r].at))
            /\ Resume(r, req[r].inst)
       ELSE Done(r) /\ UNCHANGED <<scope, token, jobs, tasks>>
  /\ UNCHANGED <<instance, incidents, audit, raised, writer, lost>>

CompleteJobLoad(r) == LoadInstance(r, "job_instance", "job_execution")
CompleteJobFind(r) == FindExecution(r, "job_execution", "job_tx")
CompleteJobTx(r) ==
  LET k == req[r].key
  IN CompletionTx(r, "job_tx", Updated(jobs, k, CompletedJob(jobs[k])), tasks)

-----------------------------------------------------------------------------
(* POST /manual-tasks/{key}/completion                                     *)

CompleteTask(r) ==
  /\ req[r].pc = "idle"
  /\ \E k \in TaskKey :
       /\ TaskIsOpen(tasks[k])
       /\ req' = [req EXCEPT ![r] =
                    [Idle EXCEPT !.pc = "task_instance", !.key = k,
                                 !.inst = tasks[k].inst, !.at = tasks[k].node]]
  /\ UNCHANGED <<tables, writer, lost>>

CompleteTaskLoad(r) == LoadInstance(r, "task_instance", "task_execution")
CompleteTaskFind(r) == FindExecution(r, "task_execution", "task_tx")
CompleteTaskTx(r) ==
  LET k == req[r].key
  IN CompletionTx(r, "task_tx", jobs, Updated(tasks, k, CompletedTask(tasks[k])))

-----------------------------------------------------------------------------
(* POST /manual-tasks/{key}/cancellation                                   *)

CancelTask(r) ==
  /\ req[r].pc = "idle"
  /\ \E k \in TaskKey :
       /\ TaskIsOpen(tasks[k])
       /\ req' = [req EXCEPT ![r] =
                    [Idle EXCEPT !.pc = "cancel_instance", !.key = k,
                                 !.inst = tasks[k].inst, !.at = tasks[k].node]]
  /\ UNCHANGED <<tables, writer, lost>>

CancelTaskLoad(r) ==
  /\ req[r].pc = "cancel_instance"
  /\ IF instance[req[r].inst] = "active" THEN Goto(r, "cancel_tx") ELSE Done(r)
  /\ UNCHANGED <<tables, writer, lost>>

CancelTaskTx(r) ==
  LET i == req[r].inst
      k == req[r].key
  IN /\ req[r].pc = "cancel_tx"
     /\ writer = NoRequest
     /\ ArchiveInstance(i, "cancelled")
     /\ jobs' = MovedToHistory(jobs, i)
     /\ tasks' = MovedToHistory(Updated(tasks, k, CancelledTask(tasks[k])), i)
     /\ audit' = [audit EXCEPT ![i] = @ \cup {"cancelled"}]
     /\ Done(r)
     /\ UNCHANGED <<raised, writer, lost>>

-----------------------------------------------------------------------------
(* POST /jobs/{key}/failure                                                *)

FailJob(r) ==
  /\ req[r].pc = "idle"
  /\ \E k \in JobKey :
       /\ JobIsActivated(jobs[k])
       /\ req' = [req EXCEPT ![r] =
                    [Idle EXCEPT !.pc = "fail_instance", !.key = k,
                                 !.inst = jobs[k].inst, !.at = jobs[k].node]]
  /\ UNCHANGED <<tables, writer, lost>>

FailJobLoad(r) ==
  /\ req[r].pc = "fail_instance"
  /\ IF instance[req[r].inst] = "active" THEN Goto(r, "fail_tx") ELSE Done(r)
  /\ UNCHANGED <<tables, writer, lost>>

(* retries > 0: activatable again, at once or after the backoff.           *)
FailJobRetry(r) ==
  LET k == req[r].key
  IN /\ req[r].pc = "fail_tx"
     /\ writer = NoRequest
     /\ \E backoff \in BOOLEAN :
          jobs' = Updated(jobs, k, FailedJob(jobs[k], backoff))
     /\ Done(r)
     /\ UNCHANGED <<instance, token, scope, tasks, incidents, audit, raised,
                    writer, lost>>

(* retries <= 0: dead, with a retry-exhausted incident.                    *)
FailJobDead(r) ==
  LET k == req[r].key
  IN /\ req[r].pc = "fail_tx"
     /\ writer = NoRequest
     /\ \E x \in IncidentKey :
          /\ IsNextKey(incidents, x)
          /\ jobs' = Updated(jobs, k, DeadJob(jobs[k]))
          /\ incidents' = [incidents EXCEPT ![x] = NewIncident(req[r].inst, k)]
     /\ Done(r)
     /\ UNCHANGED <<instance, token, scope, tasks, audit, raised, writer, lost>>

-----------------------------------------------------------------------------
(* POST /incidents/{key}/resolution                                        *)

ResolveIncident(r) ==
  /\ req[r].pc = "idle"
  /\ \E x \in IncidentKey :
       /\ Live(incidents[x])
       /\ incidents[x].state = "active"
       /\ req' = [req EXCEPT ![r] =
                    [Idle EXCEPT !.pc = "resolve_tx", !.key = x,
                                 !.inst = incidents[x].inst]]
  /\ UNCHANGED <<tables, writer, lost>>

(* The incident row was read before the transaction: its job is reset      *)
(* whatever the incident and the job have become since.                    *)
ResolveIncidentTx(r) ==
  LET x == req[r].key
      k == incidents[x].job
  IN /\ req[r].pc = "resolve_tx"
     /\ writer = NoRequest
     /\ incidents' = Updated(incidents, x, ResolvedIncident(incidents[x]))
     /\ jobs' = Updated(jobs, k, ResetJob(jobs[k]))
     /\ Done(r)
     /\ UNCHANGED <<instance, token, scope, tasks, audit, raised, writer, lost>>

-----------------------------------------------------------------------------
(* POST /jobs/activation: one SELECT of the first max due keys of a task   *)
(* type, then one autocommitted UPDATE for each key.                       *)

Due(type) == {k \in JobKey : Activatable(k) /\ TaskType[jobs[k].node] = type}
Smallest(S, max) == {k \in S : Cardinality({j \in S : j < k}) < max}

ActivateJobs(r) ==
  /\ req[r].pc = "idle"
  /\ \E w \in Worker, max \in 1..MaxJobs, type \in {TaskType[n] : n \in Node} :
       LET batch == Smallest(Due(type), max)
       IN /\ batch # {}
          /\ req' = [req EXCEPT ![r] = [Idle EXCEPT !.pc = "lock", !.worker = w,
                                                    !.todo = batch]]
  /\ UNCHANGED <<tables, writer, lost>>

LockJob(r) ==
  /\ req[r].pc = "lock"
  /\ writer = NoRequest
  /\ \E k \in req[r].todo :
       /\ \A j \in req[r].todo : k <= j
       /\ jobs' = Updated(jobs, k, Activated(jobs[k], req[r].worker))
       /\ IF req[r].todo = {k} THEN Done(r)
          ELSE req' = [req EXCEPT ![r].todo = @ \ {k}]
  /\ UNCHANGED <<instance, token, scope, tasks, incidents, audit, raised,
                 writer, lost>>

-----------------------------------------------------------------------------
(* run_step: the token moves in one transaction until it reaches a wait    *)
(* state, an end event or an incident.                                     *)

(* A request that ends inside run_step leaves its instance where it is.    *)
LostBy(S) == {req[r].inst : r \in {s \in S : req[s].pc \in Resuming}}

(* run_step returns an error: its transaction is rolled back.              *)
StepFails(r) ==
  /\ Done(r)
  /\ writer' = NoRequest
  /\ lost' = lost \cup LostBy({r})
  /\ UNCHANGED tables

MutBeginWithoutTransaction(r) ==
  /\ req[r].pc = "begin"
  /\ writer = NoRequest
  /\ token[req[r].inst] # NoNode
  /\ req' = [req EXCEPT ![r].pc = "run", ![r].at = token[req[r].inst]]
  /\ UNCHANGED <<tables, writer, lost>>

BeginStep(r) ==
  /\ req[r].pc = "begin"
  /\ writer = NoRequest
  /\ IF token[req[r].inst] = NoNode
     THEN StepFails(r)
     ELSE /\ req' = [req EXCEPT ![r].pc = "run", ![r].at = token[req[r].inst]]
          /\ writer' = r
          /\ UNCHANGED <<tables, lost>>

(* The loop is about to dispatch the handler of the current node.          *)
Dispatches(r, kind) ==
  /\ req[r].pc = "run"
  /\ req[r].steps < MaxSteps
  /\ Kind[req[r].at] = kind

MutContinueUncounted(r, n) ==
  /\ req' = [req EXCEPT ![r].at = n]
  /\ UNCHANGED <<tables, writer, lost>>

(* StepOutcome::Continue.                                                  *)
Continue(r, n) ==
  /\ req' = [req EXCEPT ![r].at = n, ![r].steps = @ + 1]
  /\ UNCHANGED <<tables, writer, lost>>

(* StepOutcome::Wait, End and Incident leave the loop and commit.          *)
Commit(r) ==
  /\ Goto(r, "status")
  /\ writer' = NoRequest
  /\ UNCHANGED lost

Park(r) ==
  /\ token' = [token EXCEPT ![req[r].inst] = req[r].at]
  /\ Commit(r)

HandleStartEvent(r) ==
  /\ Dispatches(r, "start")
  /\ IF HasNext(req[r].at) THEN Continue(r, FirstTarget(req[r].at))
     ELSE StepFails(r)

(* A failed or unmatched condition emits incident.created as an audit      *)
(* event; no incident row is inserted.                                     *)
HandleGateway(r) ==
  LET i == req[r].inst
      target == GatewayTarget(req[r].at, scope[i])
  IN /\ Dispatches(r, "gateway")
     /\ IF target # NoNode THEN Continue(r, target)
        ELSE /\ raised' = [raised EXCEPT ![i] = @ \cup {req[r].at}]
             /\ Park(r)
             /\ UNCHANGED <<instance, scope, jobs, tasks, incidents, audit>>

HandleServiceTask(r) ==
  LET i == req[r].inst
  IN /\ Dispatches(r, "service")
     /\ InputsEvaluate(req[r].at, scope[i])
     /\ \E k \in JobKey :
          /\ IsNextKey(jobs, k)
          /\ jobs' = [jobs EXCEPT ![k] = NewJob(i, req[r].at)]
     /\ Park(r)
     /\ UNCHANGED <<instance, scope, tasks, incidents, audit, raised>>

HandleManualTask(r) ==
  LET i == req[r].inst
  IN /\ Dispatches(r, "manual")
     /\ InputsEvaluate(req[r].at, scope[i])
     /\ \E k \in TaskKey :
          /\ IsNextKey(tasks, k)
          /\ tasks' = [tasks EXCEPT ![k] = NewTask(i, req[r].at)]
     /\ Park(r)
     /\ UNCHANGED <<instance, scope, jobs, incidents, audit, raised>>

(* The root execution is the only one, so no other execution is active and *)
(* the instance is completed and archived in the same transaction.         *)
HandleEndEvent(r) ==
  LET i == req[r].inst
  IN /\ Dispatches(r, "end")
     /\ ArchiveInstance(i, "completed")
     /\ jobs' = MovedToHistory(jobs, i)
     /\ tasks' = MovedToHistory(tasks, i)
     /\ audit' = [audit EXCEPT ![i] = @ \cup {"completed"}]
     /\ Commit(r)
     /\ UNCHANGED raised

(* The input mapping of a task reads an unknown variable.                  *)
InputMappingFails(r) ==
  /\ Dispatches(r, "service") \/ Dispatches(r, "manual")
  /\ ~InputsEvaluate(req[r].at, scope[req[r].inst])
  /\ StepFails(r)

(* MAX_STEPS handlers ran and none of them left the loop.                  *)
MaxStepsReached(r) ==
  /\ req[r].pc = "run"
  /\ req[r].steps = MaxSteps
  /\ StepFails(r)

RunStep(r) ==
  \/ BeginStep(r)
  \/ HandleStartEvent(r)
  \/ HandleGateway(r)
  \/ HandleServiceTask(r)
  \/ HandleManualTask(r)
  \/ HandleEndEvent(r)
  \/ InputMappingFails(r)
  \/ MaxStepsReached(r)

-----------------------------------------------------------------------------
(* resolve_instance_status looks the instance up in two tables, in this    *)
(* order, with two separate reads.  An instance found in neither is the    *)
(* answer "unresolved".                                                    *)
MutLookupOrder == <<"process_instances_history", "process_instances">>

LookupOrder == <<"process_instances", "process_instances_history">>

Found(i, table) ==
  IF table = "process_instances"
  THEN instance[i] = "active" ELSE instance[i] \in {"completed", "cancelled"}

ReadStatus(r) ==
  /\ req[r].pc = "status"
  /\ IF Found(req[r].inst, LookupOrder[1]) THEN Done(r) ELSE Goto(r, "status_second")
  /\ UNCHANGED <<tables, writer, lost>>

ReadStatusAgain(r) ==
  /\ req[r].pc = "status_second"
  /\ IF Found(req[r].inst, LookupOrder[2]) THEN Done(r) ELSE Goto(r, "unresolved")
  /\ UNCHANGED <<tables, writer, lost>>

-----------------------------------------------------------------------------
(* Failures.                                                               *)

(* Every request of S ends where it is: its open transaction is rolled     *)
(* back, what it committed before stays.                                   *)
Drop(S) ==
  /\ req' = [r \in Request |-> IF r \in S THEN Idle ELSE req[r]]
  /\ writer' = IF writer \in S THEN NoRequest ELSE writer
  /\ lost' = lost \cup LostBy(S)
  /\ UNCHANGED tables

(* SQLITE_BUSY: the write lock is not free within busy_timeout.            *)
Busy(r) ==
  /\ req[r].pc \in Writing
  /\ writer \notin {NoRequest, r}
  /\ Drop({r})

(* An INSERT that needs a key past the largest one fails.                  *)
KeysExhausted(r) ==
  /\ \/ /\ Dispatches(r, "service")
        /\ \A k \in JobKey : jobs[k].state # "absent"
     \/ /\ Dispatches(r, "manual")
        /\ \A k \in TaskKey : tasks[k].state # "absent"
     \/ /\ req[r].pc = "fail_tx"
        /\ writer = NoRequest
        /\ \A x \in IncidentKey : incidents[x].state # "absent"
  /\ Drop({r})

(* A statement fails, a snapshot turns out stale when it is upgraded       *)
(* (SQLITE_BUSY_SNAPSHOT), or the client disconnects and the handler's     *)
(* future is dropped at an await.                                          *)
Abort(r) == req[r].pc # "idle" /\ Drop({r})

(* The daemon dies with every request in flight; nothing is recovered at   *)
(* the next start.                                                         *)
Crash ==
  /\ \E r \in Request : req[r].pc # "idle"
  /\ Drop(Request)

-----------------------------------------------------------------------------
(* Time.                                                                   *)

(* Nothing reads the lock of a job that is not activated.                  *)
LockExpires(k) ==
  /\ Live(jobs[k])
  /\ jobs[k].state = "activated"
  /\ jobs[k].lock = "live"
  /\ jobs' = [jobs EXCEPT ![k].lock = "expired"]
  /\ UNCHANGED <<instance, token, scope, tasks, incidents, audit, raised,
                 writer, req, lost>>

RetryDue(k) ==
  /\ Live(jobs[k])
  /\ ~jobs[k].due
  /\ jobs' = [jobs EXCEPT ![k].due = TRUE]
  /\ UNCHANGED <<instance, token, scope, tasks, incidents, audit, raised,
                 writer, req, lost>>

-----------------------------------------------------------------------------
(* What a client may send, and what the daemon does with it afterwards.    *)
Receive(r) ==
  \/ StartInstance(r)
  \/ CompleteJob(r)
  \/ CompleteTask(r)
  \/ CancelTask(r)
  \/ FailJob(r)
  \/ ResolveIncident(r)
  \/ ActivateJobs(r)

Proceed(r) ==
  \/ CompleteJobLoad(r) \/ CompleteJobFind(r) \/ CompleteJobTx(r)
  \/ CompleteTaskLoad(r) \/ CompleteTaskFind(r) \/ CompleteTaskTx(r)
  \/ CancelTaskLoad(r) \/ CancelTaskTx(r)
  \/ FailJobLoad(r) \/ FailJobRetry(r) \/ FailJobDead(r)
  \/ ResolveIncidentTx(r)
  \/ LockJob(r)
  \/ RunStep(r)
  \/ ReadStatus(r) \/ ReadStatusAgain(r)
  \/ Busy(r) \/ KeysExhausted(r)

Next ==
  \/ \E r \in Request : Receive(r) \/ Proceed(r) \/ Abort(r)
  \/ Crash
  \/ \E k \in JobKey : LockExpires(k) \/ RetryDue(k)

Spec == Init /\ [][Next]_vars
=============================================================================
