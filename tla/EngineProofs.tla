---------------------------- MODULE EngineProofs ----------------------------
(***************************************************************************)
(* Machine-checked proofs about the engine, for every graph, any number of *)
(* requests and workers, and any bound on the tables.                      *)
(*                                                                         *)
(* IInv is inductive.  The lemmas of the first section type the rows and   *)
(* tables, those of the second show what one step does to the parts of     *)
(* IInv, and the theorems that follow combine them.  The last section is   *)
(* about what keeps an active instance going.                              *)
(***************************************************************************)
EXTENDS EngineProps, TLAPS

-----------------------------------------------------------------------------
(* Types of rows, tables and records.                                      *)

(* The statements on a row write a row of the same table.                  *)
LEMMA UpdatedRows ==
  /\ \A job \in JobRow :
       /\ CompletedJob(job) \in JobRow
       /\ DeadJob(job) \in JobRow
       /\ ResetJob(job) \in JobRow
       /\ \A w \in Worker \cup {NoWorker} : Activated(job, w) \in JobRow
       /\ \A b \in BOOLEAN : FailedJob(job, b) \in JobRow
  /\ \A task \in TaskRow :
       CompletedTask(task) \in TaskRow /\ CancelledTask(task) \in TaskRow
  /\ \A incident \in IncidentRow : ResolvedIncident(incident) \in IncidentRow
<1>1. ASSUME NEW job \in JobRow
      PROVE  /\ CompletedJob(job) \in JobRow
             /\ DeadJob(job) \in JobRow
             /\ ResetJob(job) \in JobRow
  BY DEF JobRow, CompletedJob, DeadJob, ResetJob
<1>2. ASSUME NEW job \in JobRow, NEW w \in Worker \cup {NoWorker}, NEW b \in BOOLEAN
      PROVE  Activated(job, w) \in JobRow /\ FailedJob(job, b) \in JobRow
  BY DEF JobRow, Activated, FailedJob
<1>3. ASSUME NEW task \in TaskRow
      PROVE  CompletedTask(task) \in TaskRow /\ CancelledTask(task) \in TaskRow
  BY DEF TaskRow, CompletedTask, CancelledTask
<1>4. ASSUME NEW incident \in IncidentRow
      PROVE  ResolvedIncident(incident) \in IncidentRow
  BY DEF IncidentRow, ResolvedIncident
<1> QED
  BY <1>1, <1>2, <1>3, <1>4

(* The rows the engine inserts.                                            *)
LEMMA InsertedRows ==
  /\ NoJob \in JobRow /\ NoTask \in TaskRow /\ NoIncident \in IncidentRow
  /\ \A i \in InstanceKey, n \in Node :
       NewJob(i, n) \in JobRow /\ NewTask(i, n) \in TaskRow
  /\ \A i \in InstanceKey, k \in JobKey : NewIncident(i, k) \in IncidentRow
<1>1. NoJob \in JobRow /\ NoTask \in TaskRow /\ NoIncident \in IncidentRow
  BY DEF JobRow, NoJob, TaskRow, NoTask, IncidentRow, NoIncident
<1>2. ASSUME NEW i \in InstanceKey, NEW n \in Node
      PROVE  NewJob(i, n) \in JobRow /\ NewTask(i, n) \in TaskRow
  BY DEF JobRow, NoJob, NewJob, TaskRow, NoTask, NewTask
<1>3. ASSUME NEW i \in InstanceKey, NEW k \in JobKey
      PROVE  NewIncident(i, k) \in IncidentRow
  BY DEF IncidentRow, NewIncident
<1> QED
  BY <1>1, <1>2, <1>3

(* An UPDATE keeps the type of its table.                                  *)
LEMMA UpdatedType ==
  ASSUME TypeOK
  PROVE  /\ \A k \in JobKey, row \in JobRow :
              Updated(jobs, k, row) \in [JobKey -> JobRow]
         /\ \A k \in TaskKey, row \in TaskRow :
              Updated(tasks, k, row) \in [TaskKey -> TaskRow]
         /\ \A x \in IncidentKey, row \in IncidentRow :
              Updated(incidents, x, row) \in [IncidentKey -> IncidentRow]
  BY DEF Updated, TypeOK

(* The move to history keeps the type of each table.                       *)
LEMMA MovedType ==
  ASSUME NEW i \in InstanceKey
  PROVE  /\ jobs \in [JobKey -> JobRow] =>
              MovedToHistory(jobs, i) \in [JobKey -> JobRow]
         /\ \A table \in [TaskKey -> TaskRow] :
              MovedToHistory(table, i) \in [TaskKey -> TaskRow]
         /\ incidents \in [IncidentKey -> IncidentRow] =>
              MovedToHistory(incidents, i) \in [IncidentKey -> IncidentRow]
  BY DEF MovedToHistory, JobRow, TaskRow, IncidentRow

(* Variables stay well formed when a result is merged or mapped.           *)
LEMMA ScopeTypes ==
  ASSUME NEW n \in Node, NEW s \in Scope, NEW result \in Scope
  PROVE  /\ EmptyScope \in Scope
         /\ ApplyOutputs(n, s, result) \in Scope
<1>1. EmptyScope \in Scope
  BY DEF EmptyScope, Scope
<1>2. ASSUME NEW v \in DOMAIN Outputs[n]  PROVE Outputs[n][v] \in Var
  BY GraphAssumption DEF GraphOK
<1>3. ApplyOutputs(n, s, result) \in Scope
  BY <1>2 DEF ApplyOutputs, Scope
<1> QED
  BY <1>1, <1>3

(* A flow leads to a node of the graph.                                    *)
LEMMA FlowTargets ==
  ASSUME NEW n \in Node
  PROVE  /\ \A i \in DOMAIN Outgoing[n] : Outgoing[n][i].target \in Node
         /\ HasNext(n) => FirstTarget(n) \in Node
<1>1. Outgoing[n] \in Seq(Flow)
  BY GraphAssumption DEF GraphOK
<1>2. \A i \in DOMAIN Outgoing[n] : Outgoing[n][i] \in Flow
  BY <1>1
<1>3. \A i \in DOMAIN Outgoing[n] : Outgoing[n][i].target \in Node
  BY <1>2 DEF Flow
<1>4. HasNext(n) => 1 \in DOMAIN Outgoing[n]
  BY <1>1 DEF HasNext
<1> QED
  BY <1>3, <1>4 DEF FirstTarget

(* The exclusive gateway takes one of its own flows or none.               *)
LEMMA GatewayTargetType ==
  ASSUME NEW n \in Node, NEW s
  PROVE  GatewayTarget(n, s) \in {Outgoing[n][i].target : i \in DOMAIN Outgoing[n]}
                                 \cup {NoNode}
<1> DEFINE stop == CHOOSE i \in DOMAIN Outgoing[n] : FirstStop(n, s, i)
           last == CHOOSE i \in DOMAIN Outgoing[n] : LastDefault(n, i)
<1>1. CASE \E i \in DOMAIN Outgoing[n] : FirstStop(n, s, i)
  <2>1. stop \in DOMAIN Outgoing[n]
    BY <1>1
  <2>2. GatewayTarget(n, s) \in {Outgoing[n][stop].target, NoNode}
    BY <1>1 DEF GatewayTarget
  <2> QED
    BY <2>1, <2>2
<1>2. CASE /\ ~\E i \in DOMAIN Outgoing[n] : FirstStop(n, s, i)
           /\ \E i \in DOMAIN Outgoing[n] : LastDefault(n, i)
  <2>1. last \in DOMAIN Outgoing[n]
    BY <1>2
  <2>2. GatewayTarget(n, s) = Outgoing[n][last].target
    BY <1>2 DEF GatewayTarget
  <2> QED
    BY <2>1, <2>2
<1>3. CASE /\ ~\E i \in DOMAIN Outgoing[n] : FirstStop(n, s, i)
           /\ ~\E i \in DOMAIN Outgoing[n] : LastDefault(n, i)
  BY <1>3 DEF GatewayTarget
<1> QED
  BY <1>1, <1>2, <1>3

-----------------------------------------------------------------------------
(* Requests.                                                               *)

(* The keys and counters of a request are what its record allows.          *)
LEMMA ReqTypes ==
  /\ Idle \in ReqRecord
  /\ JobKey \cup TaskKey \cup IncidentKey \subseteq Nat
<1>1. JobKey \cup TaskKey \cup IncidentKey \subseteq Nat
  BY EngineAssumption DEF JobKey, TaskKey, IncidentKey
<1>2. 0 \in 0..MaxSteps
  BY EngineAssumption
<1> QED
  BY <1>1, <1>2 DEF Idle, ReqRecord, PC, NoKey

(* What the steps of a request do to its record, typed.                    *)
LEMMA ReqStepTypes ==
  ASSUME TypeOK, NEW r \in Request
  PROVE  /\ Done(r) => req' \in [Request -> ReqRecord]
         /\ \A pc \in PC : Goto(r, pc) => req' \in [Request -> ReqRecord]
         /\ \A i \in InstanceKey : Resume(r, i) => req' \in [Request -> ReqRecord]
         /\ \A S \in SUBSET Request : Drop(S) => req' \in [Request -> ReqRecord]
<1> USE ReqTypes DEF TypeOK
<1>1. Done(r) => req' \in [Request -> ReqRecord]
  BY DEF Done
<1>2. ASSUME NEW pc \in PC, Goto(r, pc)
      PROVE  req' \in [Request -> ReqRecord]
  BY <1>2 DEF Goto, ReqRecord
<1>3. ASSUME NEW i \in InstanceKey, Resume(r, i)
      PROVE  req' \in [Request -> ReqRecord]
  <2>1. [Idle EXCEPT !.pc = "begin", !.inst = i] \in ReqRecord
    BY DEF ReqRecord, PC, Resuming, Idle, NoKey
  <2> QED
    BY <1>3, <2>1 DEF Resume
<1>4. ASSUME NEW S \in SUBSET Request, Drop(S)
      PROVE  req' \in [Request -> ReqRecord]
  BY <1>4 DEF Drop
<1> QED
  BY <1>1, <1>2, <1>3, <1>4

(* A dropped request was at a known instance if it was in run_step.        *)
LEMMA LostType ==
  ASSUME TypeOK, Consistent, NEW S \in SUBSET Request
  PROVE  LostBy(S) \subseteq InstanceKey
  BY DEF LostBy, Consistent, RequestOK

(* Requests that end where they are leave every table alone.               *)
LEMMA DropType ==
  ASSUME TypeOK, Consistent, NEW S \in SUBSET Request, Drop(S)
  PROVE  TypeOK'
<1>1. PICK r \in Request \cup {NoRequest} : writer = r
  BY DEF TypeOK
<1>2. writer' \in Request \cup {NoRequest}
  BY <1>1 DEF Drop
<1>3. req' \in [Request -> ReqRecord]
  BY ReqTypes DEF Drop, TypeOK
<1>4. lost' \in SUBSET InstanceKey
  BY LostType DEF Drop, TypeOK
<1> QED
  BY <1>2, <1>3, <1>4 DEF Drop, tables, TypeOK

(* A failed run_step leaves every table alone.                             *)
LEMMA StepFailsType ==
  ASSUME TypeOK, Consistent, NEW r \in Request, StepFails(r)
  PROVE  TypeOK'
<1>1. lost' \in SUBSET InstanceKey
  BY LostType DEF StepFails, TypeOK
<1> QED
  BY <1>1, ReqStepTypes DEF StepFails, tables, TypeOK

(* A read that a request starts with fills its record.                     *)
LEMMA ReceiveType ==
  ASSUME TypeOK, Consistent, NEW r \in Request, Receive(r)
  PROVE  TypeOK'
<1> USE DEF TypeOK
<1>1. CASE StartInstance(r)
  <2>1. PICK i \in InstanceKey, initial \in Scope :
          /\ instance' = [instance EXCEPT ![i] = "active"]
          /\ scope' = [scope EXCEPT ![i] = initial]
          /\ token' = [token EXCEPT ![i] = StartNode]
          /\ Resume(r, i)
    BY <1>1 DEF StartInstance
  <2>2. req' \in [Request -> ReqRecord]
    BY <2>1, ReqStepTypes
  <2> QED
    BY <1>1, <2>1, <2>2, GraphAssumption DEF StartInstance, GraphOK
<1>2. CASE CompleteJob(r)
  <2>1. ASSUME NEW k \in JobKey
        PROVE  [Idle EXCEPT !.pc = "job_instance", !.key = k, !.inst = jobs[k].inst,
                            !.at = jobs[k].node] \in ReqRecord
    BY ReqTypes DEF ReqRecord, Idle, PC, LoadingJob, JobRow
  <2>2. req' \in [Request -> ReqRecord]
    BY <1>2, <2>1 DEF CompleteJob
  <2> QED
    BY <1>2, <2>2 DEF CompleteJob, tables
<1>3. CASE CompleteTask(r)
  <2>1. ASSUME NEW k \in TaskKey
        PROVE  [Idle EXCEPT !.pc = "task_instance", !.key = k, !.inst = tasks[k].inst,
                            !.at = tasks[k].node] \in ReqRecord
    BY ReqTypes DEF ReqRecord, Idle, PC, LoadingTask, TaskRow
  <2>2. req' \in [Request -> ReqRecord]
    BY <1>3, <2>1 DEF CompleteTask
  <2> QED
    BY <1>3, <2>2 DEF CompleteTask, tables
<1>4. CASE CancelTask(r)
  <2>1. ASSUME NEW k \in TaskKey
        PROVE  [Idle EXCEPT !.pc = "cancel_instance", !.key = k, !.inst = tasks[k].inst,
                            !.at = tasks[k].node] \in ReqRecord
    BY ReqTypes DEF ReqRecord, Idle, PC, LoadingTask, TaskRow
  <2>2. req' \in [Request -> ReqRecord]
    BY <1>4, <2>1 DEF CancelTask
  <2> QED
    BY <1>4, <2>2 DEF CancelTask, tables
<1>5. CASE FailJob(r)
  <2>1. ASSUME NEW k \in JobKey
        PROVE  [Idle EXCEPT !.pc = "fail_instance", !.key = k, !.inst = jobs[k].inst,
                            !.at = jobs[k].node] \in ReqRecord
    BY ReqTypes DEF ReqRecord, Idle, PC, LoadingJob, JobRow
  <2>2. req' \in [Request -> ReqRecord]
    BY <1>5, <2>1 DEF FailJob
  <2> QED
    BY <1>5, <2>2 DEF FailJob, tables
<1>6. CASE ResolveIncident(r)
  <2>1. ASSUME NEW x \in IncidentKey
        PROVE  [Idle EXCEPT !.pc = "resolve_tx", !.key = x,
                            !.inst = incidents[x].inst] \in ReqRecord
    BY ReqTypes DEF ReqRecord, Idle, PC, IncidentRow
  <2>2. req' \in [Request -> ReqRecord]
    BY <1>6, <2>1 DEF ResolveIncident
  <2> QED
    BY <1>6, <2>2 DEF ResolveIncident, tables
<1>7. CASE ActivateJobs(r)
  <2>1. ASSUME NEW w \in Worker, NEW B \in SUBSET JobKey
        PROVE  [Idle EXCEPT !.pc = "lock", !.worker = w, !.todo = B] \in ReqRecord
    BY ReqTypes DEF ReqRecord, Idle, PC
  <2>2. ASSUME NEW type, NEW max
        PROVE  Smallest(Due(type), max) \in SUBSET JobKey
    <3>1. Due(type) \subseteq JobKey
      BY DEF Due
    <3>2. \A S : Smallest(S, max) \subseteq S
      BY Zenon DEF Smallest
    <3> QED
      BY <3>1, <3>2
  <2>3. PICK w \in Worker, max \in 1..MaxJobs, type \in {TaskType[n] : n \in Node} :
          req' = [req EXCEPT ![r] = [Idle EXCEPT !.pc = "lock", !.worker = w,
                                       !.todo = Smallest(Due(type), max)]]
    BY <1>7, Zenon DEF ActivateJobs
  <2>4. req' \in [Request -> ReqRecord]
    BY <2>1, <2>2, <2>3
  <2>5. UNCHANGED <<tables, writer, lost>>
    BY <1>7, Zenon DEF ActivateJobs
  <2> QED
    BY <2>4, <2>5 DEF tables
<1> QED
  BY <1>1, <1>2, <1>3, <1>4, <1>5, <1>6, <1>7 DEF Receive

(* The instance of a request that works on a job or a task.                *)
LEMMA LoadedInstance ==
  ASSUME TypeOK, Consistent, NEW r \in Request,
         req[r].pc \in LoadingJob \cup LoadingTask
  PROVE  req[r].inst \in InstanceKey /\ req[r].at \in Node
  BY DEF Consistent, RequestOK, RowsOK

(* The two reads before a transaction.                                     *)
LEMMA LoadType ==
  ASSUME TypeOK, NEW r \in Request, NEW here, NEW next \in PC,
         LoadInstance(r, here, next) \/ FindExecution(r, here, next)
  PROVE  TypeOK'
  BY ReqStepTypes DEF LoadInstance, FindExecution, tables, TypeOK

(* The transaction of a completion writes well-formed rows.                *)
LEMMA CompletionTxType ==
  ASSUME TypeOK, Consistent, NEW r \in Request,
         NEW here \in LoadingJob \cup LoadingTask,
         NEW newJobs \in [JobKey -> JobRow], NEW newTasks \in [TaskKey -> TaskRow],
         HasNext(req[r].at),
         CompletionTx(r, here, newJobs, newTasks)
  PROVE  TypeOK'
<1> DEFINE i == req[r].inst
<1> USE DEF TypeOK
<1>1. i \in InstanceKey /\ req[r].at \in Node
  BY LoadedInstance DEF CompletionTx
<1>2. PICK result \in Scope :
        IF OutputsEvaluate(req[r].at, result)
        THEN /\ scope' = [scope EXCEPT ![i] = ApplyOutputs(req[r].at, @, result)]
             /\ jobs' = newJobs
             /\ tasks' = newTasks
             /\ AdvanceTo(i, FirstTarget(req[r].at))
             /\ Resume(r, i)
        ELSE Done(r) /\ UNCHANGED <<scope, token, jobs, tasks>>
  BY DEF CompletionTx
<1>3. req' \in [Request -> ReqRecord]
  BY <1>1, <1>2, ReqStepTypes
<1>4. scope' \in [InstanceKey -> Scope]
  BY <1>1, <1>2, ScopeTypes
<1>5. token' \in [InstanceKey -> Node \cup {NoNode}]
  BY <1>1, <1>2, FlowTargets DEF AdvanceTo
<1> QED
  BY <1>2, <1>3, <1>4, <1>5 DEF CompletionTx

(* The end of an instance: its rows keep their types as they move.         *)
LEMMA ArchiveType ==
  ASSUME TypeOK, NEW i \in InstanceKey, NEW status \in {"completed", "cancelled"},
         ArchiveInstance(i, status)
  PROVE  /\ instance' \in [InstanceKey -> {"none", "active", "completed", "cancelled"}]
         /\ token' \in [InstanceKey -> Node \cup {NoNode}]
         /\ scope' \in [InstanceKey -> Scope]
         /\ incidents' \in [IncidentKey -> IncidentRow]
<1>1. EmptyScope \in Scope
  BY DEF EmptyScope, Scope
<1> QED
  BY <1>1, MovedType DEF ArchiveInstance, EndStatus, TypeOK

(* Requests on jobs, tasks and incidents.                                  *)
LEMMA WorkType ==
  ASSUME TypeOK, Consistent, NEW r \in Request,
         \/ CompleteJobLoad(r) \/ CompleteJobFind(r) \/ CompleteJobTx(r)
         \/ CompleteTaskLoad(r) \/ CompleteTaskFind(r) \/ CompleteTaskTx(r)
         \/ CancelTaskLoad(r) \/ CancelTaskTx(r)
         \/ FailJobLoad(r) \/ FailJobRetry(r) \/ FailJobDead(r)
         \/ ResolveIncidentTx(r)
         \/ LockJob(r)
  PROVE  TypeOK'
<1> DEFINE i == req[r].inst
           k == req[r].key
<1>0. /\ req[r].pc \in LoadingJob =>
           i \in InstanceKey /\ k \in JobKey /\ req[r].at \in Node
      /\ req[r].pc \in LoadingTask =>
           i \in InstanceKey /\ k \in TaskKey /\ req[r].at \in Node
      /\ req[r].pc = "resolve_tx" => k \in IncidentKey /\ incidents[k].job \in JobKey
      /\ req[r].pc \in {"job_tx", "task_tx"} => HasNext(req[r].at)
  BY LoadedInstance DEF Consistent, RequestOK, RowsOK
<1>1. CASE CompleteJobLoad(r) \/ CompleteJobFind(r) \/ CompleteTaskLoad(r)
             \/ CompleteTaskFind(r)
  BY <1>1, LoadType
     DEF CompleteJobLoad, CompleteJobFind, CompleteTaskLoad, CompleteTaskFind, PC,
         LoadingJob, LoadingTask
<1>2. CASE CompleteJobTx(r)
  <2>1. req[r].pc = "job_tx" /\ "job_tx" \in LoadingJob \cup LoadingTask
    BY <1>2 DEF CompleteJobTx, CompletionTx, LoadingJob
  <2>2. k \in JobKey /\ HasNext(req[r].at)
    BY <1>0, <2>1 DEF LoadingJob
  <2>3. Updated(jobs, k, CompletedJob(jobs[k])) \in [JobKey -> JobRow]
    <3>1. CompletedJob(jobs[k]) \in JobRow
      BY <2>2, UpdatedRows DEF TypeOK
    <3> QED
      BY <2>2, <3>1, UpdatedType DEF TypeOK
  <2>4. tasks \in [TaskKey -> TaskRow]
    BY DEF TypeOK
  <2>5. CompletionTx(r, "job_tx", Updated(jobs, k, CompletedJob(jobs[k])), tasks)
    BY <1>2 DEF CompleteJobTx
  <2> QED
    BY <2>1, <2>2, <2>3, <2>4, <2>5, CompletionTxType
<1>3. CASE CompleteTaskTx(r)
  <2>1. req[r].pc = "task_tx" /\ "task_tx" \in LoadingJob \cup LoadingTask
    BY <1>3 DEF CompleteTaskTx, CompletionTx, LoadingTask
  <2>2. k \in TaskKey /\ HasNext(req[r].at)
    BY <1>0, <2>1 DEF LoadingTask
  <2>3. Updated(tasks, k, CompletedTask(tasks[k])) \in [TaskKey -> TaskRow]
    <3>1. CompletedTask(tasks[k]) \in TaskRow
      BY <2>2, UpdatedRows DEF TypeOK
    <3> QED
      BY <2>2, <3>1, UpdatedType DEF TypeOK
  <2>4. jobs \in [JobKey -> JobRow]
    BY DEF TypeOK
  <2>5. CompletionTx(r, "task_tx", jobs, Updated(tasks, k, CompletedTask(tasks[k])))
    BY <1>3 DEF CompleteTaskTx
  <2> QED
    BY <2>1, <2>2, <2>3, <2>4, <2>5, CompletionTxType
<1>4. CASE CancelTaskLoad(r) \/ FailJobLoad(r)
  BY <1>4, ReqStepTypes
     DEF CancelTaskLoad, FailJobLoad, PC, LoadingTask, LoadingJob, tables, TypeOK
<1>5. CASE CancelTaskTx(r)
  <2>1. i \in InstanceKey /\ k \in TaskKey
    BY <1>0, <1>5 DEF CancelTaskTx, LoadingTask
  <2>2. Updated(tasks, k, CancelledTask(tasks[k])) \in [TaskKey -> TaskRow]
    <3>1. CancelledTask(tasks[k]) \in TaskRow
      BY <2>1, UpdatedRows DEF TypeOK
    <3> QED
      BY <2>1, <3>1, UpdatedType DEF TypeOK
  <2>3. tasks' \in [TaskKey -> TaskRow] /\ jobs' \in [JobKey -> JobRow]
    BY <1>5, <2>1, <2>2, MovedType DEF CancelTaskTx, TypeOK
  <2>4. req' \in [Request -> ReqRecord]
    BY <1>5, ReqStepTypes DEF CancelTaskTx
  <2>5. audit' \in [InstanceKey -> SUBSET {"completed", "cancelled"}]
    BY <1>5, <2>1 DEF CancelTaskTx, TypeOK
  <2>6. ArchiveInstance(i, "cancelled")
    BY <1>5 DEF CancelTaskTx
  <2> QED
    BY <1>5, <2>1, <2>3, <2>4, <2>5, <2>6, ArchiveType DEF CancelTaskTx, TypeOK
<1>6. CASE FailJobRetry(r)
  <2>1. k \in JobKey
    BY <1>0, <1>6 DEF FailJobRetry, LoadingJob
  <2>2. ASSUME NEW b \in BOOLEAN
        PROVE  Updated(jobs, k, FailedJob(jobs[k], b)) \in [JobKey -> JobRow]
    <3>1. FailedJob(jobs[k], b) \in JobRow
      BY <2>1, UpdatedRows DEF TypeOK
    <3> QED
      BY <2>1, <3>1, UpdatedType DEF TypeOK
  <2>3. jobs' \in [JobKey -> JobRow]
    BY <1>6, <2>2 DEF FailJobRetry
  <2> QED
    BY <1>6, <2>3, ReqStepTypes DEF FailJobRetry, TypeOK
<1>7. CASE FailJobDead(r)
  <2>1. k \in JobKey /\ i \in InstanceKey
    BY <1>0, <1>7 DEF FailJobDead, LoadingJob
  <2>2. Updated(jobs, k, DeadJob(jobs[k])) \in [JobKey -> JobRow]
    <3>1. DeadJob(jobs[k]) \in JobRow
      BY <2>1, UpdatedRows DEF TypeOK
    <3> QED
      BY <2>1, <3>1, UpdatedType DEF TypeOK
  <2>3. NewIncident(i, k) \in IncidentRow
    BY <2>1, InsertedRows
  <2> QED
    BY <1>7, <2>2, <2>3, ReqStepTypes DEF FailJobDead, TypeOK
<1>8. CASE ResolveIncidentTx(r)
  <2>1. k \in IncidentKey /\ incidents[k].job \in JobKey
    BY <1>0, <1>8 DEF ResolveIncidentTx
  <2>2. ResolvedIncident(incidents[k]) \in IncidentRow
    BY <2>1, UpdatedRows DEF TypeOK
  <2>3. ResetJob(jobs[incidents[k].job]) \in JobRow
    BY <2>1, UpdatedRows DEF TypeOK
  <2> QED
    BY <1>8, <2>1, <2>2, <2>3, UpdatedType, ReqStepTypes DEF ResolveIncidentTx, TypeOK
<1>9. CASE LockJob(r)
  <2>1. PICK j \in req[r].todo :
          /\ jobs' = Updated(jobs, j, Activated(jobs[j], req[r].worker))
          /\ IF req[r].todo = {j} THEN Done(r)
             ELSE req' = [req EXCEPT ![r].todo = @ \ {j}]
    BY <1>9 DEF LockJob
  <2>2. j \in JobKey /\ req[r].worker \in Worker \cup {NoWorker}
    BY DEF TypeOK, ReqRecord
  <2>3. Activated(jobs[j], req[r].worker) \in JobRow
    BY <2>2, UpdatedRows DEF TypeOK
  <2>4. req' \in [Request -> ReqRecord]
    BY <2>1, ReqStepTypes DEF TypeOK, ReqRecord
  <2> QED
    BY <1>9, <2>1, <2>2, <2>3, <2>4, UpdatedType DEF LockJob, TypeOK
<1> QED
  BY <1>1, <1>2, <1>3, <1>4, <1>5, <1>6, <1>7, <1>8, <1>9

(* run_step: what one node handler writes.                                 *)
LEMMA RunStepType ==
  ASSUME TypeOK, Consistent, NEW r \in Request, RunStep(r)
  PROVE  TypeOK'
<1> DEFINE i == req[r].inst
           n == req[r].at
<1>1. CASE BeginStep(r)
  <2>1. CASE token[i] = NoNode
    BY <1>1, <2>1, StepFailsType DEF BeginStep
  <2>2. CASE token[i] # NoNode
    <3>1. i \in InstanceKey
      BY <1>1 DEF BeginStep, Consistent, RequestOK, Resuming
    <3>2. /\ req' = [req EXCEPT ![r].pc = "run", ![r].at = token[i]]
          /\ writer' = r
          /\ UNCHANGED <<tables, lost>>
      BY <1>1, <2>2 DEF BeginStep
    <3>3. [req[r] EXCEPT !.pc = "run", !.at = token[i]] \in ReqRecord
      <4>1. \A q \in ReqRecord, m \in Node \cup {NoNode} :
              [q EXCEPT !.pc = "run", !.at = m] \in ReqRecord
        BY DEF ReqRecord, PC, Resuming
      <4> QED
        BY <3>1, <4>1 DEF TypeOK
    <3>4. req' \in [Request -> ReqRecord]
      BY <3>2, <3>3 DEF TypeOK
    <3> QED
      BY <3>2, <3>4 DEF tables, TypeOK
  <2> QED
    BY <2>1, <2>2
<1> DEFINE running == /\ req[r].pc = "run"
                      /\ i \in InstanceKey
                      /\ n \in Node
<1>2. req[r].pc = "run" => running
  BY DEF Consistent, RequestOK, WriterOK, Resuming
<1>3. ASSUME NEW m \in Node, req[r].pc = "run", req[r].steps < MaxSteps, Continue(r, m)
      PROVE  TypeOK'
  <2>1. ASSUME NEW q \in ReqRecord, q.steps < MaxSteps
        PROVE  [q EXCEPT !.at = m, !.steps = @ + 1] \in ReqRecord
    <3>1. q.steps + 1 \in 0..MaxSteps
      BY <2>1, EngineAssumption DEF ReqRecord
    <3>2. ASSUME NEW k \in 0..MaxSteps
          PROVE  [q EXCEPT !.at = m, !.steps = k] \in ReqRecord
      BY DEF ReqRecord
    <3> QED
      BY <3>1, <3>2
  <2>2. req' = [req EXCEPT ![r] = [req[r] EXCEPT !.at = m, !.steps = @ + 1]]
    BY <1>3 DEF Continue, TypeOK
  <2>3. req' \in [Request -> ReqRecord]
    BY <1>3, <2>1, <2>2 DEF TypeOK
  <2> QED
    BY <1>3, <2>3 DEF Continue, tables, TypeOK
<1>4. ASSUME running, Commit(r)
      PROVE  req' \in [Request -> ReqRecord] /\ writer' \in Request \cup {NoRequest}
                /\ lost' \in SUBSET InstanceKey
  BY <1>4, ReqStepTypes DEF Commit, PC, Replying, TypeOK
<1>5. ASSUME running, Park(r)
      PROVE  /\ req' \in [Request -> ReqRecord] /\ writer' \in Request \cup {NoRequest}
             /\ lost' \in SUBSET InstanceKey
             /\ token' \in [InstanceKey -> Node \cup {NoNode}]
  BY <1>4, <1>5 DEF Park, TypeOK
<1>6. CASE HandleStartEvent(r)
  BY <1>2, <1>3, <1>6, StepFailsType, FlowTargets DEF HandleStartEvent, Dispatches
<1>7. CASE HandleGateway(r)
  <2>1. running /\ req[r].steps < MaxSteps
    BY <1>2, <1>7 DEF HandleGateway, Dispatches
  <2>2. GatewayTarget(n, scope[i]) \in Node \cup {NoNode}
    BY <2>1, GatewayTargetType, FlowTargets
  <2>3. CASE GatewayTarget(n, scope[i]) # NoNode
    BY <1>3, <1>7, <2>1, <2>2, <2>3 DEF HandleGateway
  <2>4. CASE GatewayTarget(n, scope[i]) = NoNode
    <3>1. /\ raised' = [raised EXCEPT ![i] = @ \cup {n}]
          /\ Park(r)
          /\ UNCHANGED <<instance, scope, jobs, tasks, incidents, audit>>
      BY <1>7, <2>4 DEF HandleGateway
    <3>2. raised' \in [InstanceKey -> SUBSET Node]
      BY <2>1, <3>1 DEF TypeOK
    <3> QED
      BY <1>5, <2>1, <3>1, <3>2 DEF TypeOK
  <2> QED
    BY <2>3, <2>4
<1>8. CASE HandleServiceTask(r)
  <2>1. running
    BY <1>2, <1>8 DEF HandleServiceTask, Dispatches
  <2>2. NewJob(i, n) \in JobRow
    BY <2>1, InsertedRows
  <2>3. jobs' \in [JobKey -> JobRow]
    BY <1>8, <2>2 DEF HandleServiceTask, TypeOK
  <2> QED
    BY <1>5, <1>8, <2>1, <2>3 DEF HandleServiceTask, TypeOK
<1>9. CASE HandleManualTask(r)
  <2>1. running
    BY <1>2, <1>9 DEF HandleManualTask, Dispatches
  <2>2. NewTask(i, n) \in TaskRow
    BY <2>1, InsertedRows
  <2>3. tasks' \in [TaskKey -> TaskRow]
    BY <1>9, <2>2 DEF HandleManualTask, TypeOK
  <2> QED
    BY <1>5, <1>9, <2>1, <2>3 DEF HandleManualTask, TypeOK
<1>10. CASE HandleEndEvent(r)
  <2>1. running /\ ArchiveInstance(i, "completed") /\ Commit(r)
    BY <1>2, <1>10 DEF HandleEndEvent, Dispatches
  <2>2. jobs' \in [JobKey -> JobRow] /\ tasks' \in [TaskKey -> TaskRow]
    BY <1>10, <2>1, MovedType DEF HandleEndEvent, TypeOK
  <2>3. audit' \in [InstanceKey -> SUBSET {"completed", "cancelled"}]
    BY <1>10, <2>1 DEF HandleEndEvent, TypeOK
  <2> QED
    BY <1>4, <1>10, <2>1, <2>2, <2>3, ArchiveType DEF HandleEndEvent, TypeOK
<1>11. CASE InputMappingFails(r) \/ MaxStepsReached(r)
  BY <1>11, StepFailsType DEF InputMappingFails, MaxStepsReached
<1> QED
  BY <1>1, <1>6, <1>7, <1>8, <1>9, <1>10, <1>11 DEF RunStep

(* Every step keeps the types.                                             *)
LEMMA TypeStep ==
  ASSUME TypeOK, Consistent, [Next]_vars
  PROVE  TypeOK'
<1>1. ASSUME NEW r \in Request, Receive(r)
      PROVE  TypeOK'
  BY <1>1, ReceiveType
<1>2. ASSUME NEW r \in Request, ReadStatus(r) \/ ReadStatusAgain(r)
      PROVE  TypeOK'
  BY <1>2, ReqStepTypes DEF ReadStatus, ReadStatusAgain, PC, Replying, tables, TypeOK
<1>3. ASSUME NEW r \in Request, Busy(r) \/ KeysExhausted(r) \/ Abort(r)
      PROVE  TypeOK'
  BY <1>3, DropType DEF Busy, KeysExhausted, Abort
<1>4. ASSUME NEW r \in Request, Proceed(r)
      PROVE  TypeOK'
  BY <1>2, <1>3, <1>4, WorkType, RunStepType DEF Proceed
<1>5. CASE Crash
  BY <1>5, DropType DEF Crash
<1>6. ASSUME NEW k \in JobKey, LockExpires(k) \/ RetryDue(k)
      PROVE  TypeOK'
  <2>1. \A row \in JobRow : /\ [row EXCEPT !.lock = "expired"] \in JobRow
                            /\ [row EXCEPT !.due = TRUE] \in JobRow
    BY DEF JobRow
  <2>2. \/ jobs' = [jobs EXCEPT ![k].lock = "expired"]
        \/ jobs' = [jobs EXCEPT ![k].due = TRUE]
    BY <1>6 DEF LockExpires, RetryDue
  <2>3. /\ [jobs[k] EXCEPT !.lock = "expired"] \in JobRow
        /\ [jobs[k] EXCEPT !.due = TRUE] \in JobRow
        /\ jobs \in [JobKey -> JobRow]
    BY <2>1 DEF TypeOK
  <2>4. jobs' \in [JobKey -> JobRow]
    BY <2>2, <2>3
  <2> QED
    BY <1>6, <2>4 DEF LockExpires, RetryDue, TypeOK
<1>7. CASE UNCHANGED vars
  BY <1>7 DEF vars, TypeOK
<1> QED
  BY <1>1, <1>3, <1>4, <1>5, <1>6, <1>7 DEF Next

-----------------------------------------------------------------------------
(* What one step does to the tables.                                       *)

(* Between two states of a table: rows in history stay as they are, and a  *)
(* row that was inserted stays, for the same instance and at the same      *)
(* place.                                                                  *)
JobsKept(old, new) ==
  \A k \in JobKey :
    /\ old[k].archived \/ old[k].state = "absent" => new[k] = old[k]
    /\ old[k].state # "absent" =>
         /\ new[k].state # "absent"
         /\ new[k].inst = old[k].inst
         /\ new[k].node = old[k].node

TasksKept(old, new) ==
  \A k \in TaskKey :
    /\ old[k].archived \/ old[k].state = "absent" => new[k] = old[k]
    /\ old[k].state # "absent" =>
         /\ new[k].state # "absent"
         /\ new[k].inst = old[k].inst
         /\ new[k].node = old[k].node

IncidentsKept(old, new) ==
  \A x \in IncidentKey :
    /\ old[x].archived \/ old[x].state = "absent" => new[x] = old[x]
    /\ old[x].state # "absent" =>
         /\ new[x].state # "absent"
         /\ new[x].inst = old[x].inst
         /\ new[x].job = old[x].job

(* The steps that write a table.                                           *)
Writes(r) ==
  \/ StartInstance(r)
  \/ CompleteJobTx(r) \/ CompleteTaskTx(r) \/ CancelTaskTx(r)
  \/ FailJobRetry(r) \/ FailJobDead(r) \/ ResolveIncidentTx(r) \/ LockJob(r)
  \/ HandleGateway(r) \/ HandleServiceTask(r) \/ HandleManualTask(r)
  \/ HandleEndEvent(r)

(* All other steps read the tables, or only time passes.                   *)
LEMMA WritingSteps ==
  ASSUME [Next]_vars
  PROVE  \/ UNCHANGED tables
         \/ \E r \in Request : Writes(r)
         \/ \E k \in JobKey : LockExpires(k) \/ RetryDue(k)
<1>1. ASSUME NEW r \in Request, Receive(r)
      PROVE  UNCHANGED tables \/ Writes(r)
  <2>1. CASE ActivateJobs(r)
    BY <2>1, Zenon DEF ActivateJobs
  <2>2. CASE StartInstance(r)
    BY <2>2 DEF Writes
  <2> QED
    BY <1>1, <2>1, <2>2
       DEF Receive, CompleteJob, CompleteTask, CancelTask, FailJob, ResolveIncident
<1>2. ASSUME NEW r \in Request, NEW S, Drop(S) \/ StepFails(r)
      PROVE  UNCHANGED tables
  BY <1>2 DEF Drop, StepFails
<1>3. ASSUME NEW r \in Request, RunStep(r)
      PROVE  UNCHANGED tables \/ Writes(r)
  <2>1. CASE BeginStep(r)
    BY <1>2, <2>1 DEF BeginStep
  <2>2. CASE HandleStartEvent(r)
    BY <1>2, <2>2 DEF HandleStartEvent, Continue
  <2>3. CASE InputMappingFails(r) \/ MaxStepsReached(r)
    BY <1>2, <2>3 DEF InputMappingFails, MaxStepsReached
  <2> QED
    BY <1>3, <2>1, <2>2, <2>3 DEF RunStep, Writes
<1>4. ASSUME NEW r \in Request, Proceed(r)
      PROVE  UNCHANGED tables \/ Writes(r)
  <2>1. CASE CompleteJobLoad(r) \/ CompleteJobFind(r) \/ CompleteTaskLoad(r)
               \/ CompleteTaskFind(r) \/ CancelTaskLoad(r) \/ FailJobLoad(r)
    BY <2>1 DEF CompleteJobLoad, CompleteJobFind, CompleteTaskLoad, CompleteTaskFind,
                CancelTaskLoad, FailJobLoad, LoadInstance, FindExecution
  <2>2. CASE ReadStatus(r) \/ ReadStatusAgain(r)
    BY <2>2 DEF ReadStatus, ReadStatusAgain
  <2>3. CASE Busy(r) \/ KeysExhausted(r)
    BY <1>2, <2>3 DEF Busy, KeysExhausted
  <2> QED
    BY <1>3, <1>4, <2>1, <2>2, <2>3 DEF Proceed, Writes
<1>5. ASSUME NEW r \in Request, Abort(r)
      PROVE  UNCHANGED tables
  BY <1>2, <1>5 DEF Abort
<1>6. ASSUME Crash
      PROVE  UNCHANGED tables
  BY <1>6 DEF Crash, Drop
<1>7. CASE UNCHANGED vars
  BY <1>7 DEF vars, tables
<1> QED
  BY <1>1, <1>4, <1>5, <1>6, <1>7 DEF Next

(* Updates of a live row, and the move of an instance's rows to history,   *)
(* keep the jobs in the sense of JobsKept.                                 *)
LEMMA JobOpsKeep ==
  ASSUME TypeOK, RowsOK
  PROVE  /\ \A k \in JobKey, row \in JobRow :
              (row.state # "absent" /\ row.inst = jobs[k].inst /\ row.node = jobs[k].node)
              => JobsKept(jobs, Updated(jobs, k, row))
         /\ \A i \in InstanceKey : JobsKept(jobs, MovedToHistory(jobs, i))
<1>1. ASSUME NEW k \in JobKey, NEW row \in JobRow,
             row.state # "absent", row.inst = jobs[k].inst, row.node = jobs[k].node
      PROVE  JobsKept(jobs, Updated(jobs, k, row))
  BY <1>1 DEF JobsKept, Updated, Live, TypeOK
<1>2. ASSUME NEW i \in InstanceKey, NEW k \in JobKey
      PROVE  LET new == MovedToHistory(jobs, i)
             IN /\ jobs[k].archived \/ jobs[k].state = "absent" => new[k] = jobs[k]
                /\ jobs[k].state # "absent" =>
                     /\ new[k].state # "absent"
                     /\ new[k].inst = jobs[k].inst
                     /\ new[k].node = jobs[k].node
  <2>1. jobs[k] \in JobRow /\ k \in DOMAIN jobs
    BY DEF TypeOK
  <2>2. jobs[k].state = "absent" => jobs[k].inst # i
    BY DEF RowsOK, NoJob, NoKey, InstanceKey
  <2>3. MovedToHistory(jobs, i)[k] =
          IF jobs[k].inst = i THEN [jobs[k] EXCEPT !.archived = TRUE] ELSE jobs[k]
    BY <2>1 DEF MovedToHistory
  <2>4. \A row \in JobRow : row.archived => [row EXCEPT !.archived = TRUE] = row
    BY DEF JobRow
  <2>5. \A row \in JobRow : LET new == [row EXCEPT !.archived = TRUE]
                            IN new.state = row.state /\ new.inst = row.inst
                                 /\ new.node = row.node
    BY DEF JobRow
  <2> QED
    BY <2>1, <2>2, <2>3, <2>4, <2>5
<1> QED
  BY <1>1, <1>2 DEF JobsKept

(* The same of manual tasks.                                               *)
LEMMA TaskOpsKeep ==
  ASSUME TypeOK, RowsOK, NEW table \in [TaskKey -> TaskRow], TasksKept(tasks, table)
  PROVE  /\ \A k \in TaskKey, row \in TaskRow :
              (row.state # "absent" /\ row.inst = tasks[k].inst /\ row.node = tasks[k].node)
              => TasksKept(tasks, Updated(tasks, k, row))
         /\ \A i \in InstanceKey : TasksKept(tasks, MovedToHistory(table, i))
<1>1. ASSUME NEW k \in TaskKey, NEW row \in TaskRow,
             row.state # "absent", row.inst = tasks[k].inst, row.node = tasks[k].node
      PROVE  TasksKept(tasks, Updated(tasks, k, row))
  BY <1>1 DEF TasksKept, Updated, Live, TypeOK
<1>2. ASSUME NEW i \in InstanceKey, NEW k \in TaskKey
      PROVE  LET new == MovedToHistory(table, i)
             IN /\ tasks[k].archived \/ tasks[k].state = "absent" => new[k] = tasks[k]
                /\ tasks[k].state # "absent" =>
                     /\ new[k].state # "absent"
                     /\ new[k].inst = tasks[k].inst
                     /\ new[k].node = tasks[k].node
  <2>1. table[k] \in TaskRow /\ k \in DOMAIN table
    OBVIOUS
  <2>2. tasks[k].state = "absent" => tasks[k].inst # i
    BY DEF RowsOK, NoTask, NoKey, InstanceKey
  <2>3. MovedToHistory(table, i)[k] =
          IF table[k].inst = i THEN [table[k] EXCEPT !.archived = TRUE] ELSE table[k]
    BY <2>1 DEF MovedToHistory
  <2>4. \A row \in TaskRow : row.archived => [row EXCEPT !.archived = TRUE] = row
    BY DEF TaskRow
  <2>5. \A row \in TaskRow : LET new == [row EXCEPT !.archived = TRUE]
                             IN new.state = row.state /\ new.inst = row.inst
                                  /\ new.node = row.node
    BY DEF TaskRow
  <2>6. /\ tasks[k].archived \/ tasks[k].state = "absent" => table[k] = tasks[k]
        /\ tasks[k].state # "absent" =>
             /\ table[k].state # "absent"
             /\ table[k].inst = tasks[k].inst
             /\ table[k].node = tasks[k].node
    BY DEF TasksKept
  <2>7. CASE table[k].inst = i
    <3>1. MovedToHistory(table, i)[k] = [table[k] EXCEPT !.archived = TRUE]
      BY <2>3, <2>7
    <3> QED
      BY <2>1, <2>2, <2>4, <2>5, <2>6, <2>7, <3>1
  <2>8. CASE table[k].inst # i
    BY <2>3, <2>6, <2>8
  <2> QED
    BY <2>7, <2>8
<1> QED
  BY <1>1, <1>2 DEF TasksKept

(* The same of incidents.                                                  *)
LEMMA IncidentOpsKeep ==
  ASSUME TypeOK, RowsOK
  PROVE  /\ \A x \in IncidentKey, row \in IncidentRow :
              (row.state # "absent" /\ row.inst = incidents[x].inst
                 /\ row.job = incidents[x].job)
              => IncidentsKept(incidents, Updated(incidents, x, row))
         /\ \A i \in InstanceKey : IncidentsKept(incidents, MovedToHistory(incidents, i))
<1>1. ASSUME NEW x \in IncidentKey, NEW row \in IncidentRow,
             row.state # "absent", row.inst = incidents[x].inst, row.job = incidents[x].job
      PROVE  IncidentsKept(incidents, Updated(incidents, x, row))
  BY <1>1 DEF IncidentsKept, Updated, Live, TypeOK
<1>2. ASSUME NEW i \in InstanceKey, NEW x \in IncidentKey
      PROVE  LET new == MovedToHistory(incidents, i)
             IN /\ incidents[x].archived \/ incidents[x].state = "absent" =>
                     new[x] = incidents[x]
                /\ incidents[x].state # "absent" =>
                     /\ new[x].state # "absent"
                     /\ new[x].inst = incidents[x].inst
                     /\ new[x].job = incidents[x].job
  <2>1. incidents[x] \in IncidentRow /\ x \in DOMAIN incidents
    BY DEF TypeOK
  <2>2. incidents[x].state = "absent" => incidents[x].inst # i
    BY DEF RowsOK, NoIncident, NoKey, InstanceKey
  <2>3. MovedToHistory(incidents, i)[x] =
          IF incidents[x].inst = i THEN [incidents[x] EXCEPT !.archived = TRUE]
          ELSE incidents[x]
    BY <2>1 DEF MovedToHistory
  <2>4. \A row \in IncidentRow : row.archived => [row EXCEPT !.archived = TRUE] = row
    BY DEF IncidentRow
  <2>5. \A row \in IncidentRow : LET new == [row EXCEPT !.archived = TRUE]
                                 IN new.state = row.state /\ new.inst = row.inst
                                      /\ new.job = row.job
    BY DEF IncidentRow
  <2> QED
    BY <2>1, <2>2, <2>3, <2>4, <2>5
<1> QED
  BY <1>1, <1>2 DEF IncidentsKept

(* The row each statement writes: same instance and place, never absent.   *)
LEMMA RowOpsInPlace ==
  /\ \A job \in JobRow :
       \A row \in {CompletedJob(job), DeadJob(job), ResetJob(job)}
                    \cup {FailedJob(job, b) : b \in BOOLEAN}
                    \cup {Activated(job, w) : w \in Worker \cup {NoWorker}} :
         row.state # "absent" /\ row.inst = job.inst /\ row.node = job.node
  /\ \A task \in TaskRow : \A row \in {CompletedTask(task), CancelledTask(task)} :
       row.state # "absent" /\ row.inst = task.inst /\ row.node = task.node
  /\ \A incident \in IncidentRow :
       LET row == ResolvedIncident(incident)
       IN row.state # "absent" /\ row.inst = incident.inst /\ row.job = incident.job
<1>1. ASSUME NEW job \in JobRow,
             NEW row \in {CompletedJob(job), DeadJob(job), ResetJob(job)}
                           \cup {FailedJob(job, b) : b \in BOOLEAN}
                           \cup {Activated(job, w) : w \in Worker \cup {NoWorker}}
      PROVE  row.state # "absent" /\ row.inst = job.inst /\ row.node = job.node
  BY DEF JobRow, CompletedJob, DeadJob, ResetJob, FailedJob, Activated
<1>2. ASSUME NEW task \in TaskRow, NEW row \in {CompletedTask(task), CancelledTask(task)}
      PROVE  row.state # "absent" /\ row.inst = task.inst /\ row.node = task.node
  BY DEF TaskRow, CompletedTask, CancelledTask
<1>3. ASSUME NEW incident \in IncidentRow
      PROVE  LET row == ResolvedIncident(incident)
             IN row.state # "absent" /\ row.inst = incident.inst /\ row.job = incident.job
  BY DEF IncidentRow, ResolvedIncident
<1> QED
  BY <1>1, <1>2, <1>3

(* What the request of a transaction names.                                *)
LEMMA RequestKeys ==
  ASSUME TypeOK, Consistent, NEW r \in Request
  PROVE  /\ req[r].pc \in {"job_tx", "fail_tx"} =>
              /\ req[r].key \in JobKey /\ req[r].inst \in InstanceKey /\ req[r].at \in Node
              /\ jobs[req[r].key].state # "absent"
              /\ req[r].inst = jobs[req[r].key].inst
         /\ req[r].pc \in {"task_tx", "cancel_tx"} =>
              /\ req[r].key \in TaskKey /\ req[r].inst \in InstanceKey /\ req[r].at \in Node
              /\ tasks[req[r].key].state # "absent"
              /\ req[r].inst = tasks[req[r].key].inst
         /\ req[r].pc = "resolve_tx" =>
              /\ req[r].key \in IncidentKey /\ incidents[req[r].key].state # "absent"
              /\ incidents[req[r].key].job \in JobKey
         /\ req[r].pc \in Resuming \cup Replying => req[r].inst \in InstanceKey
         /\ req[r].pc \in {"job_tx", "task_tx"} => HasNext(req[r].at)
         /\ req[r].pc = "run" => req[r].at \in Node /\ instance[req[r].inst] = "active"
<1>1. req[r].pc \in LoadingJob \cup LoadingTask => req[r].inst \in InstanceKey
  BY LoadedInstance
<1> QED
  BY <1>1 DEF Consistent, RequestOK, RowsOK, WriterOK, LoadingJob, LoadingTask

(* Jobs are kept by every step except that run_step inserts one.           *)
LEMMA JobsEffect ==
  ASSUME TypeOK, Consistent, [Next]_vars
  PROVE  \/ JobsKept(jobs, jobs')
         \/ \E r \in Request : HandleServiceTask(r)
<1> USE DEF Consistent
<1>0. JobsKept(jobs, jobs)
  BY DEF JobsKept
<1>1. CASE UNCHANGED tables
  BY <1>0, <1>1 DEF tables
<1>2. ASSUME NEW r \in Request, Writes(r)
      PROVE  JobsKept(jobs, jobs') \/ HandleServiceTask(r)
  <2> DEFINE k == req[r].key
  <2>1. CASE StartInstance(r) \/ HandleManualTask(r)
    BY <1>0, <2>1 DEF StartInstance, HandleManualTask
  <2>2. CASE HandleGateway(r)
    BY <1>0, <2>2 DEF HandleGateway, Continue, tables
  <2>3. CASE CompleteJobTx(r)
    <3>1. k \in JobKey /\ jobs[k] \in JobRow
      BY <2>3, RequestKeys DEF CompleteJobTx, CompletionTx, TypeOK
    <3>2. jobs' \in {jobs, Updated(jobs, k, CompletedJob(jobs[k]))}
      BY <2>3 DEF CompleteJobTx, CompletionTx
    <3>3. CompletedJob(jobs[k]) \in JobRow
      BY <3>1, UpdatedRows
    <3> QED
      BY <1>0, <3>1, <3>2, <3>3, RowOpsInPlace, JobOpsKeep
  <2>4. CASE CompleteTaskTx(r)
    BY <1>0, <2>4 DEF CompleteTaskTx, CompletionTx
  <2>5. CASE CancelTaskTx(r)
    BY <2>5, RequestKeys, JobOpsKeep DEF CancelTaskTx
  <2>6. CASE FailJobRetry(r)
    <3>1. k \in JobKey /\ jobs[k] \in JobRow
      BY <2>6, RequestKeys DEF FailJobRetry, TypeOK
    <3>2. PICK b \in BOOLEAN : jobs' = Updated(jobs, k, FailedJob(jobs[k], b))
      BY <2>6 DEF FailJobRetry
    <3>3. FailedJob(jobs[k], b) \in JobRow
      BY <3>1, UpdatedRows
    <3> QED
      BY <3>1, <3>2, <3>3, RowOpsInPlace, JobOpsKeep
  <2>7. CASE FailJobDead(r)
    <3>1. k \in JobKey /\ jobs[k] \in JobRow
      BY <2>7, RequestKeys DEF FailJobDead, TypeOK
    <3>2. jobs' = Updated(jobs, k, DeadJob(jobs[k]))
      BY <2>7 DEF FailJobDead
    <3>3. DeadJob(jobs[k]) \in JobRow
      BY <3>1, UpdatedRows
    <3> QED
      BY <3>1, <3>2, <3>3, RowOpsInPlace, JobOpsKeep
  <2>8. CASE ResolveIncidentTx(r)
    <3> DEFINE j == incidents[k].job
    <3>1. j \in JobKey /\ jobs[j] \in JobRow
      BY <2>8, RequestKeys DEF ResolveIncidentTx, TypeOK
    <3>2. jobs' = Updated(jobs, j, ResetJob(jobs[j]))
      BY <2>8 DEF ResolveIncidentTx
    <3>3. ResetJob(jobs[j]) \in JobRow
      BY <3>1, UpdatedRows
    <3> QED
      BY <3>1, <3>2, <3>3, RowOpsInPlace, JobOpsKeep
  <2>9. CASE LockJob(r)
    <3>1. PICK j \in req[r].todo : jobs' = Updated(jobs, j, Activated(jobs[j], req[r].worker))
      BY <2>9 DEF LockJob
    <3>2. j \in JobKey /\ jobs[j] \in JobRow /\ req[r].worker \in Worker \cup {NoWorker}
      BY DEF TypeOK, ReqRecord
    <3>3. Activated(jobs[j], req[r].worker) \in JobRow
      BY <3>2, UpdatedRows
    <3> QED
      BY <3>1, <3>2, <3>3, RowOpsInPlace, JobOpsKeep
  <2>10. CASE HandleEndEvent(r)
    BY <2>10, RequestKeys, JobOpsKeep DEF HandleEndEvent, Dispatches, Resuming
  <2> QED
    BY <1>2, <2>1, <2>2, <2>3, <2>4, <2>5, <2>6, <2>7, <2>8, <2>9, <2>10 DEF Writes
<1>3. ASSUME NEW k \in JobKey, LockExpires(k) \/ RetryDue(k)
      PROVE  JobsKept(jobs, jobs')
  <2>1. Live(jobs[k]) /\ jobs[k] \in JobRow /\ jobs \in [JobKey -> JobRow]
    BY <1>3 DEF LockExpires, RetryDue, TypeOK
  <2>2. \/ jobs' = [jobs EXCEPT ![k].lock = "expired"]
        \/ jobs' = [jobs EXCEPT ![k].due = TRUE]
    BY <1>3 DEF LockExpires, RetryDue
  <2>3. \A row \in JobRow, new \in {[jobs[k] EXCEPT !.lock = "expired"],
                                    [jobs[k] EXCEPT !.due = TRUE]} :
          row = jobs[k] =>
            new.state = row.state /\ new.inst = row.inst /\ new.node = row.node
    BY DEF JobRow
  <2> QED
    BY <2>1, <2>2, <2>3 DEF JobsKept, Live
<1> QED
  BY <1>1, <1>2, <1>3, WritingSteps

(* Manual tasks are kept by every step except that run_step inserts one.   *)
LEMMA TasksEffect ==
  ASSUME TypeOK, Consistent, [Next]_vars
  PROVE  \/ TasksKept(tasks, tasks')
         \/ \E r \in Request : HandleManualTask(r)
<1> USE DEF Consistent
<1>0. TasksKept(tasks, tasks) /\ tasks \in [TaskKey -> TaskRow]
  BY DEF TasksKept, TypeOK
<1>1. CASE UNCHANGED tables
  BY <1>0, <1>1 DEF tables
<1>2. ASSUME NEW r \in Request, Writes(r)
      PROVE  TasksKept(tasks, tasks') \/ HandleManualTask(r)
  <2> DEFINE k == req[r].key
  <2>1. CASE \/ StartInstance(r) \/ HandleServiceTask(r) \/ FailJobRetry(r)
             \/ FailJobDead(r) \/ ResolveIncidentTx(r) \/ LockJob(r)
    BY <1>0, <2>1
       DEF StartInstance, HandleServiceTask, FailJobRetry, FailJobDead,
           ResolveIncidentTx, LockJob
  <2>2. CASE HandleGateway(r)
    BY <1>0, <2>2 DEF HandleGateway, Continue, tables
  <2>3. CASE CompleteTaskTx(r)
    <3>1. k \in TaskKey /\ tasks[k] \in TaskRow
      BY <2>3, RequestKeys DEF CompleteTaskTx, CompletionTx, TypeOK
    <3>2. tasks' \in {tasks, Updated(tasks, k, CompletedTask(tasks[k]))}
      BY <2>3 DEF CompleteTaskTx, CompletionTx
    <3>3. CompletedTask(tasks[k]) \in TaskRow
      BY <3>1, UpdatedRows
    <3> QED
      BY <1>0, <3>1, <3>2, <3>3, RowOpsInPlace, TaskOpsKeep
  <2>4. CASE CompleteJobTx(r)
    BY <1>0, <2>4 DEF CompleteJobTx, CompletionTx
  <2>5. CASE CancelTaskTx(r)
    <3> DEFINE updated == Updated(tasks, k, CancelledTask(tasks[k]))
    <3>1. k \in TaskKey /\ tasks[k] \in TaskRow /\ req[r].inst \in InstanceKey
      BY <2>5, RequestKeys DEF CancelTaskTx, TypeOK
    <3>2. CancelledTask(tasks[k]) \in TaskRow
      BY <3>1, UpdatedRows
    <3>3. updated \in [TaskKey -> TaskRow]
      BY <3>1, <3>2, UpdatedType
    <3>4. TasksKept(tasks, updated)
      BY <1>0, <3>1, <3>2, RowOpsInPlace, TaskOpsKeep
    <3>5. tasks' = MovedToHistory(updated, req[r].inst)
      BY <2>5 DEF CancelTaskTx
    <3> QED
      BY <3>1, <3>3, <3>4, <3>5, TaskOpsKeep
  <2>6. CASE HandleEndEvent(r)
    BY <1>0, <2>6, RequestKeys, TaskOpsKeep DEF HandleEndEvent, Dispatches, Resuming
  <2> QED
    BY <1>2, <2>1, <2>2, <2>3, <2>4, <2>5, <2>6 DEF Writes
<1>3. ASSUME NEW k \in JobKey, LockExpires(k) \/ RetryDue(k)
      PROVE  TasksKept(tasks, tasks')
  BY <1>0, <1>3 DEF LockExpires, RetryDue
<1> QED
  BY <1>1, <1>2, <1>3, WritingSteps

(* Incidents are kept by every step except that fail_job inserts one.      *)
LEMMA IncidentsEffect ==
  ASSUME TypeOK, Consistent, [Next]_vars
  PROVE  \/ IncidentsKept(incidents, incidents')
         \/ \E r \in Request : FailJobDead(r)
<1> USE DEF Consistent
<1>0. IncidentsKept(incidents, incidents)
  BY DEF IncidentsKept
<1>1. CASE UNCHANGED tables
  BY <1>0, <1>1 DEF tables
<1>2. ASSUME NEW r \in Request, Writes(r)
      PROVE  IncidentsKept(incidents, incidents') \/ FailJobDead(r)
  <2> DEFINE x == req[r].key
  <2>1. CASE \/ StartInstance(r) \/ HandleServiceTask(r) \/ HandleManualTask(r)
             \/ FailJobRetry(r) \/ LockJob(r)
    BY <1>0, <2>1
       DEF StartInstance, HandleServiceTask, HandleManualTask, FailJobRetry, LockJob
  <2>2. CASE HandleGateway(r)
    BY <1>0, <2>2 DEF HandleGateway, Continue, tables
  <2>3. CASE CompleteTaskTx(r) \/ CompleteJobTx(r)
    BY <1>0, <2>3 DEF CompleteTaskTx, CompleteJobTx, CompletionTx
  <2>4. CASE ResolveIncidentTx(r)
    <3>1. x \in IncidentKey /\ incidents[x] \in IncidentRow
      BY <2>4, RequestKeys DEF ResolveIncidentTx, TypeOK
    <3>2. ResolvedIncident(incidents[x]) \in IncidentRow
      BY <3>1, UpdatedRows
    <3>3. incidents' = Updated(incidents, x, ResolvedIncident(incidents[x]))
      BY <2>4 DEF ResolveIncidentTx
    <3> QED
      BY <3>1, <3>2, <3>3, RowOpsInPlace, IncidentOpsKeep
  <2>5. CASE CancelTaskTx(r)
    BY <2>5, RequestKeys, IncidentOpsKeep DEF CancelTaskTx, ArchiveInstance
  <2>6. CASE HandleEndEvent(r)
    BY <2>6, RequestKeys, IncidentOpsKeep
       DEF HandleEndEvent, Dispatches, Resuming, ArchiveInstance
  <2> QED
    BY <1>2, <2>1, <2>2, <2>3, <2>4, <2>5, <2>6 DEF Writes
<1>3. ASSUME NEW k \in JobKey, LockExpires(k) \/ RetryDue(k)
      PROVE  IncidentsKept(incidents, incidents')
  BY <1>0, <1>3 DEF LockExpires, RetryDue
<1> QED
  BY <1>1, <1>2, <1>3, WritingSteps

(* A row that exists keeps existing, for the same instance.                *)
LEMMA RowsStay ==
  ASSUME TypeOK, Consistent, [Next]_vars
  PROVE  /\ \A k \in JobKey : jobs[k].state # "absent" =>
              jobs'[k].state # "absent" /\ jobs'[k].inst = jobs[k].inst
         /\ \A k \in TaskKey : tasks[k].state # "absent" =>
              tasks'[k].state # "absent" /\ tasks'[k].inst = tasks[k].inst
         /\ \A x \in IncidentKey : incidents[x].state # "absent" =>
              /\ incidents'[x].state # "absent"
              /\ incidents'[x].inst = incidents[x].inst
              /\ incidents'[x].job = incidents[x].job
<1>1. ASSUME NEW r \in Request, HandleServiceTask(r), NEW k \in JobKey,
             jobs[k].state # "absent"
      PROVE  jobs'[k] = jobs[k]
  BY <1>1 DEF HandleServiceTask, IsNextKey, TypeOK
<1>2. ASSUME NEW r \in Request, HandleManualTask(r), NEW k \in TaskKey,
             tasks[k].state # "absent"
      PROVE  tasks'[k] = tasks[k]
  BY <1>2 DEF HandleManualTask, IsNextKey, TypeOK
<1>3. ASSUME NEW r \in Request, FailJobDead(r), NEW x \in IncidentKey,
             incidents[x].state # "absent"
      PROVE  incidents'[x] = incidents[x]
  BY <1>3 DEF FailJobDead, IsNextKey, TypeOK
<1>4. \A k \in JobKey : jobs[k].state # "absent" =>
        jobs'[k].state # "absent" /\ jobs'[k].inst = jobs[k].inst
  BY <1>1, JobsEffect DEF JobsKept
<1>5. \A k \in TaskKey : tasks[k].state # "absent" =>
        tasks'[k].state # "absent" /\ tasks'[k].inst = tasks[k].inst
  BY <1>2, TasksEffect DEF TasksKept
<1>6. \A x \in IncidentKey : incidents[x].state # "absent" =>
        /\ incidents'[x].state # "absent"
        /\ incidents'[x].inst = incidents[x].inst
        /\ incidents'[x].job = incidents[x].job
  BY <1>3, IncidentsEffect DEF IncidentsKept
<1> QED
  BY <1>4, <1>5, <1>6

(* Every step leaves rows that name what they belong to.                   *)
LEMMA RowsStep ==
  ASSUME TypeOK, Consistent, [Next]_vars
  PROVE  RowsOK'
<1>1. RowsOK
  BY DEF Consistent
<1>2. ASSUME NEW k \in JobKey
      PROVE  IF jobs'[k].state = "absent" THEN jobs'[k] = NoJob
             ELSE jobs'[k].inst \in InstanceKey /\ jobs'[k].node \in Node
  <2>1. CASE JobsKept(jobs, jobs')
    BY <1>1, <2>1 DEF JobsKept, RowsOK
  <2>2. ASSUME NEW r \in Request, HandleServiceTask(r)
        PROVE  IF jobs'[k].state = "absent" THEN jobs'[k] = NoJob
               ELSE jobs'[k].inst \in InstanceKey /\ jobs'[k].node \in Node
    <3>1. req[r].inst \in InstanceKey /\ req[r].at \in Node
      BY <2>2, RequestKeys DEF HandleServiceTask, Dispatches, Resuming
    <3>2. PICK j \in JobKey : jobs' = [jobs EXCEPT ![j] = NewJob(req[r].inst, req[r].at)]
      BY <2>2 DEF HandleServiceTask
    <3>3. jobs'[k] = jobs[k] \/ jobs'[k] = NewJob(req[r].inst, req[r].at)
      BY <3>2 DEF TypeOK
    <3>4. LET new == NewJob(req[r].inst, req[r].at)
          IN new.state # "absent" /\ new.inst = req[r].inst /\ new.node = req[r].at
      BY DEF NewJob, NoJob
    <3> QED
      BY <1>1, <3>1, <3>3, <3>4 DEF RowsOK
  <2> QED
    BY <2>1, <2>2, JobsEffect
<1>3. ASSUME NEW k \in TaskKey
      PROVE  IF tasks'[k].state = "absent" THEN tasks'[k] = NoTask
             ELSE tasks'[k].inst \in InstanceKey /\ tasks'[k].node \in Node
  <2>1. CASE TasksKept(tasks, tasks')
    BY <1>1, <2>1 DEF TasksKept, RowsOK
  <2>2. ASSUME NEW r \in Request, HandleManualTask(r)
        PROVE  IF tasks'[k].state = "absent" THEN tasks'[k] = NoTask
               ELSE tasks'[k].inst \in InstanceKey /\ tasks'[k].node \in Node
    <3>1. req[r].inst \in InstanceKey /\ req[r].at \in Node
      BY <2>2, RequestKeys DEF HandleManualTask, Dispatches, Resuming
    <3>2. PICK j \in TaskKey :
            tasks' = [tasks EXCEPT ![j] = NewTask(req[r].inst, req[r].at)]
      BY <2>2 DEF HandleManualTask
    <3>3. tasks'[k] = tasks[k] \/ tasks'[k] = NewTask(req[r].inst, req[r].at)
      BY <3>2 DEF TypeOK
    <3>4. LET new == NewTask(req[r].inst, req[r].at)
          IN new.state # "absent" /\ new.inst = req[r].inst /\ new.node = req[r].at
      BY DEF NewTask, NoTask
    <3> QED
      BY <1>1, <3>1, <3>3, <3>4 DEF RowsOK
  <2> QED
    BY <2>1, <2>2, TasksEffect
<1>4. ASSUME NEW x \in IncidentKey
      PROVE  IF incidents'[x].state = "absent" THEN incidents'[x] = NoIncident
             ELSE /\ incidents'[x].job \in JobKey
                  /\ jobs'[incidents'[x].job].state # "absent"
                  /\ incidents'[x].inst = jobs'[incidents'[x].job].inst
  <2>1. CASE IncidentsKept(incidents, incidents')
    BY <1>1, <2>1, RowsStay DEF IncidentsKept, RowsOK
  <2>2. ASSUME NEW r \in Request, FailJobDead(r)
        PROVE  IF incidents'[x].state = "absent" THEN incidents'[x] = NoIncident
               ELSE /\ incidents'[x].job \in JobKey
                    /\ jobs'[incidents'[x].job].state # "absent"
                    /\ incidents'[x].inst = jobs'[incidents'[x].job].inst
    <3> DEFINE k == req[r].key
    <3>1. k \in JobKey /\ jobs[k].state # "absent" /\ req[r].inst = jobs[k].inst
      BY <2>2, RequestKeys DEF FailJobDead
    <3>2. PICK y \in IncidentKey :
            incidents' = [incidents EXCEPT ![y] = NewIncident(req[r].inst, k)]
      BY <2>2 DEF FailJobDead
    <3>3. incidents'[x] = incidents[x] \/ incidents'[x] = NewIncident(req[r].inst, k)
      BY <3>2 DEF TypeOK
    <3>4. LET new == NewIncident(req[r].inst, k)
          IN new.state # "absent" /\ new.inst = req[r].inst /\ new.job = k
      BY DEF NewIncident
    <3> QED
      BY <1>1, <3>1, <3>3, <3>4, RowsStay DEF RowsOK
  <2> QED
    BY <2>1, <2>2, IncidentsEffect
<1> QED
  BY <1>2, <1>3, <1>4 DEF RowsOK

(* A step of one request leaves the record of every other one alone.       *)
LEMMA OtherRequests ==
  ASSUME TypeOK, NEW r \in Request, NEW s \in Request, r # s,
         Receive(r) \/ Proceed(r) \/ Abort(r)
  PROVE  req'[s] = req[s]
<1>1. ASSUME Drop({r})
      PROVE  req'[s] = req[s]
  BY <1>1 DEF Drop
<1>2. ASSUME Done(r) \/ (\E pc : Goto(r, pc)) \/ (\E i : Resume(r, i))
      PROVE  req'[s] = req[s]
  BY <1>2 DEF Done, Goto, Resume, TypeOK
<1>3. CASE Receive(r)
  <2>1. CASE ActivateJobs(r)
    <3>1. \E q : req' = [req EXCEPT ![r] = q]
      BY <2>1, Zenon DEF ActivateJobs
    <3> QED
      BY <3>1 DEF TypeOK
  <2>2. CASE StartInstance(r)
    BY <1>2, <2>2 DEF StartInstance
  <2> QED
    BY <1>3, <2>1, <2>2
       DEF Receive, CompleteJob, CompleteTask, CancelTask, FailJob, ResolveIncident, TypeOK
<1>4. CASE RunStep(r)
  <2>1. ASSUME StepFails(r) \/ Commit(r) \/ Park(r)
        PROVE  req'[s] = req[s]
    BY <1>2, <2>1 DEF StepFails, Commit, Park
  <2>2. ASSUME NEW m, Continue(r, m)
        PROVE  req'[s] = req[s]
    BY <2>2 DEF Continue, TypeOK
  <2>3. CASE BeginStep(r)
    BY <2>1, <2>3 DEF BeginStep, TypeOK
  <2> QED
    BY <1>4, <2>1, <2>2, <2>3
       DEF RunStep, HandleStartEvent, HandleGateway, HandleServiceTask, HandleManualTask,
           HandleEndEvent, InputMappingFails, MaxStepsReached
<1>5. CASE Proceed(r)
  <2>1. CASE CompleteJobLoad(r) \/ CompleteJobFind(r) \/ CompleteTaskLoad(r)
               \/ CompleteTaskFind(r) \/ CancelTaskLoad(r) \/ FailJobLoad(r)
               \/ ReadStatus(r) \/ ReadStatusAgain(r)
    BY <1>2, <2>1
       DEF CompleteJobLoad, CompleteJobFind, CompleteTaskLoad, CompleteTaskFind,
           CancelTaskLoad, FailJobLoad, LoadInstance, FindExecution, ReadStatus,
           ReadStatusAgain
  <2>2. CASE CompleteJobTx(r) \/ CompleteTaskTx(r)
    BY <1>2, <2>2 DEF CompleteJobTx, CompleteTaskTx, CompletionTx
  <2>3. CASE CancelTaskTx(r) \/ FailJobRetry(r) \/ FailJobDead(r) \/ ResolveIncidentTx(r)
    BY <1>2, <2>3 DEF CancelTaskTx, FailJobRetry, FailJobDead, ResolveIncidentTx
  <2>4. CASE LockJob(r)
    BY <1>2, <2>4 DEF LockJob, TypeOK
  <2>5. CASE Busy(r) \/ KeysExhausted(r)
    BY <1>1, <2>5 DEF Busy, KeysExhausted
  <2> QED
    BY <1>4, <1>5, <2>1, <2>2, <2>3, <2>4, <2>5 DEF Proceed
<1> QED
  BY <1>1, <1>3, <1>5 DEF Abort

(* A step changes the record of a request by a step of that request only,  *)
(* or ends the request.                                                    *)
LEMMA RequestSteps ==
  ASSUME TypeOK, [Next]_vars, NEW s \in Request
  PROVE  \/ req'[s] = req[s]
         \/ req'[s] = Idle
         \/ Receive(s)
         \/ Proceed(s)
<1>1. ASSUME NEW S, Drop(S)
      PROVE  req'[s] \in {req[s], Idle}
  BY <1>1 DEF Drop
<1>2. CASE Abort(s)
  BY <1>1, <1>2 DEF Abort
<1>3. CASE Crash
  BY <1>1, <1>3 DEF Crash
<1>4. ASSUME NEW k \in JobKey, LockExpires(k) \/ RetryDue(k)
      PROVE  req'[s] = req[s]
  BY <1>4 DEF LockExpires, RetryDue
<1>5. CASE UNCHANGED vars
  BY <1>5 DEF vars
<1> QED
  BY <1>2, <1>3, <1>4, <1>5, OtherRequests DEF Next

(* The start of a request remembers a row that exists.                     *)
LEMMA ReceiveOK ==
  ASSUME TypeOK, Consistent, NEW r \in Request, Receive(r)
  PROVE  RequestOK(r)'
<1>1. CASE StartInstance(r)
  <2>1. PICK i \in InstanceKey : Resume(r, i)
    BY <1>1 DEF StartInstance
  <2>2. req'[r] = [Idle EXCEPT !.pc = "begin", !.inst = i]
    BY <2>1 DEF Resume, TypeOK
  <2> QED
    BY <2>2 DEF RequestOK, Idle, LoadingJob, LoadingTask, Resuming
<1>2. CASE CompleteJob(r) \/ FailJob(r)
  <2>1. PICK k \in JobKey, pc \in {"job_instance", "fail_instance"} :
          /\ JobIsActivated(jobs[k])
          /\ req' = [req EXCEPT ![r] = [Idle EXCEPT !.pc = pc, !.key = k,
                                          !.inst = jobs[k].inst, !.at = jobs[k].node]]
          /\ jobs' = jobs
    BY <1>2 DEF CompleteJob, FailJob, tables
  <2>2. req'[r] = [Idle EXCEPT !.pc = pc, !.key = k, !.inst = jobs[k].inst,
                               !.at = jobs[k].node]
    BY <2>1 DEF TypeOK
  <2>3. jobs[k].state # "absent" /\ jobs[k].node \in Node
    BY <2>1 DEF JobIsActivated, Live, Consistent, RowsOK
  <2>4. /\ req'[r].pc = pc /\ req'[r].key = k /\ req'[r].inst = jobs[k].inst
        /\ req'[r].at = jobs[k].node
    BY <2>2 DEF Idle
  <2> QED
    BY <2>1, <2>3, <2>4 DEF RequestOK, LoadingJob, LoadingTask, Resuming, Replying
<1>3. CASE CompleteTask(r) \/ CancelTask(r)
  <2>1. PICK k \in TaskKey, pc \in {"task_instance", "cancel_instance"} :
          /\ TaskIsOpen(tasks[k])
          /\ req' = [req EXCEPT ![r] = [Idle EXCEPT !.pc = pc, !.key = k,
                                          !.inst = tasks[k].inst, !.at = tasks[k].node]]
          /\ tasks' = tasks
    BY <1>3 DEF CompleteTask, CancelTask, tables
  <2>2. req'[r] = [Idle EXCEPT !.pc = pc, !.key = k, !.inst = tasks[k].inst,
                               !.at = tasks[k].node]
    BY <2>1 DEF TypeOK
  <2>3. tasks[k].state # "absent" /\ tasks[k].node \in Node
    BY <2>1 DEF TaskIsOpen, Live, Consistent, RowsOK
  <2>4. /\ req'[r].pc = pc /\ req'[r].key = k /\ req'[r].inst = tasks[k].inst
        /\ req'[r].at = tasks[k].node
    BY <2>2 DEF Idle
  <2> QED
    BY <2>1, <2>3, <2>4 DEF RequestOK, LoadingJob, LoadingTask, Resuming, Replying
<1>4. CASE ResolveIncident(r)
  <2>1. PICK x \in IncidentKey :
          /\ Live(incidents[x])
          /\ req' = [req EXCEPT ![r] = [Idle EXCEPT !.pc = "resolve_tx", !.key = x,
                                          !.inst = incidents[x].inst]]
          /\ incidents' = incidents
    BY <1>4 DEF ResolveIncident, tables
  <2>2. req'[r] = [Idle EXCEPT !.pc = "resolve_tx", !.key = x, !.inst = incidents[x].inst]
    BY <2>1 DEF TypeOK
  <2>3. req'[r].pc = "resolve_tx" /\ req'[r].key = x
    BY <2>2 DEF Idle
  <2> QED
    BY <2>1, <2>3 DEF RequestOK, Live, LoadingJob, LoadingTask, Resuming, Replying
<1>5. CASE ActivateJobs(r)
  <2>1. PICK w \in Worker : \E S :
          req' = [req EXCEPT ![r] = [Idle EXCEPT !.pc = "lock", !.worker = w, !.todo = S]]
    BY <1>5, Zenon DEF ActivateJobs
  <2>2. \E S : req'[r] = [Idle EXCEPT !.pc = "lock", !.worker = w, !.todo = S]
    BY <2>1 DEF TypeOK
  <2> QED
    BY <2>2 DEF RequestOK, Idle, LoadingJob, LoadingTask, Resuming, Replying
<1> QED
  BY <1>1, <1>2, <1>3, <1>4, <1>5 DEF Receive

(* A request that goes on still names a row that exists.                   *)
LEMMA ProceedOK ==
  ASSUME TypeOK, Consistent, [Next]_vars, NEW r \in Request, Proceed(r)
  PROVE  RequestOK(r)'
<1> DEFINE q == req[r]
<1>0. /\ RequestOK(r)
      /\ q \in ReqRecord
  BY DEF Consistent, TypeOK
<1>1. ASSUME req'[r] = Idle
      PROVE  RequestOK(r)'
  BY <1>1 DEF RequestOK, Idle, LoadingJob, LoadingTask, Resuming, Replying
<1>2. ASSUME Done(r)
      PROVE  RequestOK(r)'
  BY <1>1, <1>2 DEF Done, TypeOK
<1>3. ASSUME NEW i \in InstanceKey, Resume(r, i)
      PROVE  RequestOK(r)'
  <2>1. req'[r] = [Idle EXCEPT !.pc = "begin", !.inst = i]
    BY <1>3 DEF Resume, TypeOK
  <2> QED
    BY <2>1 DEF RequestOK, Idle, LoadingJob, LoadingTask, Resuming
<1>4. ASSUME NEW pc, Goto(r, pc)
      PROVE  /\ req'[r].pc = pc /\ req'[r].key = q.key /\ req'[r].inst = q.inst
             /\ req'[r].at = q.at
  <2>1. req'[r] = [q EXCEPT !.pc = pc]
    BY <1>4 DEF Goto, TypeOK
  <2> QED
    BY <1>0, <2>1 DEF ReqRecord
<1>5. ASSUME NEW here \in LoadingJob \cup LoadingTask,
             NEW next, LoadInstance(r, here, next) \/ FindExecution(r, here, next),
             \/ here \in LoadingJob /\ next \in LoadingJob
             \/ here \in LoadingTask /\ next \in LoadingTask,
             here \in {"job_execution", "task_execution"} => FindExecution(r, here, next),
             here \notin {"job_execution", "task_execution"} => LoadInstance(r, here, next)
      PROVE  RequestOK(r)'
  <2>1. CASE Done(r)
    BY <1>2, <2>1
  <2>2. CASE Goto(r, next) /\ HasNext(q.at)
    <3>1. /\ req'[r].pc = next /\ req'[r].key = q.key /\ req'[r].inst = q.inst
          /\ req'[r].at = q.at /\ q.pc = here
      BY <1>4, <1>5, <2>2 DEF LoadInstance, FindExecution
    <3> QED
      BY <1>0, <1>5, <2>2, <3>1, RowsStay
         DEF RequestOK, LoadingJob, LoadingTask, Resuming, Replying
  <2>3. Done(r) \/ (Goto(r, next) /\ HasNext(q.at))
    BY <1>0, <1>5 DEF LoadInstance, FindExecution, RequestOK
  <2> QED
    BY <2>1, <2>2, <2>3
<1>6. CASE CompleteJobLoad(r) \/ CompleteJobFind(r) \/ CompleteTaskLoad(r)
             \/ CompleteTaskFind(r)
  BY <1>5, <1>6 DEF CompleteJobLoad, CompleteJobFind, CompleteTaskLoad, CompleteTaskFind,
                    LoadingJob, LoadingTask
<1>7. CASE CancelTaskLoad(r) \/ FailJobLoad(r)
  <2>1. CASE Done(r)
    BY <1>2, <2>1
  <2>2. CASE CancelTaskLoad(r) /\ Goto(r, "cancel_tx")
    <3>1. /\ req'[r].pc = "cancel_tx" /\ req'[r].key = q.key /\ req'[r].inst = q.inst
          /\ req'[r].at = q.at /\ q.pc = "cancel_instance"
      BY <1>4, <2>2 DEF CancelTaskLoad
    <3> QED
      BY <1>0, <3>1, RowsStay DEF RequestOK, LoadingJob, LoadingTask, Resuming, Replying
  <2>3. CASE FailJobLoad(r) /\ Goto(r, "fail_tx")
    <3>1. /\ req'[r].pc = "fail_tx" /\ req'[r].key = q.key /\ req'[r].inst = q.inst
          /\ req'[r].at = q.at /\ q.pc = "fail_instance"
      BY <1>4, <2>3 DEF FailJobLoad
    <3> QED
      BY <1>0, <3>1, RowsStay DEF RequestOK, LoadingJob, LoadingTask, Resuming, Replying
  <2> QED
    BY <1>7, <2>1, <2>2, <2>3 DEF CancelTaskLoad, FailJobLoad
<1>8. CASE CompleteJobTx(r) \/ CompleteTaskTx(r)
  <2>1. q.inst \in InstanceKey
    BY <1>8, RequestKeys DEF CompleteJobTx, CompleteTaskTx, CompletionTx
  <2>2. Done(r) \/ Resume(r, q.inst)
    BY <1>8 DEF CompleteJobTx, CompleteTaskTx, CompletionTx
  <2> QED
    BY <1>2, <1>3, <2>1, <2>2
<1>9. CASE CancelTaskTx(r) \/ FailJobRetry(r) \/ FailJobDead(r) \/ ResolveIncidentTx(r)
  BY <1>2, <1>9 DEF CancelTaskTx, FailJobRetry, FailJobDead, ResolveIncidentTx
<1>10. CASE LockJob(r)
  <2>1. CASE Done(r)
    BY <1>2, <2>1
  <2>2. ASSUME NEW S, req' = [req EXCEPT ![r].todo = S], q.pc = "lock"
        PROVE  RequestOK(r)'
    <3>1. req'[r] = [q EXCEPT !.todo = S]
      BY <2>2 DEF TypeOK
    <3>2. req'[r].pc = "lock" /\ req'[r].worker = q.worker
      BY <1>0, <2>2, <3>1 DEF ReqRecord
    <3> QED
      BY <1>0, <2>2, <3>2 DEF RequestOK, LoadingJob, LoadingTask, Resuming, Replying
  <2>3. q.pc = "lock" /\ (Done(r) \/ \E S : req' = [req EXCEPT ![r].todo = S])
    BY <1>10 DEF LockJob
  <2> QED
    BY <2>1, <2>2, <2>3
<1>11. CASE ReadStatus(r) \/ ReadStatusAgain(r)
  <2>1. CASE Done(r)
    BY <1>2, <2>1
  <2>2. ASSUME NEW pc \in {"status_second", "unresolved"}, Goto(r, pc), q.pc \in Replying
        PROVE  RequestOK(r)'
    <3>1. req'[r].pc = pc /\ req'[r].inst = q.inst
      BY <1>4, <2>2
    <3> QED
      BY <1>0, <2>2, <3>1 DEF RequestOK, LoadingJob, LoadingTask, Resuming, Replying
  <2> QED
    BY <1>11, <2>1, <2>2 DEF ReadStatus, ReadStatusAgain, Replying
<1>12. CASE Busy(r) \/ KeysExhausted(r)
  BY <1>1, <1>12 DEF Busy, KeysExhausted, Drop
<1>13. CASE RunStep(r)
  <2>1. CASE StepFails(r)
    BY <1>2, <2>1 DEF StepFails
  <2>2. CASE Commit(r) /\ q.pc = "run"
    <3>1. req'[r].pc = "status" /\ req'[r].inst = q.inst
      BY <1>4, <2>2 DEF Commit
    <3> QED
      BY <1>0, <2>2, <3>1 DEF RequestOK, LoadingJob, LoadingTask, Resuming, Replying
  <2>3. ASSUME NEW m, Continue(r, m), q.pc = "run"
        PROVE  RequestOK(r)'
    <3>1. req'[r] = [q EXCEPT !.at = m, !.steps = q.steps + 1]
      BY <2>3 DEF Continue, TypeOK
    <3>2. req'[r].pc = "run" /\ req'[r].inst = q.inst
      BY <1>0, <2>3, <3>1 DEF ReqRecord
    <3> QED
      BY <1>0, <2>3, <3>2 DEF RequestOK, LoadingJob, LoadingTask, Resuming, Replying
  <2>4. CASE BeginStep(r) /\ ~StepFails(r)
    <3>1. req'[r] = [q EXCEPT !.pc = "run", !.at = token[q.inst]] /\ q.pc = "begin"
      BY <2>4 DEF BeginStep, TypeOK
    <3>2. req'[r].pc = "run" /\ req'[r].inst = q.inst
      BY <1>0, <3>1 DEF ReqRecord
    <3> QED
      BY <1>0, <3>1, <3>2 DEF RequestOK, LoadingJob, LoadingTask, Resuming, Replying
  <2> QED
    BY <1>13, <2>1, <2>2, <2>3, <2>4
       DEF RunStep, BeginStep, HandleStartEvent, HandleGateway, HandleServiceTask,
           HandleManualTask, HandleEndEvent, InputMappingFails, MaxStepsReached,
           Dispatches, Park
<1> QED
  BY <1>6, <1>7, <1>8, <1>9, <1>10, <1>11, <1>12, <1>13 DEF Proceed

(* Every step leaves requests that name existing rows.                     *)
LEMMA RequestsStep ==
  ASSUME TypeOK, Consistent, [Next]_vars
  PROVE  \A s \in Request : RequestOK(s)'
<1> SUFFICES ASSUME NEW s \in Request
             PROVE  RequestOK(s)'
  OBVIOUS
<1>1. CASE req'[s] = req[s]
  BY <1>1, RowsStay DEF Consistent, RequestOK
<1>2. CASE req'[s] = Idle
  BY <1>2 DEF RequestOK, Idle, LoadingJob, LoadingTask, Resuming, Replying
<1> QED
  BY <1>1, <1>2, RequestSteps, ReceiveOK, ProceedOK

(* An instance changes when it is created, or when a cancellation or the   *)
(* end event of the request that works on it ends it.                      *)
LEMMA InstanceSteps ==
  ASSUME TypeOK, Consistent, [Next]_vars, NEW i \in InstanceKey
  PROVE  \/ instance'[i] = instance[i]
         \/ instance[i] = "none" /\ instance'[i] = "active"
         \/ /\ instance[i] = "active"
            /\ \E r \in Request : req[r].inst = i /\ (CancelTaskTx(r) \/ HandleEndEvent(r))
<1>1. CASE UNCHANGED tables
  BY <1>1 DEF tables
<1>2. ASSUME NEW r \in Request, Writes(r)
      PROVE  \/ instance'[i] = instance[i]
             \/ instance[i] = "none" /\ instance'[i] = "active"
             \/ /\ instance[i] = "active" /\ req[r].inst = i
                /\ CancelTaskTx(r) \/ HandleEndEvent(r)
  <2>1. CASE StartInstance(r)
    BY <2>1 DEF StartInstance, TypeOK
  <2>2. CASE HandleGateway(r)
    BY <2>2 DEF HandleGateway, Continue, tables
  <2>3. CASE CancelTaskTx(r) \/ HandleEndEvent(r)
    <3>1. \E status : ArchiveInstance(req[r].inst, status)
      BY <2>3 DEF CancelTaskTx, HandleEndEvent
    <3>2. instance'[i] = instance[i] \/ (req[r].inst = i /\ instance[i] = "active")
      BY <3>1 DEF ArchiveInstance, EndStatus, TypeOK
    <3> QED
      BY <2>3, <3>2
  <2> QED
    BY <1>2, <2>1, <2>2, <2>3
       DEF Writes, CompleteJobTx, CompleteTaskTx, CompletionTx, FailJobRetry, FailJobDead,
           ResolveIncidentTx, LockJob, HandleServiceTask, HandleManualTask
<1>3. ASSUME NEW k \in JobKey, LockExpires(k) \/ RetryDue(k)
      PROVE  instance' = instance
  BY <1>3 DEF LockExpires, RetryDue
<1> QED
  BY <1>1, <1>2, <1>3, WritingSteps

(* The write lock is taken by the begin of run_step only, and a request    *)
(* that holds it keeps it as long as it runs.                              *)
LEMMA WriterKept ==
  ASSUME TypeOK, Consistent, [Next]_vars, NEW s \in Request,
         req[s].pc = "run", req'[s].pc = "run"
  PROVE  writer' = s
<1>1. writer = s
  BY DEF Consistent, WriterOK
<1>2. ASSUME NEW S \in SUBSET Request, Drop(S)
      PROVE  writer' = s
  BY <1>1, <1>2 DEF Drop, Idle
<1>3. ASSUME NEW r \in Request, StepFails(r) \/ Commit(r), req[r].pc = "run"
      PROVE  FALSE
  <2>1. r = s
    BY <1>1, <1>3 DEF Consistent, WriterOK
  <2>2. req'[s] = Idle \/ req'[s] = [req[s] EXCEPT !.pc = "status"]
    BY <1>3, <2>1 DEF StepFails, Done, Commit, Goto, TypeOK
  <2>3. req[s] \in ReqRecord
    BY DEF TypeOK
  <2> QED
    BY <2>2, <2>3 DEF Idle, ReqRecord
<1>4. ASSUME NEW r \in Request, RunStep(r)
      PROVE  writer' = s
  <2>1. CASE BeginStep(r)
    BY <1>1, <2>1, EngineAssumption DEF BeginStep
  <2> QED
    BY <1>1, <1>3, <1>4, <2>1
       DEF RunStep, HandleStartEvent, HandleGateway, HandleServiceTask, HandleManualTask,
           HandleEndEvent, InputMappingFails, MaxStepsReached, Dispatches, Park, Continue
<1>5. ASSUME NEW r \in Request, Receive(r)
      PROVE  writer' = s
  <2>1. CASE ActivateJobs(r)
    BY <1>1, <2>1, Zenon DEF ActivateJobs
  <2> QED
    BY <1>1, <1>5, <2>1
       DEF Receive, StartInstance, CompleteJob, CompleteTask, CancelTask, FailJob,
           ResolveIncident
<1>6. ASSUME NEW r \in Request, Proceed(r)
      PROVE  writer' = s
  <2>1. CASE Busy(r) \/ KeysExhausted(r)
    BY <1>2, <2>1 DEF Busy, KeysExhausted
  <2> QED
    BY <1>1, <1>4, <1>6, <2>1
       DEF Proceed, CompleteJobLoad, CompleteJobFind, CompleteTaskLoad, CompleteTaskFind,
           CancelTaskLoad, FailJobLoad, LoadInstance, FindExecution, ReadStatus,
           ReadStatusAgain, CompleteJobTx, CompleteTaskTx, CompletionTx, CancelTaskTx,
           FailJobRetry, FailJobDead, ResolveIncidentTx, LockJob
<1>7. ASSUME NEW r \in Request, Abort(r)
      PROVE  writer' = s
  BY <1>2, <1>7 DEF Abort
<1>8. CASE Crash
  BY <1>2, <1>8 DEF Crash
<1>9. ASSUME NEW k \in JobKey, LockExpires(k) \/ RetryDue(k)
      PROVE  writer' = s
  BY <1>1, <1>9 DEF LockExpires, RetryDue
<1>10. CASE UNCHANGED vars
  BY <1>1, <1>10 DEF vars
<1> QED
  BY <1>4, <1>5, <1>6, <1>7, <1>8, <1>9, <1>10 DEF Next

(* The instance of a running step stays active until the step itself ends. *)
LEMMA WriterStep ==
  ASSUME TypeOK, Consistent, RuntimeRowsHaveInstance, [Next]_vars
  PROVE  WriterOK'
<1> SUFFICES ASSUME NEW s \in Request, req'[s].pc = "run"
             PROVE  writer' = s /\ req'[s].at \in Node /\ instance'[req'[s].inst] = "active"
  BY DEF WriterOK
<1>1. req[s] \in ReqRecord
  BY DEF TypeOK
<1>2. CASE req[s].pc = "run"
  <2>1. writer = s /\ req[s].inst \in InstanceKey /\ instance[req[s].inst] = "active"
    BY <1>2, RequestKeys DEF Consistent, WriterOK, Resuming
  <2>2. writer' = s
    BY <1>2, WriterKept
  <2>3. req'[s].inst = req[s].inst /\ req'[s].at \in Node
    <3>1. CASE req'[s] = req[s]
      BY <1>2, <3>1 DEF Consistent, WriterOK
    <3>2. CASE \E m \in Node : Continue(s, m)
      <4>1. PICK m \in Node : req'[s] = [req[s] EXCEPT !.at = m, !.steps = req[s].steps + 1]
        BY <3>2 DEF Continue, TypeOK
      <4> QED
        BY <1>1, <4>1 DEF ReqRecord
    <3>3. ~Receive(s)
      <4>1. ~ActivateJobs(s)
        BY <1>2, Zenon DEF ActivateJobs
      <4> QED
        BY <1>2, <4>1
           DEF Receive, StartInstance, CompleteJob, CompleteTask, CancelTask, FailJob,
               ResolveIncident
    <3>4. ASSUME StepFails(s) \/ Commit(s) \/ Drop({s})
          PROVE  FALSE
      <4>1. req'[s] = Idle \/ req'[s] = [req[s] EXCEPT !.pc = "status"]
        BY <3>4 DEF StepFails, Done, Commit, Goto, Drop, TypeOK
      <4> QED
        BY <1>1, <4>1 DEF Idle, ReqRecord
    <3>5. ASSUME RunStep(s)
          PROVE  \E m \in Node : Continue(s, m)
      <4>1. req[s].at \in Node
        BY <1>2 DEF Consistent, WriterOK
      <4>2. GatewayTarget(req[s].at, scope[req[s].inst]) \in Node \cup {NoNode}
        BY <4>1, GatewayTargetType, FlowTargets
      <4>3. CASE HandleStartEvent(s)
        BY <3>4, <4>1, <4>3, FlowTargets DEF HandleStartEvent
      <4>4. CASE HandleGateway(s)
        BY <3>4, <4>2, <4>4 DEF HandleGateway, Park
      <4> QED
        BY <1>2, <3>4, <3>5, <4>3, <4>4
           DEF RunStep, BeginStep, HandleServiceTask, HandleManualTask, HandleEndEvent,
               InputMappingFails, MaxStepsReached, Park
    <3>6. ASSUME Proceed(s)
          PROVE  RunStep(s)
      BY <1>2, <3>4, <3>6
         DEF Proceed, CompleteJobLoad, CompleteJobFind, CompleteTaskLoad, CompleteTaskFind,
             CancelTaskLoad, FailJobLoad, LoadInstance, FindExecution, ReadStatus,
             ReadStatusAgain, CompleteJobTx, CompleteTaskTx, CompletionTx, CancelTaskTx,
             FailJobRetry, FailJobDead, ResolveIncidentTx, LockJob, Busy, KeysExhausted
    <3>7. req'[s] # Idle
      BY DEF Idle
    <3> QED
      BY <3>1, <3>2, <3>3, <3>5, <3>6, <3>7, RequestSteps
  <2>4. ASSUME NEW r \in Request, req[r].inst = req[s].inst,
               CancelTaskTx(r) \/ HandleEndEvent(r)
        PROVE  FALSE
    <3>1. CASE CancelTaskTx(r)
      BY <2>1, <3>1, EngineAssumption DEF CancelTaskTx
    <3>2. CASE HandleEndEvent(r)
      <4>1. writer = r
        BY <3>2 DEF HandleEndEvent, Dispatches, Consistent, WriterOK
      <4>2. req'[s] = [req[s] EXCEPT !.pc = "status"]
        BY <2>1, <3>2, <4>1 DEF HandleEndEvent, Commit, Goto, TypeOK
      <4> QED
        BY <1>1, <4>2 DEF ReqRecord
    <3> QED
      BY <2>4, <3>1, <3>2
  <2>5. instance'[req[s].inst] = "active"
    BY <2>1, <2>4, InstanceSteps
  <2> QED
    BY <2>2, <2>3, <2>5
<1>3. CASE req[s].pc # "run"
  <2>1. BeginStep(s) /\ ~StepFails(s)
    <3>1. req'[s] # req[s] /\ req'[s] # Idle
      BY <1>3 DEF Idle
    <3>2. ~Receive(s)
      <4>1. ~ActivateJobs(s)
        <5>1. ASSUME ActivateJobs(s)
              PROVE  FALSE
          <6>1. \E w, S :
                  req' = [req EXCEPT ![s] = [Idle EXCEPT !.pc = "lock", !.worker = w, !.todo = S]]
            BY <5>1, Zenon DEF ActivateJobs
          <6> QED
            BY <6>1 DEF Idle, TypeOK
        <5> QED
          BY <5>1
      <4>2. ASSUME NEW i, Resume(s, i)
            PROVE  FALSE
        BY <4>2 DEF Resume, Idle, TypeOK
      <4>3. ~StartInstance(s)
        BY <4>2 DEF StartInstance
      <4>4. ASSUME NEW pc, NEW k, NEW i, NEW n, pc # "run",
                   req' = [req EXCEPT ![s] =
                             [Idle EXCEPT !.pc = pc, !.key = k, !.inst = i, !.at = n]]
            PROVE  FALSE
        BY <4>4 DEF Idle, TypeOK
      <4>5. ASSUME CompleteJob(s) \/ FailJob(s)
            PROVE  FALSE
        <5>1. PICK k \in JobKey, pc \in {"job_instance", "fail_instance"} :
                req' = [req EXCEPT ![s] = [Idle EXCEPT !.pc = pc, !.key = k,
                                             !.inst = jobs[k].inst, !.at = jobs[k].node]]
          BY <4>5 DEF CompleteJob, FailJob
        <5>2. pc # "run"
          OBVIOUS
        <5> QED
          BY <4>4, <5>1, <5>2
      <4>6. ASSUME CompleteTask(s) \/ CancelTask(s)
            PROVE  FALSE
        <5>1. PICK k \in TaskKey, pc \in {"task_instance", "cancel_instance"} :
                req' = [req EXCEPT ![s] = [Idle EXCEPT !.pc = pc, !.key = k,
                                             !.inst = tasks[k].inst, !.at = tasks[k].node]]
          BY <4>6 DEF CompleteTask, CancelTask
        <5>2. pc # "run"
          OBVIOUS
        <5> QED
          BY <4>4, <5>1, <5>2
      <4>7. ~ResolveIncident(s)
        BY DEF ResolveIncident, Idle, TypeOK
      <4> QED
        BY <4>1, <4>3, <4>5, <4>6, <4>7 DEF Receive
    <3>3. ASSUME NEW pc, Goto(s, pc), pc # "run"
          PROVE  FALSE
      BY <1>1, <3>3 DEF Goto, ReqRecord, TypeOK
    <3>4. ASSUME Done(s) \/ Drop({s}) \/ StepFails(s)
          PROVE  FALSE
      BY <3>4 DEF Done, Drop, StepFails, Idle, TypeOK
    <3>5. ASSUME NEW i, Resume(s, i)
          PROVE  FALSE
      BY <3>5 DEF Resume, Idle, TypeOK
    <3>6. ~LockJob(s)
      <4>1. ASSUME NEW S, req' = [req EXCEPT ![s].todo = S]
            PROVE  FALSE
        BY <1>1, <1>3, <4>1 DEF ReqRecord, TypeOK
      <4> QED
        BY <3>4, <4>1 DEF LockJob
    <3>7. Proceed(s)
      BY <3>1, <3>2, RequestSteps
    <3>8. RunStep(s)
      BY <3>3, <3>4, <3>5, <3>6, <3>7
         DEF Proceed, CompleteJobLoad, CompleteJobFind, CompleteTaskLoad, CompleteTaskFind,
             CancelTaskLoad, FailJobLoad, LoadInstance, FindExecution, ReadStatus,
             ReadStatusAgain, CompleteJobTx, CompleteTaskTx, CompletionTx, CancelTaskTx,
             FailJobRetry, FailJobDead, ResolveIncidentTx, Busy, KeysExhausted
    <3> QED
      BY <1>3, <3>4, <3>8
         DEF RunStep, HandleStartEvent, HandleGateway, HandleServiceTask, HandleManualTask,
             HandleEndEvent, InputMappingFails, MaxStepsReached, Dispatches
  <2>2. req[s].inst \in InstanceKey
    BY <2>1, RequestKeys DEF BeginStep, Resuming
  <2>3. /\ req' = [req EXCEPT ![s].pc = "run", ![s].at = token[req[s].inst]]
        /\ writer' = s
        /\ instance' = instance
        /\ token[req[s].inst] # NoNode
    BY <2>1 DEF BeginStep, tables
  <2>4. req'[s] = [req[s] EXCEPT !.pc = "run", !.at = token[req[s].inst]]
    BY <2>3 DEF TypeOK
  <2>5. req'[s].at = token[req[s].inst] /\ req'[s].inst = req[s].inst
    BY <1>1, <2>4 DEF ReqRecord
  <2> QED
    BY <2>2, <2>3, <2>5 DEF TypeOK, RuntimeRowsHaveInstance
<1> QED
  BY <1>2, <1>3

-----------------------------------------------------------------------------
(* The safety properties.                                                  *)

(* A live row was live before, or run_step inserted it.                    *)
LEMMA LiveRows ==
  ASSUME TypeOK, Consistent, [Next]_vars
  PROVE  /\ \A k \in JobKey : Live(jobs'[k]) =>
              \/ Live(jobs[k]) /\ jobs'[k].inst = jobs[k].inst
              \/ \E r \in Request :
                   HandleServiceTask(r) /\ jobs'[k] = NewJob(req[r].inst, req[r].at)
         /\ \A k \in TaskKey : Live(tasks'[k]) =>
              \/ Live(tasks[k]) /\ tasks'[k].inst = tasks[k].inst
              \/ \E r \in Request :
                   HandleManualTask(r) /\ tasks'[k] = NewTask(req[r].inst, req[r].at)
<1>1. ASSUME NEW k \in JobKey, Live(jobs'[k])
      PROVE  \/ Live(jobs[k]) /\ jobs'[k].inst = jobs[k].inst
             \/ \E r \in Request :
                  HandleServiceTask(r) /\ jobs'[k] = NewJob(req[r].inst, req[r].at)
  <2>1. CASE JobsKept(jobs, jobs')
    BY <1>1, <2>1 DEF JobsKept, Live
  <2>2. ASSUME NEW r \in Request, HandleServiceTask(r)
        PROVE  jobs'[k] = jobs[k] \/ jobs'[k] = NewJob(req[r].inst, req[r].at)
    BY <2>2 DEF HandleServiceTask, TypeOK
  <2> QED
    BY <1>1, <2>1, <2>2, JobsEffect
<1>2. ASSUME NEW k \in TaskKey, Live(tasks'[k])
      PROVE  \/ Live(tasks[k]) /\ tasks'[k].inst = tasks[k].inst
             \/ \E r \in Request :
                  HandleManualTask(r) /\ tasks'[k] = NewTask(req[r].inst, req[r].at)
  <2>1. CASE TasksKept(tasks, tasks')
    BY <1>2, <2>1 DEF TasksKept, Live
  <2>2. ASSUME NEW r \in Request, HandleManualTask(r)
        PROVE  tasks'[k] = tasks[k] \/ tasks'[k] = NewTask(req[r].inst, req[r].at)
    BY <2>2 DEF HandleManualTask, TypeOK
  <2> QED
    BY <1>2, <2>1, <2>2, TasksEffect
<1> QED
  BY <1>1, <1>2

(* Archiving leaves no live job, no live task and no token of its instance.*)
LEMMA ArchiveLeavesNothing ==
  ASSUME TypeOK, Consistent, NEW r \in Request, CancelTaskTx(r) \/ HandleEndEvent(r)
  PROVE  LET i == req[r].inst
         IN /\ \A k \in JobKey : Live(jobs'[k]) => jobs'[k].inst # i
            /\ \A k \in TaskKey : Live(tasks'[k]) => tasks'[k].inst # i
            /\ token' = [token EXCEPT ![i] = NoNode]
            /\ i \in InstanceKey
<1> DEFINE i == req[r].inst
<1>1. i \in InstanceKey
  BY RequestKeys DEF CancelTaskTx, HandleEndEvent, Dispatches, Resuming
<1>2. jobs' = MovedToHistory(jobs, i)
  BY DEF CancelTaskTx, HandleEndEvent
<1>3. PICK table \in [TaskKey -> TaskRow] : tasks' = MovedToHistory(table, i)
  <2>1. CASE HandleEndEvent(r)
    BY <2>1 DEF HandleEndEvent, TypeOK
  <2>2. CASE CancelTaskTx(r)
    <3>1. req[r].key \in TaskKey /\ tasks[req[r].key] \in TaskRow
      BY <2>2, RequestKeys DEF CancelTaskTx, TypeOK
    <3>2. Updated(tasks, req[r].key, CancelledTask(tasks[req[r].key])) \in [TaskKey -> TaskRow]
      BY <3>1, UpdatedRows, UpdatedType
    <3> QED
      BY <2>2, <3>2 DEF CancelTaskTx
  <2> QED
    BY <2>1, <2>2
<1>4. ASSUME NEW k \in JobKey, Live(jobs'[k])
      PROVE  jobs'[k].inst # i
  <2>1. jobs[k] \in JobRow
    BY DEF TypeOK
  <2>2. jobs'[k] = IF jobs[k].inst = i THEN [jobs[k] EXCEPT !.archived = TRUE] ELSE jobs[k]
    BY <1>2 DEF MovedToHistory, TypeOK
  <2>3. [jobs[k] EXCEPT !.archived = TRUE].archived
    BY <2>1 DEF JobRow
  <2> QED
    BY <1>4, <2>2, <2>3 DEF Live
<1>5. ASSUME NEW k \in TaskKey, Live(tasks'[k])
      PROVE  tasks'[k].inst # i
  <2>1. table[k] \in TaskRow
    OBVIOUS
  <2>2. tasks'[k] = IF table[k].inst = i THEN [table[k] EXCEPT !.archived = TRUE]
                    ELSE table[k]
    BY <1>3 DEF MovedToHistory
  <2>3. [table[k] EXCEPT !.archived = TRUE].archived
    BY <2>1 DEF TaskRow
  <2> QED
    BY <1>5, <2>2, <2>3 DEF Live
<1>6. token' = [token EXCEPT ![i] = NoNode]
  BY DEF CancelTaskTx, HandleEndEvent, ArchiveInstance
<1> QED
  BY <1>1, <1>4, <1>5, <1>6

(* The token of an instance is set when it starts or moves, both of which  *)
(* leave or make the instance active.                                      *)
LEMMA TokenSteps ==
  ASSUME TypeOK, Consistent, RuntimeRowsHaveInstance, [Next]_vars, NEW i \in InstanceKey,
         token'[i] # NoNode
  PROVE  \/ instance[i] = "active"
         \/ instance[i] = "none" /\ instance'[i] = "active"
<1>1. CASE UNCHANGED tables
  BY <1>1 DEF tables, RuntimeRowsHaveInstance
<1>2. ASSUME NEW r \in Request, Writes(r)
      PROVE  \/ instance[i] = "active"
             \/ instance[i] = "none" /\ instance'[i] = "active"
  <2>1. CASE StartInstance(r)
    BY <2>1 DEF StartInstance, TypeOK, RuntimeRowsHaveInstance
  <2>2. CASE token'[i] = token[i]
    BY <2>2 DEF RuntimeRowsHaveInstance
  <2>3. CASE HandleGateway(r) \/ HandleServiceTask(r) \/ HandleManualTask(r)
    <3>1. instance[req[r].inst] = "active"
      BY <2>3, RequestKeys
         DEF HandleGateway, HandleServiceTask, HandleManualTask, Dispatches
    <3>2. token' = token \/ token' = [token EXCEPT ![req[r].inst] = req[r].at]
      BY <2>3 DEF HandleGateway, HandleServiceTask, HandleManualTask, Park, Continue, tables
    <3> QED
      BY <2>2, <3>1, <3>2 DEF TypeOK
  <2>4. CASE CancelTaskTx(r) \/ HandleEndEvent(r)
    <3>1. token' = [token EXCEPT ![req[r].inst] = NoNode]
      BY <2>4, ArchiveLeavesNothing
    <3> QED
      BY <2>2, <3>1 DEF TypeOK
  <2>5. CASE CompleteJobTx(r) \/ CompleteTaskTx(r)
    <3>1. \/ token' = token
          \/ AdvanceTo(req[r].inst, FirstTarget(req[r].at))
      BY <2>5 DEF CompleteJobTx, CompleteTaskTx, CompletionTx
    <3> QED
      BY <2>2, <3>1 DEF AdvanceTo, TypeOK, RuntimeRowsHaveInstance
  <2> QED
    BY <1>2, <2>1, <2>2, <2>3, <2>4, <2>5
       DEF Writes, FailJobRetry, FailJobDead, ResolveIncidentTx, LockJob
<1>3. ASSUME NEW k \in JobKey, LockExpires(k) \/ RetryDue(k)
      PROVE  instance[i] = "active"
  BY <1>3 DEF LockExpires, RetryDue, RuntimeRowsHaveInstance
<1> QED
  BY <1>1, <1>2, <1>3, WritingSteps

(* No step leaves a runtime row without its runtime instance.              *)
LEMMA RuntimeRowsStep ==
  ASSUME TypeOK, Consistent, RuntimeRowsHaveInstance, [Next]_vars
  PROVE  RuntimeRowsHaveInstance'
<1>1. ASSUME NEW i \in InstanceKey,
             \/ instance[i] = "active"
             \/ instance[i] = "none" /\ instance'[i] = "active",
             \/ \E k \in JobKey : Live(jobs'[k]) /\ jobs'[k].inst = i
             \/ \E k \in TaskKey : Live(tasks'[k]) /\ tasks'[k].inst = i
             \/ token'[i] # NoNode
      PROVE  instance'[i] = "active"
  <2>1. ASSUME NEW r \in Request, req[r].inst = i, CancelTaskTx(r) \/ HandleEndEvent(r)
        PROVE  FALSE
    BY <1>1, <2>1, ArchiveLeavesNothing DEF TypeOK
  <2> QED
    BY <1>1, <2>1, InstanceSteps
<1>2. ASSUME NEW r \in Request, HandleServiceTask(r) \/ HandleManualTask(r)
      PROVE  req[r].inst \in InstanceKey /\ instance[req[r].inst] = "active"
  BY <1>2, RequestKeys DEF HandleServiceTask, HandleManualTask, Dispatches, Resuming
<1>3. ASSUME NEW k \in JobKey, Live(jobs'[k])
      PROVE  instance'[jobs'[k].inst] = "active"
  <2>1. CASE Live(jobs[k]) /\ jobs'[k].inst = jobs[k].inst
    <3>1. jobs[k].inst \in InstanceKey /\ instance[jobs[k].inst] = "active"
      BY <2>1 DEF RuntimeRowsHaveInstance, Consistent, RowsOK, Live
    <3> QED
      BY <1>1, <1>3, <2>1, <3>1
  <2>2. ASSUME NEW r \in Request, HandleServiceTask(r),
               jobs'[k] = NewJob(req[r].inst, req[r].at)
        PROVE  instance'[jobs'[k].inst] = "active"
    BY <1>1, <1>2, <1>3, <2>2 DEF NewJob, NoJob
  <2> QED
    BY <1>3, <2>1, <2>2, LiveRows
<1>4. ASSUME NEW k \in TaskKey, Live(tasks'[k])
      PROVE  instance'[tasks'[k].inst] = "active"
  <2>1. CASE Live(tasks[k]) /\ tasks'[k].inst = tasks[k].inst
    <3>1. tasks[k].inst \in InstanceKey /\ instance[tasks[k].inst] = "active"
      BY <2>1 DEF RuntimeRowsHaveInstance, Consistent, RowsOK, Live
    <3> QED
      BY <1>1, <1>4, <2>1, <3>1
  <2>2. ASSUME NEW r \in Request, HandleManualTask(r),
               tasks'[k] = NewTask(req[r].inst, req[r].at)
        PROVE  instance'[tasks'[k].inst] = "active"
    BY <1>1, <1>2, <1>4, <2>2 DEF NewTask, NoTask
  <2> QED
    BY <1>4, <2>1, <2>2, LiveRows
<1>5. ASSUME NEW i \in InstanceKey, token'[i] # NoNode
      PROVE  instance'[i] = "active"
  BY <1>1, <1>5, TokenSteps
<1> QED
  BY <1>3, <1>4, <1>5 DEF RuntimeRowsHaveInstance

(* Only fail_job kills a job.                                              *)
LEMMA DeadBefore ==
  ASSUME TypeOK, Consistent, [Next]_vars, NEW k \in JobKey,
         Live(jobs'[k]), jobs'[k].state = "dead"
  PROVE  \/ Live(jobs[k]) /\ jobs[k].state = "dead"
         \/ \E r \in Request : FailJobDead(r) /\ req[r].key = k
<1>1. CASE jobs'[k] = jobs[k]
  BY <1>1
<1>2. ASSUME NEW row \in JobRow,
             jobs'[k] \in {CompletedJob(row), ResetJob(row)}
                            \cup {FailedJob(row, b) : b \in BOOLEAN}
                            \cup {Activated(row, w) : w \in Worker \cup {NoWorker}}
      PROVE  FALSE
  BY <1>2 DEF JobRow, CompletedJob, ResetJob, FailedJob, Activated
<1>3. ASSUME NEW r \in Request, Writes(r)
      PROVE  \/ Live(jobs[k]) /\ jobs[k].state = "dead"
             \/ FailJobDead(r) /\ req[r].key = k
  <2> DEFINE j == req[r].key
  <2>0. ASSUME NEW l \in JobKey, NEW row, jobs' = Updated(jobs, l, row), jobs'[k] # jobs[k]
        PROVE  l = k /\ jobs'[k] = row
    BY <2>0 DEF Updated, TypeOK
  <2>1. CASE StartInstance(r) \/ HandleManualTask(r) \/ CompleteTaskTx(r)
    BY <1>1, <2>1 DEF StartInstance, HandleManualTask, CompleteTaskTx, CompletionTx
  <2>2. CASE HandleGateway(r)
    BY <1>1, <2>2 DEF HandleGateway, Continue, tables
  <2>3. CASE CompleteJobTx(r)
    <3>1. j \in JobKey /\ jobs[j] \in JobRow
      BY <2>3, RequestKeys DEF CompleteJobTx, CompletionTx, TypeOK
    <3>2. jobs' = jobs \/ jobs' = Updated(jobs, j, CompletedJob(jobs[j]))
      BY <2>3 DEF CompleteJobTx, CompletionTx
    <3> QED
      BY <1>1, <1>2, <2>0, <3>1, <3>2
  <2>4. CASE CancelTaskTx(r) \/ HandleEndEvent(r)
    <3>1. req[r].inst \in InstanceKey /\ jobs' = MovedToHistory(jobs, req[r].inst)
      BY <2>4, ArchiveLeavesNothing DEF CancelTaskTx, HandleEndEvent
    <3>2. jobs'[k] = [jobs[k] EXCEPT !.archived = TRUE] \/ jobs'[k] = jobs[k]
      BY <3>1 DEF MovedToHistory, TypeOK
    <3>3. [jobs[k] EXCEPT !.archived = TRUE].archived
      <4>1. \A row \in JobRow : [row EXCEPT !.archived = TRUE].archived
        BY DEF JobRow
      <4> QED
        BY <4>1 DEF TypeOK
    <3> QED
      BY <1>1, <3>2, <3>3 DEF Live
  <2>5. CASE FailJobRetry(r)
    <3>1. j \in JobKey /\ jobs[j] \in JobRow
      BY <2>5, RequestKeys DEF FailJobRetry, TypeOK
    <3>2. PICK b \in BOOLEAN : jobs' = Updated(jobs, j, FailedJob(jobs[j], b))
      BY <2>5 DEF FailJobRetry
    <3> QED
      BY <1>1, <1>2, <2>0, <3>1, <3>2
  <2>6. CASE FailJobDead(r)
    <3>1. j \in JobKey /\ jobs' = Updated(jobs, j, DeadJob(jobs[j]))
      BY <2>6, RequestKeys DEF FailJobDead
    <3> QED
      BY <1>1, <2>0, <2>6, <3>1
  <2>7. CASE ResolveIncidentTx(r)
    <3> DEFINE l == incidents[j].job
    <3>1. l \in JobKey /\ jobs[l] \in JobRow /\ jobs' = Updated(jobs, l, ResetJob(jobs[l]))
      BY <2>7, RequestKeys DEF ResolveIncidentTx, TypeOK
    <3> QED
      BY <1>1, <1>2, <2>0, <3>1
  <2>8. CASE LockJob(r)
    <3>1. PICK l \in req[r].todo : jobs' = Updated(jobs, l, Activated(jobs[l], req[r].worker))
      BY <2>8 DEF LockJob
    <3>2. l \in JobKey /\ jobs[l] \in JobRow /\ req[r].worker \in Worker \cup {NoWorker}
      BY DEF TypeOK, ReqRecord
    <3> QED
      BY <1>1, <1>2, <2>0, <3>1, <3>2
  <2>9. CASE HandleServiceTask(r)
    <3>1. jobs'[k] = jobs[k] \/ jobs'[k] = NewJob(req[r].inst, req[r].at)
      BY <2>9 DEF HandleServiceTask, TypeOK
    <3> QED
      BY <1>1, <3>1 DEF NewJob, NoJob
  <2> QED
    BY <1>3, <2>1, <2>2, <2>3, <2>4, <2>5, <2>6, <2>7, <2>8, <2>9 DEF Writes
<1>4. ASSUME NEW j \in JobKey, LockExpires(j) \/ RetryDue(j)
      PROVE  Live(jobs[k]) /\ jobs[k].state = "dead"
  <2>1. \A row \in JobRow : \A new \in {[row EXCEPT !.lock = "expired"],
                                        [row EXCEPT !.due = TRUE]} :
          new.state = row.state /\ new.archived = row.archived
    BY DEF JobRow
  <2>2. jobs'[k] \in {jobs[k], [jobs[k] EXCEPT !.lock = "expired"],
                      [jobs[k] EXCEPT !.due = TRUE]}
    BY <1>4 DEF LockExpires, RetryDue, TypeOK
  <2>3. jobs[k] \in JobRow
    BY DEF TypeOK
  <2> QED
    BY <1>1, <2>1, <2>2, <2>3 DEF Live
<1>5. CASE UNCHANGED tables
  BY <1>1, <1>5 DEF tables
<1> QED
  BY <1>3, <1>4, <1>5, WritingSteps

(* An active incident stays, unless it is resolved, which revives its job, *)
(* or archived, which takes its job along.                                 *)
LEMMA IncidentStays ==
  ASSUME TypeOK, Consistent, [Next]_vars, NEW x \in IncidentKey,
         Live(incidents[x]), incidents[x].state = "active",
         Live(jobs'[incidents[x].job]), jobs'[incidents[x].job].state = "dead"
  PROVE  incidents'[x] = incidents[x]
<1> DEFINE k == incidents[x].job
<1>1. /\ k \in JobKey /\ incidents[x].state # "absent"
      /\ incidents[x].inst = jobs[k].inst /\ jobs[k].state # "absent"
  BY DEF Consistent, RowsOK
<1>2. ASSUME NEW r \in Request, Writes(r)
      PROVE  incidents'[x] = incidents[x]
  <2>1. CASE FailJobDead(r)
    BY <1>1, <2>1 DEF FailJobDead, IsNextKey, TypeOK
  <2>2. CASE CancelTaskTx(r) \/ HandleEndEvent(r)
    <3>1. jobs'[k].inst # req[r].inst
      BY <1>1, <2>2, ArchiveLeavesNothing
    <3>2. incidents[x].inst # req[r].inst
      BY <1>1, <3>1, RowsStay
    <3>3. incidents' = MovedToHistory(incidents, req[r].inst)
      BY <2>2 DEF CancelTaskTx, HandleEndEvent, ArchiveInstance
    <3> QED
      BY <3>2, <3>3 DEF MovedToHistory, TypeOK
  <2>3. CASE ResolveIncidentTx(r)
    <3> DEFINE y == req[r].key
    <3>1. /\ y \in IncidentKey
          /\ incidents' = Updated(incidents, y, ResolvedIncident(incidents[y]))
      BY <2>3, RequestKeys DEF ResolveIncidentTx
    <3>2. y # x
      <4>1. ASSUME y = x
            PROVE  FALSE
        <5>1. jobs' = Updated(jobs, k, ResetJob(jobs[k])) /\ jobs[k] \in JobRow
          BY <1>1, <2>3, <4>1 DEF ResolveIncidentTx, TypeOK
        <5>2. Live(jobs[k])
          BY <1>1, <5>1 DEF Updated
        <5>3. jobs'[k] = ResetJob(jobs[k])
          BY <1>1, <5>1, <5>2 DEF Updated, TypeOK
        <5>4. ResetJob(jobs[k]).state = "activatable"
          <6>1. \A row \in JobRow : ResetJob(row).state = "activatable"
            BY DEF ResetJob, JobRow
          <6> QED
            BY <5>1, <6>1
        <5> QED
          BY <5>3, <5>4
      <4> QED
        BY <4>1
    <3> QED
      BY <3>1, <3>2 DEF Updated, TypeOK
  <2>4. CASE HandleGateway(r)
    BY <2>4 DEF HandleGateway, Continue, tables
  <2> QED
    BY <1>2, <2>1, <2>2, <2>3, <2>4
       DEF Writes, StartInstance, CompleteJobTx, CompleteTaskTx, CompletionTx,
           FailJobRetry, LockJob, HandleServiceTask, HandleManualTask
<1>3. ASSUME NEW j \in JobKey, LockExpires(j) \/ RetryDue(j)
      PROVE  incidents'[x] = incidents[x]
  BY <1>3 DEF LockExpires, RetryDue
<1>4. CASE UNCHANGED tables
  BY <1>4 DEF tables
<1> QED
  BY <1>2, <1>3, <1>4, WritingSteps

(* No step leaves a dead job without an active incident.                   *)
LEMMA DeadJobStep ==
  ASSUME TypeOK, Consistent, DeadJobHasIncident, [Next]_vars
  PROVE  DeadJobHasIncident'
<1> SUFFICES ASSUME NEW k \in JobKey, Live(jobs'[k]), jobs'[k].state = "dead"
             PROVE  \E x \in IncidentKey :
                      /\ Live(incidents'[x])
                      /\ incidents'[x].state = "active"
                      /\ incidents'[x].job = k
  BY DEF DeadJobHasIncident
<1>1. CASE Live(jobs[k]) /\ jobs[k].state = "dead"
  <2>1. PICK x \in IncidentKey :
          Live(incidents[x]) /\ incidents[x].state = "active" /\ incidents[x].job = k
    BY <1>1 DEF DeadJobHasIncident
  <2>2. incidents'[x] = incidents[x]
    BY <2>1, IncidentStays
  <2> QED
    BY <2>1, <2>2
<1>2. ASSUME NEW r \in Request, FailJobDead(r), req[r].key = k
      PROVE  \E x \in IncidentKey :
               /\ Live(incidents'[x])
               /\ incidents'[x].state = "active"
               /\ incidents'[x].job = k
  <2>1. PICK x \in IncidentKey :
          incidents' = [incidents EXCEPT ![x] = NewIncident(req[r].inst, k)]
    BY <1>2 DEF FailJobDead
  <2>2. incidents'[x] = NewIncident(req[r].inst, k)
    BY <2>1 DEF TypeOK
  <2> QED
    BY <2>2 DEF NewIncident, Live
<1> QED
  BY <1>1, <1>2, DeadBefore

(* An empty database with no request in flight satisfies the invariant.    *)
LEMMA InitOK ==
  ASSUME Init
  PROVE  IInv
<1>1. TypeOK
  <2>1. EmptyScope \in Scope
    BY DEF EmptyScope, Scope
  <2> QED
    BY <2>1, InsertedRows, ReqTypes DEF Init, TypeOK
<1>2. Consistent
  <2>1. RowsOK
    BY DEF Init, RowsOK, NoJob, NoTask, NoIncident
  <2>2. \A r \in Request : req[r].pc = "idle"
    BY DEF Init, Idle
  <2>3. (\A r \in Request : RequestOK(r)) /\ WriterOK
    BY <2>2 DEF RequestOK, WriterOK, LoadingJob, LoadingTask, Resuming, Replying
  <2> QED
    BY <2>1, <2>3 DEF Consistent
<1>3. RuntimeRowsHaveInstance
  BY DEF Init, RuntimeRowsHaveInstance, Live, NoJob, NoTask
<1>4. DeadJobHasIncident
  BY DEF Init, DeadJobHasIncident, Live, NoJob
<1> QED
  BY <1>1, <1>2, <1>3, <1>4 DEF IInv

LEMMA IInvStep ==
  ASSUME IInv, [Next]_vars
  PROVE  IInv'
<1>1. TypeOK'
  BY TypeStep DEF IInv
<1>2. Consistent'
  BY RowsStep, RequestsStep, WriterStep DEF IInv, Consistent
<1>3. RuntimeRowsHaveInstance'
  BY RuntimeRowsStep DEF IInv
<1>4. DeadJobHasIncident'
  BY DeadJobStep DEF IInv
<1> QED
  BY <1>1, <1>2, <1>3, <1>4 DEF IInv

(* IInv holds in every state the engine reaches, however requests overlap, *)
(* fail, are dropped or crash.                                             *)
THEOREM InductiveInvariant == Spec => []IInv
<1>1. Init => IInv
  BY InitOK
<1>2. IInv /\ [Next]_vars => IInv'
  BY IInvStep
<1> QED
  BY <1>1, <1>2, PTL DEF Spec

(* Every table and every request keeps its shape.                          *)
THEOREM TypeCorrect == Spec => []TypeOK
<1>1. IInv => TypeOK
  BY DEF IInv
<1> QED
  BY <1>1, InductiveInvariant, PTL

(* A job, a manual task or an execution in the runtime tables belongs to   *)
(* an active instance: no request parks work for an instance that another  *)
(* request archived (run.rs, manual_tasks.rs, history.rs).                 *)
THEOREM NoOrphans == Spec => []RuntimeRowsHaveInstance
<1>1. IInv => RuntimeRowsHaveInstance
  BY DEF IInv
<1> QED
  BY <1>1, InductiveInvariant, PTL

(* A job that ran out of retries can always be found and resolved through  *)
(* an active incident (jobs.rs fail_job, resolve_incident).                *)
THEOREM DeadJobsAreVisible == Spec => []DeadJobHasIncident
<1>1. IInv => DeadJobHasIncident
  BY DEF IInv
<1> QED
  BY <1>1, InductiveInvariant, PTL

(* No step changes the outcome of an ended instance or a row in history,   *)
(* although completions, failures and resolutions write rows they read     *)
(* before another request archived them (history.rs).                      *)
THEOREM HistoryIsFinal == Spec => ArchiveIsFinal
<1> DEFINE Kept == /\ \A i \in InstanceKey : Ended(i) => instance'[i] = instance[i]
                   /\ \A k \in JobKey : jobs[k].archived => jobs'[k] = jobs[k]
                   /\ \A k \in TaskKey : tasks[k].archived => tasks'[k] = tasks[k]
                   /\ \A k \in IncidentKey :
                        incidents[k].archived => incidents'[k] = incidents[k]
<1>1. IInv /\ [Next]_vars => [Kept]_vars
  <2> SUFFICES ASSUME IInv, [Next]_vars
               PROVE  Kept
    OBVIOUS
  <2>1. TypeOK /\ Consistent
    BY DEF IInv
  <2>2. ASSUME NEW i \in InstanceKey, Ended(i)
        PROVE  instance'[i] = instance[i]
    BY <2>1, <2>2, InstanceSteps DEF Ended
  <2>3. ASSUME NEW k \in JobKey, jobs[k].archived
        PROVE  jobs'[k] = jobs[k]
    <3>1. jobs[k].state # "absent"
      BY <2>1, <2>3 DEF Consistent, RowsOK, NoJob
    <3>2. ASSUME NEW r \in Request, HandleServiceTask(r)
          PROVE  jobs'[k] = jobs[k]
      BY <2>1, <3>1, <3>2 DEF HandleServiceTask, IsNextKey, TypeOK
    <3> QED
      BY <2>1, <2>3, <3>2, JobsEffect DEF JobsKept
  <2>4. ASSUME NEW k \in TaskKey, tasks[k].archived
        PROVE  tasks'[k] = tasks[k]
    <3>1. tasks[k].state # "absent"
      BY <2>1, <2>4 DEF Consistent, RowsOK, NoTask
    <3>2. ASSUME NEW r \in Request, HandleManualTask(r)
          PROVE  tasks'[k] = tasks[k]
      BY <2>1, <3>1, <3>2 DEF HandleManualTask, IsNextKey, TypeOK
    <3> QED
      BY <2>1, <2>4, <3>2, TasksEffect DEF TasksKept
  <2>5. ASSUME NEW x \in IncidentKey, incidents[x].archived
        PROVE  incidents'[x] = incidents[x]
    <3>1. incidents[x].state # "absent"
      BY <2>1, <2>5 DEF Consistent, RowsOK, NoIncident
    <3>2. ASSUME NEW r \in Request, FailJobDead(r)
          PROVE  incidents'[x] = incidents[x]
      BY <2>1, <3>1, <3>2 DEF FailJobDead, IsNextKey, TypeOK
    <3> QED
      BY <2>1, <2>5, <3>2, IncidentsEffect DEF IncidentsKept
  <2> QED
    BY <2>2, <2>3, <2>4, <2>5
<1> QED
  BY <1>1, InductiveInvariant, PTL DEF Spec, ArchiveIsFinal

-----------------------------------------------------------------------------
(* The audit log.                                                          *)

(* A terminal event is written with the end of its instance only.          *)
LEMMA AuditSteps ==
  ASSUME TypeOK, Consistent, [Next]_vars, NEW i \in InstanceKey
  PROVE  \/ /\ audit'[i] = audit[i]
            /\ \/ instance'[i] = instance[i]
               \/ instance[i] = "none" /\ instance'[i] = "active"
         \/ \E r \in Request, status \in {"completed", "cancelled"} :
              /\ req[r].inst = i
              /\ CancelTaskTx(r) \/ HandleEndEvent(r)
              /\ instance'[i] = EndStatus(instance[i], status)
              /\ audit'[i] = audit[i] \cup {status}
<1>1. CASE UNCHANGED tables
  BY <1>1 DEF tables
<1>2. ASSUME NEW r \in Request, Writes(r)
      PROVE  \/ /\ audit'[i] = audit[i]
                /\ \/ instance'[i] = instance[i]
                   \/ instance[i] = "none" /\ instance'[i] = "active"
             \/ \E status \in {"completed", "cancelled"} :
                  /\ req[r].inst = i
                  /\ CancelTaskTx(r) \/ HandleEndEvent(r)
                  /\ instance'[i] = EndStatus(instance[i], status)
                  /\ audit'[i] = audit[i] \cup {status}
  <2>1. CASE StartInstance(r)
    BY <2>1 DEF StartInstance, TypeOK
  <2>2. CASE HandleGateway(r)
    BY <2>2 DEF HandleGateway, Continue, tables
  <2>3. CASE CancelTaskTx(r) \/ HandleEndEvent(r)
    <3>1. PICK status \in {"completed", "cancelled"} :
            /\ ArchiveInstance(req[r].inst, status)
            /\ audit' = [audit EXCEPT ![req[r].inst] = @ \cup {status}]
      BY <2>3 DEF CancelTaskTx, HandleEndEvent
    <3>2. CASE req[r].inst = i
      BY <2>3, <3>1, <3>2 DEF ArchiveInstance, TypeOK
    <3>3. CASE req[r].inst # i
      BY <3>1, <3>3 DEF ArchiveInstance, TypeOK
    <3> QED
      BY <3>2, <3>3
  <2> QED
    BY <1>2, <2>1, <2>2, <2>3
       DEF Writes, CompleteJobTx, CompleteTaskTx, CompletionTx, FailJobRetry, FailJobDead,
           ResolveIncidentTx, LockJob, HandleServiceTask, HandleManualTask
<1>3. ASSUME NEW k \in JobKey, LockExpires(k) \/ RetryDue(k)
      PROVE  audit' = audit /\ instance' = instance
  BY <1>3 DEF LockExpires, RetryDue
<1> QED
  BY <1>1, <1>2, <1>3, WritingSteps

(* Jobs and manual tasks were inserted for an instance that had been       *)
(* started.                                                                *)
WorkHasInstance ==
  /\ \A k \in JobKey : jobs[k].state # "absent" => instance[jobs[k].inst] # "none"
  /\ \A k \in TaskKey : tasks[k].state # "absent" => instance[tasks[k].inst] # "none"

(* An instance that was started stays started, one that ended stays ended. *)
LEMMA InstanceStays ==
  ASSUME TypeOK, Consistent, [Next]_vars, NEW i \in InstanceKey
  PROVE  /\ instance[i] # "none" => instance'[i] # "none"
         /\ Ended(i) => Ended(i)'
<1>1. ASSUME NEW status \in {"completed", "cancelled"}
      PROVE  EndStatus(instance[i], status)
               = IF instance[i] = "active" THEN status ELSE instance[i]
  BY DEF EndStatus
<1> QED
  BY <1>1, AuditSteps DEF Ended

(* run_step inserts work for the active instance it runs.                  *)
LEMMA WorkHasInstanceStep ==
  ASSUME TypeOK, Consistent, WorkHasInstance, [Next]_vars
  PROVE  WorkHasInstance'
<1>1. RowsOK
  BY DEF Consistent
<1>2. ASSUME NEW r \in Request, HandleServiceTask(r) \/ HandleManualTask(r)
      PROVE  req[r].inst \in InstanceKey /\ instance'[req[r].inst] # "none"
  <2>1. req[r].inst \in InstanceKey /\ instance[req[r].inst] = "active"
    BY <1>2, RequestKeys DEF HandleServiceTask, HandleManualTask, Dispatches, Resuming
  <2> QED
    BY <2>1, InstanceStays
<1>3. ASSUME NEW k \in JobKey, jobs'[k].state # "absent"
      PROVE  instance'[jobs'[k].inst] # "none"
  <2>1. CASE jobs[k].state # "absent"
    <3>1. jobs[k].inst \in InstanceKey /\ instance[jobs[k].inst] # "none"
      BY <1>1, <2>1 DEF RowsOK, WorkHasInstance
    <3>2. jobs'[k].inst = jobs[k].inst
      BY <2>1, RowsStay
    <3> QED
      BY <3>1, <3>2, InstanceStays
  <2>2. CASE jobs[k].state = "absent"
    <3>1. PICK r \in Request : HandleServiceTask(r)
      BY <1>3, <2>2, JobsEffect DEF JobsKept
    <3>2. jobs'[k] = NewJob(req[r].inst, req[r].at)
      BY <1>3, <2>2, <3>1 DEF HandleServiceTask, TypeOK
    <3>3. jobs'[k].inst = req[r].inst
      BY <3>2 DEF NewJob, NoJob
    <3> QED
      BY <1>2, <3>1, <3>3
  <2> QED
    BY <2>1, <2>2
<1>4. ASSUME NEW k \in TaskKey, tasks'[k].state # "absent"
      PROVE  instance'[tasks'[k].inst] # "none"
  <2>1. CASE tasks[k].state # "absent"
    <3>1. tasks[k].inst \in InstanceKey /\ instance[tasks[k].inst] # "none"
      BY <1>1, <2>1 DEF RowsOK, WorkHasInstance
    <3>2. tasks'[k].inst = tasks[k].inst
      BY <2>1, RowsStay
    <3> QED
      BY <3>1, <3>2, InstanceStays
  <2>2. CASE tasks[k].state = "absent"
    <3>1. PICK r \in Request : HandleManualTask(r)
      BY <1>4, <2>2, TasksEffect DEF TasksKept
    <3>2. tasks'[k] = NewTask(req[r].inst, req[r].at)
      BY <1>4, <2>2, <3>1 DEF HandleManualTask, TypeOK
    <3>3. tasks'[k].inst = req[r].inst
      BY <3>2 DEF NewTask, NoTask
    <3> QED
      BY <1>2, <3>1, <3>3
  <2> QED
    BY <2>1, <2>2
<1> QED
  BY <1>3, <1>4 DEF WorkHasInstance

(* The audit log tells how every instance ended: a completion and a        *)
(* cancellation that race leave the event of the one that came first       *)
(* (events.rs 110-120, manual_tasks.rs 161-172).                           *)
THEOREM AuditIsRight == Spec => []AuditTellsTheEnd
<1> DEFINE Inv == WorkHasInstance /\ AuditTellsTheEnd
<1>1. Init => Inv
  BY DEF Init, NoJob, NoTask, WorkHasInstance, AuditTellsTheEnd, Ended
<1>2. IInv /\ Inv /\ [Next]_vars => Inv'
  <2> SUFFICES ASSUME IInv, Inv, [Next]_vars
               PROVE  Inv'
    OBVIOUS
  <2>1. TypeOK /\ Consistent
    BY DEF IInv
  <2>2. ASSUME NEW r \in Request, CancelTaskTx(r) \/ HandleEndEvent(r)
        PROVE  instance[req[r].inst] # "none"
    <3>1. CASE CancelTaskTx(r)
      BY <2>1, <3>1, RequestKeys DEF CancelTaskTx, WorkHasInstance
    <3>2. CASE HandleEndEvent(r)
      BY <2>1, <3>2, RequestKeys DEF HandleEndEvent, Dispatches
    <3> QED
      BY <2>2, <3>1, <3>2
  <2>3. WorkHasInstance'
    BY <2>1, WorkHasInstanceStep
  <2>4. AuditTellsTheEnd'
    <3> SUFFICES ASSUME NEW i \in InstanceKey
                 PROVE  IF Ended(i)' THEN instance'[i] \in audit'[i] ELSE audit'[i] = {}
      BY DEF AuditTellsTheEnd
    <3>1. IF Ended(i) THEN instance[i] \in audit[i] ELSE audit[i] = {}
      BY DEF AuditTellsTheEnd
    <3>2. instance[i] \in {"none", "active", "completed", "cancelled"}
      BY <2>1 DEF TypeOK
    <3> QED
      BY <2>1, <2>2, <3>1, <3>2, AuditSteps DEF Ended, EndStatus
  <2> QED
    BY <2>3, <2>4
<1>3. Inv => AuditTellsTheEnd
  OBVIOUS
<1> QED
  BY <1>1, <1>2, <1>3, InductiveInvariant, PTL DEF Spec

-----------------------------------------------------------------------------
(* The status a request answers with.                                      *)

(* A request that runs or reports an instance was given one that exists,   *)
(* and looks into the history only for an instance that is there.          *)
AnswerOK(r) ==
  /\ req[r].pc \in Resuming \cup Replying => instance[req[r].inst] # "none"
  /\ req[r].pc = "status_second" => Ended(req[r].inst)
  /\ req[r].pc # "unresolved"

LEMMA ReceiveAnswer ==
  ASSUME TypeOK, NEW r \in Request, Receive(r)
  PROVE  AnswerOK(r)'
<1>1. CASE StartInstance(r)
  <2>1. PICK i \in InstanceKey : Resume(r, i) /\ instance' = [instance EXCEPT ![i] = "active"]
    BY <1>1 DEF StartInstance
  <2>2. req'[r] = [Idle EXCEPT !.pc = "begin", !.inst = i] /\ instance'[i] = "active"
    BY <2>1 DEF Resume, TypeOK
  <2>3. req'[r].pc = "begin" /\ req'[r].inst = i
    BY <2>2 DEF Idle
  <2> QED
    BY <2>2, <2>3 DEF AnswerOK
<1>2. ASSUME req'[r].pc \in {"job_instance", "task_instance", "cancel_instance",
                             "fail_instance", "resolve_tx", "lock"}
      PROVE  AnswerOK(r)'
  BY <1>2 DEF AnswerOK, Resuming, Replying
<1>3. CASE CompleteJob(r) \/ FailJob(r)
  <2>1. PICK k \in JobKey, pc \in {"job_instance", "fail_instance"} :
          req' = [req EXCEPT ![r] = [Idle EXCEPT !.pc = pc, !.key = k,
                                       !.inst = jobs[k].inst, !.at = jobs[k].node]]
    BY <1>3 DEF CompleteJob, FailJob
  <2> QED
    BY <1>2, <2>1 DEF TypeOK, Idle
<1>4. CASE CompleteTask(r) \/ CancelTask(r)
  <2>1. PICK k \in TaskKey, pc \in {"task_instance", "cancel_instance"} :
          req' = [req EXCEPT ![r] = [Idle EXCEPT !.pc = pc, !.key = k,
                                       !.inst = tasks[k].inst, !.at = tasks[k].node]]
    BY <1>4 DEF CompleteTask, CancelTask
  <2> QED
    BY <1>2, <2>1 DEF TypeOK, Idle
<1>5. CASE ResolveIncident(r)
  BY <1>2, <1>5 DEF ResolveIncident, TypeOK, Idle
<1>6. CASE ActivateJobs(r)
  <2>1. \E w, S :
          req' = [req EXCEPT ![r] = [Idle EXCEPT !.pc = "lock", !.worker = w, !.todo = S]]
    BY <1>6, Zenon DEF ActivateJobs
  <2> QED
    BY <1>2, <2>1 DEF TypeOK, Idle
<1> QED
  BY <1>1, <1>3, <1>4, <1>5, <1>6 DEF Receive

LEMMA ProceedAnswer ==
  ASSUME TypeOK, Consistent, WorkHasInstance, [Next]_vars,
         NEW r \in Request, AnswerOK(r), Proceed(r)
  PROVE  AnswerOK(r)'
<1> DEFINE q == req[r]
<1>0. q \in ReqRecord
  BY DEF TypeOK
<1>1. ASSUME req'[r] = Idle \/ req'[r].pc \in LoadingJob \cup LoadingTask \cup {"lock"}
      PROVE  AnswerOK(r)'
  BY <1>1 DEF AnswerOK, Idle, LoadingJob, LoadingTask, Resuming, Replying
<1>2. ASSUME Done(r)
      PROVE  AnswerOK(r)'
  BY <1>1, <1>2 DEF Done, TypeOK
<1>3. ASSUME NEW pc, Goto(r, pc)
      PROVE  req'[r].pc = pc /\ req'[r].inst = q.inst
  <2>1. req'[r] = [q EXCEPT !.pc = pc]
    BY <1>3 DEF Goto, TypeOK
  <2> QED
    BY <1>0, <2>1 DEF ReqRecord
<1>4. q.pc \in Resuming \cup Replying =>
        q.inst \in InstanceKey /\ instance'[q.inst] # "none"
  BY RequestKeys, InstanceStays DEF AnswerOK
<1>5. ASSUME NEW next \in LoadingJob \cup LoadingTask, Done(r) \/ Goto(r, next)
      PROVE  AnswerOK(r)'
  BY <1>1, <1>2, <1>3, <1>5
<1>6. CASE CompleteJobLoad(r) \/ CompleteJobFind(r) \/ CompleteTaskLoad(r)
             \/ CompleteTaskFind(r) \/ CancelTaskLoad(r) \/ FailJobLoad(r)
  BY <1>5, <1>6 DEF CompleteJobLoad, CompleteJobFind, CompleteTaskLoad, CompleteTaskFind,
                    CancelTaskLoad, FailJobLoad, LoadInstance, FindExecution,
                    LoadingJob, LoadingTask
<1>7. CASE CompleteJobTx(r) \/ CompleteTaskTx(r)
  <2>1. q.inst \in InstanceKey /\ instance[q.inst] # "none"
    BY <1>7, RequestKeys DEF CompleteJobTx, CompleteTaskTx, CompletionTx, WorkHasInstance
  <2>2. instance'[q.inst] # "none"
    BY <2>1, InstanceStays
  <2>3. CASE Resume(r, q.inst)
    <3>1. req'[r] = [Idle EXCEPT !.pc = "begin", !.inst = q.inst]
      BY <2>3 DEF Resume, TypeOK
    <3>2. req'[r].pc = "begin" /\ req'[r].inst = q.inst
      BY <3>1 DEF Idle
    <3> QED
      BY <2>2, <3>2 DEF AnswerOK
  <2>4. Done(r) \/ Resume(r, q.inst)
    BY <1>7 DEF CompleteJobTx, CompleteTaskTx, CompletionTx
  <2> QED
    BY <1>2, <2>3, <2>4
<1>8. CASE CancelTaskTx(r) \/ FailJobRetry(r) \/ FailJobDead(r) \/ ResolveIncidentTx(r)
  BY <1>2, <1>8 DEF CancelTaskTx, FailJobRetry, FailJobDead, ResolveIncidentTx
<1>9. CASE LockJob(r)
  <2>1. ASSUME NEW S, req' = [req EXCEPT ![r].todo = S], q.pc = "lock"
        PROVE  AnswerOK(r)'
    <3>1. req'[r] = [q EXCEPT !.todo = S]
      BY <2>1 DEF TypeOK
    <3>2. req'[r].pc = "lock"
      BY <1>0, <2>1, <3>1 DEF ReqRecord
    <3> QED
      BY <1>1, <3>2
  <2>2. q.pc = "lock" /\ (Done(r) \/ \E S : req' = [req EXCEPT ![r].todo = S])
    BY <1>9 DEF LockJob
  <2> QED
    BY <1>2, <2>1, <2>2
<1>10. CASE ReadStatus(r)
  <2>1. q.inst \in InstanceKey /\ instance' = instance /\ q.pc = "status"
    BY <1>10, RequestKeys DEF ReadStatus, tables, Replying
  <2>2. CASE Goto(r, "status_second") /\ instance[q.inst] # "active"
    <3>1. Ended(q.inst) /\ instance[q.inst] # "none"
      BY <2>1, <2>2 DEF AnswerOK, Replying, Ended, TypeOK
    <3>2. req'[r].pc = "status_second" /\ req'[r].inst = q.inst
      BY <1>3, <2>2
    <3> QED
      BY <2>1, <3>1, <3>2 DEF AnswerOK, Ended
  <2>3. Done(r) \/ (Goto(r, "status_second") /\ instance[q.inst] # "active")
    BY <1>10 DEF ReadStatus, Found, LookupOrder
  <2> QED
    BY <1>2, <2>2, <2>3
<1>11. CASE ReadStatusAgain(r)
  BY <1>2, <1>11 DEF ReadStatusAgain, Found, LookupOrder, AnswerOK, Ended
<1>12. CASE Busy(r) \/ KeysExhausted(r)
  BY <1>1, <1>12 DEF Busy, KeysExhausted, Drop
<1>13. CASE RunStep(r)
  <2>1. CASE StepFails(r)
    BY <1>2, <2>1 DEF StepFails
  <2>2. ASSUME q.pc \in Resuming, req'[r].pc \in {"run", "status"}, req'[r].inst = q.inst
        PROVE  AnswerOK(r)'
    BY <1>4, <2>2 DEF AnswerOK
  <2>3. CASE Commit(r) /\ q.pc = "run"
    BY <1>3, <2>2, <2>3 DEF Commit, Resuming
  <2>4. ASSUME NEW m, Continue(r, m), q.pc = "run"
        PROVE  AnswerOK(r)'
    <3>1. req'[r] = [q EXCEPT !.at = m, !.steps = q.steps + 1]
      BY <2>4 DEF Continue, TypeOK
    <3>2. req'[r].pc = "run" /\ req'[r].inst = q.inst
      BY <1>0, <2>4, <3>1 DEF ReqRecord
    <3> QED
      BY <2>2, <2>4, <3>2 DEF Resuming
  <2>5. CASE BeginStep(r) /\ ~StepFails(r)
    <3>1. req'[r] = [q EXCEPT !.pc = "run", !.at = token[q.inst]] /\ q.pc = "begin"
      BY <2>5 DEF BeginStep, TypeOK
    <3>2. req'[r].pc = "run" /\ req'[r].inst = q.inst
      BY <1>0, <3>1 DEF ReqRecord
    <3> QED
      BY <2>2, <3>1, <3>2 DEF Resuming
  <2> QED
    BY <1>13, <2>1, <2>3, <2>4, <2>5
       DEF RunStep, BeginStep, HandleStartEvent, HandleGateway, HandleServiceTask,
           HandleManualTask, HandleEndEvent, InputMappingFails, MaxStepsReached,
           Dispatches, Park
<1> QED
  BY <1>6, <1>7, <1>8, <1>9, <1>10, <1>11, <1>12, <1>13 DEF Proceed

(* Every request that asks for the status of its instance finds the        *)
(* instance in one of the two tables, whatever ends it between the two     *)
(* reads (engine instance.rs resolve_instance_status).                     *)
THEOREM StatusIsFound == Spec => []StatusAlwaysFound
<1> DEFINE Inv == WorkHasInstance /\ \A r \in Request : AnswerOK(r)
<1>1. Init => Inv
  BY DEF Init, NoJob, NoTask, WorkHasInstance, AnswerOK, Idle, Resuming, Replying
<1>2. IInv /\ Inv /\ [Next]_vars => Inv'
  <2> SUFFICES ASSUME IInv, Inv, [Next]_vars
               PROVE  Inv'
    OBVIOUS
  <2>1. TypeOK /\ Consistent
    BY DEF IInv
  <2>2. WorkHasInstance'
    BY <2>1, WorkHasInstanceStep
  <2>3. ASSUME NEW s \in Request
        PROVE  AnswerOK(s)'
    <3>1. CASE req'[s] = req[s]
      <4>1. req[s].pc \in Resuming \cup Replying => req[s].inst \in InstanceKey
        BY <2>1, RequestKeys
      <4>2. AnswerOK(s)
        OBVIOUS
      <4>3. req[s].pc = "status_second" => req[s].pc \in Replying
        BY DEF Replying
      <4>4. req[s].pc \in Resuming \cup Replying => instance'[req[s].inst] # "none"
        BY <2>1, <4>1, <4>2, InstanceStays DEF AnswerOK
      <4>5. req[s].pc = "status_second" => Ended(req[s].inst)'
        BY <2>1, <3>1, <4>1, <4>2, <4>3, InstanceStays DEF AnswerOK, Ended
      <4> QED
        BY <3>1, <4>2, <4>4, <4>5 DEF AnswerOK, Ended
    <3>2. CASE req'[s] = Idle
      BY <3>2 DEF AnswerOK, Idle, Resuming, Replying
    <3> QED
      BY <2>1, <3>1, <3>2, RequestSteps, ReceiveAnswer, ProceedAnswer
  <2> QED
    BY <2>2, <2>3
<1>3. Inv => StatusAlwaysFound
  BY DEF AnswerOK, StatusAlwaysFound
<1> QED
  BY <1>1, <1>2, <1>3, InductiveInvariant, PTL DEF Spec

-----------------------------------------------------------------------------
(* Nothing but a step that was cut off strands an instance.  The property  *)
(* is inductive on top of IInv; the lemmas follow, across one step, what   *)
(* keeps an active instance going: the work it waits for, the request that *)
(* resumes it, and its token.                                              *)


(* Work of instance i at node n that is not done.                          *)
PendingJob(k, i, n) ==
  /\ Live(jobs[k]) /\ jobs[k].inst = i /\ jobs[k].node = n
  /\ jobs[k].state # "completed"

OpenTaskAt(k, i, n) ==
  /\ Live(tasks[k]) /\ tasks[k].inst = i /\ tasks[k].node = n
  /\ tasks[k].state = "open"

Pending(i, n) ==
  \/ \E k \in JobKey : PendingJob(k, i, n)
  \/ \E k \in TaskKey : OpenTaskAt(k, i, n)

(* A job that is not done can be worked on: a dead one through its         *)
(* incident.                                                               *)
LEMMA PendingIsOpen ==
  ASSUME TypeOK, DeadJobHasIncident, NEW i, NEW n
  PROVE  HasOpenWork(i, n) <=> Pending(i, n)
<1>1. ASSUME NEW k \in JobKey, PendingJob(k, i, n)
      PROVE  HasOpenWork(i, n)
  <2>1. jobs[k].state \in {"activatable", "activated", "dead"}
    BY <1>1 DEF PendingJob, Live, TypeOK, JobRow
  <2>2. CASE jobs[k].state = "dead"
    <3>1. \E x \in IncidentKey :
            Live(incidents[x]) /\ incidents[x].state = "active" /\ incidents[x].job = k
      BY <1>1, <2>2 DEF PendingJob, DeadJobHasIncident
    <3> QED
      BY <1>1, <2>2, <3>1 DEF PendingJob, HasOpenWork
  <2> QED
    BY <1>1, <2>1, <2>2 DEF PendingJob, HasOpenWork
<1>2. HasOpenWork(i, n) => Pending(i, n)
  BY DEF HasOpenWork, Pending, PendingJob, OpenTaskAt
<1>3. ASSUME NEW k \in TaskKey, OpenTaskAt(k, i, n)
      PROVE  HasOpenWork(i, n)
  BY <1>3 DEF OpenTaskAt, HasOpenWork
<1> QED
  BY <1>1, <1>2, <1>3 DEF Pending

(* A request that resumes an instance after a step.                        *)
LEMMA ResumedNow ==
  ASSUME TypeOK, NEW r \in Request, NEW i, Resume(r, i)
  PROVE  BeingResumed(i)'
<1>1. req'[r] = [Idle EXCEPT !.pc = "begin", !.inst = i]
  BY DEF Resume, TypeOK
<1>2. req'[r].pc = "begin" /\ req'[r].inst = i
  BY <1>1 DEF Idle
<1> QED
  BY <1>2 DEF BeingResumed, Resuming

(* An instance that is archived is not active any more.                    *)
LEMMA ArchivedInstance ==
  ASSUME TypeOK, Consistent, NEW r \in Request, CancelTaskTx(r) \/ HandleEndEvent(r)
  PROVE  instance'[req[r].inst] # "active"
<1>1. req[r].inst \in InstanceKey
  BY ArchiveLeavesNothing
<1>2. PICK status \in {"completed", "cancelled"} : ArchiveInstance(req[r].inst, status)
  BY DEF CancelTaskTx, HandleEndEvent
<1> QED
  BY <1>1, <1>2 DEF ArchiveInstance, EndStatus, TypeOK

(* The row a statement writes over a job: not completed, except by the     *)
(* completion.                                                             *)
LEMMA OpenRows ==
  ASSUME NEW job \in JobRow
  PROVE  \A row \in {DeadJob(job), ResetJob(job)}
                      \cup {FailedJob(job, b) : b \in BOOLEAN}
                      \cup {Activated(job, w) : w \in Worker \cup {NoWorker}} :
           row.state # "completed" /\ row.archived = job.archived
BY DEF JobRow, DeadJob, ResetJob, FailedJob, Activated

(* Work of an instance stays open until it is completed, by a request that *)
(* resumes the instance, or archived with the instance.                    *)
LEMMA JobStaysPending ==
  ASSUME TypeOK, Consistent, [Next]_vars, NEW i \in InstanceKey, NEW n,
         NEW k \in JobKey, PendingJob(k, i, n), instance'[i] = "active"
  PROVE  PendingJob(k, i, n)' \/ BeingResumed(i)'
<1>0. jobs[k] \in JobRow /\ jobs[k].inst = i /\ jobs[k].node = n
  BY DEF TypeOK, PendingJob
<1>1. jobs'[k].state # "absent" /\ jobs'[k].inst = i /\ jobs'[k].node = n
  <2>1. ASSUME NEW r \in Request, HandleServiceTask(r)
        PROVE  jobs'[k] = jobs[k]
    BY <2>1 DEF HandleServiceTask, IsNextKey, TypeOK, PendingJob, Live
  <2> QED
    BY <1>0, <2>1, JobsEffect DEF JobsKept, PendingJob, Live
<1>2. CASE jobs'[k] = jobs[k]
  BY <1>2 DEF PendingJob
<1>3. ASSUME jobs'[k].state # "completed", jobs'[k].archived = jobs[k].archived
      PROVE  PendingJob(k, i, n)'
  BY <1>1, <1>3 DEF PendingJob, Live
<1>4. ASSUME NEW r \in Request, Writes(r)
      PROVE  PendingJob(k, i, n)' \/ BeingResumed(i)'
  <2> DEFINE j == req[r].key
  <2>0. ASSUME NEW l \in JobKey, NEW row, jobs' = Updated(jobs, l, row), jobs'[k] # jobs[k]
        PROVE  l = k /\ jobs'[k] = row
    BY <2>0 DEF Updated, TypeOK
  <2>1. CASE StartInstance(r) \/ HandleManualTask(r) \/ CompleteTaskTx(r)
    BY <1>2, <2>1 DEF StartInstance, HandleManualTask, CompleteTaskTx, CompletionTx
  <2>2. CASE HandleGateway(r)
    BY <1>2, <2>2 DEF HandleGateway, Continue, tables
  <2>3. CASE HandleServiceTask(r)
    BY <1>2, <2>3 DEF HandleServiceTask, IsNextKey, TypeOK, PendingJob, Live
  <2>4. CASE CompleteJobTx(r)
    <3>1. j \in JobKey /\ req[r].inst = jobs[j].inst
      BY <2>4, RequestKeys DEF CompleteJobTx, CompletionTx
    <3>2. CASE Resume(r, req[r].inst) /\ j = k
      BY <1>0, <3>1, <3>2, ResumedNow
    <3>3. CASE jobs' = Updated(jobs, j, CompletedJob(jobs[j])) /\ j # k
      BY <1>2, <2>0, <3>1, <3>3
    <3>4. CASE jobs' = jobs
      BY <1>2, <3>4
    <3> QED
      BY <2>4, <3>2, <3>3, <3>4 DEF CompleteJobTx, CompletionTx
  <2>5. CASE CancelTaskTx(r) \/ HandleEndEvent(r)
    <3>1. req[r].inst # i
      BY <2>5, ArchivedInstance
    <3>2. jobs' = MovedToHistory(jobs, req[r].inst)
      BY <2>5 DEF CancelTaskTx, HandleEndEvent
    <3> QED
      BY <1>0, <1>2, <3>1, <3>2 DEF MovedToHistory, TypeOK
  <2>6. CASE FailJobRetry(r)
    <3>1. j \in JobKey /\ jobs[j] \in JobRow
      BY <2>6, RequestKeys DEF FailJobRetry, TypeOK
    <3>2. PICK b \in BOOLEAN : jobs' = Updated(jobs, j, FailedJob(jobs[j], b))
      BY <2>6 DEF FailJobRetry
    <3> QED
      BY <1>2, <1>3, <2>0, <3>1, <3>2, OpenRows
  <2>7. CASE FailJobDead(r)
    <3>1. j \in JobKey /\ jobs[j] \in JobRow /\ jobs' = Updated(jobs, j, DeadJob(jobs[j]))
      BY <2>7, RequestKeys DEF FailJobDead, TypeOK
    <3> QED
      BY <1>2, <1>3, <2>0, <3>1, OpenRows
  <2>8. CASE ResolveIncidentTx(r)
    <3> DEFINE l == incidents[j].job
    <3>1. l \in JobKey /\ jobs[l] \in JobRow /\ jobs' = Updated(jobs, l, ResetJob(jobs[l]))
      BY <2>8, RequestKeys DEF ResolveIncidentTx, TypeOK
    <3> QED
      BY <1>2, <1>3, <2>0, <3>1, OpenRows
  <2>9. CASE LockJob(r)
    <3>1. PICK l \in req[r].todo : jobs' = Updated(jobs, l, Activated(jobs[l], req[r].worker))
      BY <2>9 DEF LockJob
    <3>2. l \in JobKey /\ jobs[l] \in JobRow /\ req[r].worker \in Worker \cup {NoWorker}
      BY DEF TypeOK, ReqRecord
    <3> QED
      BY <1>2, <1>3, <2>0, <3>1, <3>2, OpenRows
  <2> QED
    BY <1>4, <2>1, <2>2, <2>3, <2>4, <2>5, <2>6, <2>7, <2>8, <2>9 DEF Writes
<1>5. ASSUME NEW j \in JobKey, LockExpires(j) \/ RetryDue(j)
      PROVE  PendingJob(k, i, n)'
  <2>1. \A row \in JobRow : \A new \in {[row EXCEPT !.lock = "expired"],
                                        [row EXCEPT !.due = TRUE]} :
          new.state = row.state /\ new.archived = row.archived
    BY DEF JobRow
  <2>2. jobs'[k] \in {jobs[k], [jobs[k] EXCEPT !.lock = "expired"],
                      [jobs[k] EXCEPT !.due = TRUE]}
    BY <1>5 DEF LockExpires, RetryDue, TypeOK
  <2> QED
    BY <1>0, <1>3, <2>1, <2>2 DEF PendingJob
<1>6. CASE UNCHANGED tables
  BY <1>2, <1>6 DEF tables
<1> QED
  BY <1>4, <1>5, <1>6, WritingSteps

LEMMA TaskStaysOpen ==
  ASSUME TypeOK, Consistent, [Next]_vars, NEW i \in InstanceKey, NEW n,
         NEW k \in TaskKey, OpenTaskAt(k, i, n), instance'[i] = "active"
  PROVE  OpenTaskAt(k, i, n)' \/ BeingResumed(i)'
<1>0. tasks[k].inst = i /\ Live(tasks[k])
  BY DEF OpenTaskAt
<1>1. CASE tasks'[k] = tasks[k]
  BY <1>1 DEF OpenTaskAt
<1>2. ASSUME NEW r \in Request, Writes(r)
      PROVE  OpenTaskAt(k, i, n)' \/ BeingResumed(i)'
  <2> DEFINE j == req[r].key
  <2>1. CASE \/ StartInstance(r) \/ CompleteJobTx(r) \/ FailJobRetry(r) \/ FailJobDead(r)
             \/ ResolveIncidentTx(r) \/ LockJob(r) \/ HandleServiceTask(r)
    BY <1>1, <2>1
       DEF StartInstance, CompleteJobTx, CompletionTx, FailJobRetry, FailJobDead,
           ResolveIncidentTx, LockJob, HandleServiceTask
  <2>2. CASE HandleGateway(r)
    BY <1>1, <2>2 DEF HandleGateway, Continue, tables
  <2>3. CASE HandleManualTask(r)
    BY <1>0, <1>1, <2>3 DEF HandleManualTask, IsNextKey, TypeOK, Live
  <2>4. CASE CompleteTaskTx(r)
    <3>1. j \in TaskKey /\ req[r].inst = tasks[j].inst
      BY <2>4, RequestKeys DEF CompleteTaskTx, CompletionTx
    <3>2. CASE Resume(r, req[r].inst) /\ j = k
      BY <1>0, <3>1, <3>2, ResumedNow
    <3>3. CASE tasks' = Updated(tasks, j, CompletedTask(tasks[j])) /\ j # k
      BY <1>1, <3>1, <3>3 DEF Updated, TypeOK
    <3>4. CASE tasks' = tasks
      BY <1>1, <3>4
    <3> QED
      BY <2>4, <3>2, <3>3, <3>4 DEF CompleteTaskTx, CompletionTx
  <2>5. CASE HandleEndEvent(r)
    <3>1. req[r].inst # i
      BY <2>5, ArchivedInstance
    <3>2. tasks' = MovedToHistory(tasks, req[r].inst)
      BY <2>5 DEF HandleEndEvent
    <3> QED
      BY <1>0, <1>1, <3>1, <3>2 DEF MovedToHistory, TypeOK
  <2>6. CASE CancelTaskTx(r)
    <3> DEFINE updated == Updated(tasks, j, CancelledTask(tasks[j]))
    <3>1. req[r].inst # i
      BY <2>6, ArchivedInstance
    <3>2. j \in TaskKey /\ req[r].inst = tasks[j].inst
      BY <2>6, RequestKeys DEF CancelTaskTx
    <3>3. updated[k] = tasks[k] /\ k \in DOMAIN updated
      BY <1>0, <3>1, <3>2 DEF Updated, TypeOK
    <3>4. tasks' = MovedToHistory(updated, req[r].inst)
      BY <2>6 DEF CancelTaskTx
    <3> QED
      BY <1>0, <1>1, <3>1, <3>3, <3>4 DEF MovedToHistory
  <2> QED
    BY <1>2, <2>1, <2>2, <2>3, <2>4, <2>5, <2>6 DEF Writes
<1>3. ASSUME NEW j \in JobKey, LockExpires(j) \/ RetryDue(j)
      PROVE  tasks' = tasks
  BY <1>3 DEF LockExpires, RetryDue
<1>4. CASE UNCHANGED tables
  BY <1>1, <1>4 DEF tables
<1> QED
  BY <1>1, <1>2, <1>3, <1>4, WritingSteps

(* Waits(i): the token of i is where it was put for a reason.              *)
Waits(i) == token[i] \in raised[i] \/ Pending(i, token[i])

(* What run_step commits for a token that stays at a node: a gateway that  *)
(* raised an incident there, or work that was inserted there.              *)
LEMMA ParksWithReason ==
  ASSUME TypeOK, Consistent, NEW r \in Request, Park(r),
         NEW i, NEW n, req[r].inst = i, req[r].at = n,
         HandleGateway(r) \/ HandleServiceTask(r) \/ HandleManualTask(r)
  PROVE  Waits(i)'
<1>1. i \in InstanceKey
  BY RequestKeys DEF HandleGateway, HandleServiceTask, HandleManualTask, Dispatches, Resuming
<1>2. token'[i] = n
  BY <1>1 DEF Park, TypeOK
<1>3. CASE HandleGateway(r)
  <2>1. CASE raised' = [raised EXCEPT ![i] = @ \cup {n}]
    BY <1>1, <1>2, <2>1 DEF TypeOK, Waits
  <2>2. ASSUME NEW m, Continue(r, m)
        PROVE  FALSE
    <3>1. req'[r] = [req[r] EXCEPT !.pc = "status"]
      BY DEF Park, Commit, Goto, TypeOK
    <3>2. req'[r] = [req[r] EXCEPT !.at = m, !.steps = req[r].steps + 1]
      BY <2>2 DEF Continue, TypeOK
    <3>3. req[r].pc = "run" /\ req[r] \in ReqRecord
      BY <1>3 DEF HandleGateway, Dispatches, TypeOK
    <3> QED
      BY <3>1, <3>2, <3>3 DEF ReqRecord
  <2> QED
    BY <1>3, <2>1, <2>2 DEF HandleGateway
<1>4. CASE HandleServiceTask(r)
  <2>1. PICK k \in JobKey : jobs' = [jobs EXCEPT ![k] = NewJob(i, n)]
    BY <1>4 DEF HandleServiceTask
  <2>2. jobs'[k] = NewJob(i, n)
    BY <2>1 DEF TypeOK
  <2>3. PendingJob(k, i, n)'
    BY <2>2 DEF NewJob, NoJob, PendingJob, Live
  <2> QED
    BY <1>2, <2>3 DEF Pending, Waits
<1>5. CASE HandleManualTask(r)
  <2>1. PICK k \in TaskKey : tasks' = [tasks EXCEPT ![k] = NewTask(i, n)]
    BY <1>5 DEF HandleManualTask
  <2>2. tasks'[k] = NewTask(i, n)
    BY <2>1 DEF TypeOK
  <2>3. OpenTaskAt(k, i, n)'
    BY <2>2 DEF NewTask, NoTask, OpenTaskAt, Live
  <2> QED
    BY <1>2, <2>3 DEF Pending, Waits
<1> QED
  BY <1>3, <1>4, <1>5

(* A request that resumes an instance goes on until it has left the        *)
(* instance waiting, has ended it, or is cut off.                          *)
LEMMA ResumedStep ==
  ASSUME TypeOK, Consistent, [Next]_vars, NEW i \in InstanceKey, BeingResumed(i),
         instance'[i] = "active"
  PROVE  BeingResumed(i)' \/ Waits(i)' \/ i \in lost'
<1>1. PICK r \in Request : req[r].pc \in Resuming /\ req[r].inst = i
  BY DEF BeingResumed
<1> DEFINE q == req[r]
<1>2. q \in ReqRecord
  BY DEF TypeOK
<1>3. ASSUME req'[r].pc \in Resuming, req'[r].inst = i
      PROVE  BeingResumed(i)'
  BY <1>3 DEF BeingResumed
<1>4. ASSUME NEW S, Drop(S), r \in S
      PROVE  i \in lost'
  BY <1>1, <1>4 DEF Drop, LostBy
<1>5. CASE req'[r] = req[r]
  BY <1>1, <1>3, <1>5
<1>6. CASE RunStep(r)
  <2>1. CASE StepFails(r)
    BY <1>1, <2>1 DEF StepFails, LostBy
  <2>2. CASE BeginStep(r) /\ ~StepFails(r)
    <3>1. req'[r] = [q EXCEPT !.pc = "run", !.at = token[q.inst]]
      BY <2>2 DEF BeginStep, TypeOK
    <3>2. req'[r].pc = "run" /\ req'[r].inst = i
      BY <1>1, <1>2, <3>1 DEF ReqRecord
    <3> QED
      BY <1>3, <3>2 DEF Resuming
  <2>3. ASSUME NEW m, Continue(r, m)
        PROVE  BeingResumed(i)'
    <3>1. req'[r] = [q EXCEPT !.at = m, !.steps = q.steps + 1]
      BY <2>3 DEF Continue, TypeOK
    <3>2. req'[r].pc = q.pc /\ req'[r].inst = i
      BY <1>1, <1>2, <3>1 DEF ReqRecord
    <3> QED
      BY <1>1, <1>3, <3>2
  <2>4. CASE Park(r) /\ (HandleGateway(r) \/ HandleServiceTask(r) \/ HandleManualTask(r))
    BY <1>1, <2>4, ParksWithReason
  <2>5. CASE HandleEndEvent(r)
    BY <1>1, <2>5, ArchivedInstance
  <2> QED
    BY <1>6, <2>1, <2>2, <2>3, <2>4, <2>5
       DEF RunStep, BeginStep, HandleStartEvent, HandleGateway, HandleServiceTask,
           HandleManualTask, InputMappingFails, MaxStepsReached
<1>7. CASE Busy(r) \/ KeysExhausted(r) \/ Abort(r)
  BY <1>4, <1>7 DEF Busy, KeysExhausted, Abort
<1>8. CASE Crash
  BY <1>4, <1>8 DEF Crash
<1>9. CASE Receive(r)
  BY <1>1, <1>9 DEF Receive, StartInstance, CompleteJob, CompleteTask, CancelTask, FailJob,
                    ResolveIncident, ActivateJobs, Resuming
<1>10. CASE Proceed(r)
  BY <1>1, <1>6, <1>7, <1>10
     DEF Proceed, CompleteJobLoad, CompleteJobFind, CompleteJobTx, CompleteTaskLoad,
         CompleteTaskFind, CompleteTaskTx, CancelTaskLoad, CancelTaskTx, FailJobLoad,
         FailJobRetry, FailJobDead, ResolveIncidentTx, LockJob, ReadStatus,
         ReadStatusAgain, LoadInstance, FindExecution, CompletionTx, Resuming
<1>11. ASSUME NEW k \in JobKey, LockExpires(k) \/ RetryDue(k)
       PROVE  req' = req
  BY <1>11 DEF LockExpires, RetryDue
<1>12. CASE UNCHANGED vars
  BY <1>5, <1>12 DEF vars
<1>13. ASSUME NEW s \in Request, s # r, Receive(s) \/ Proceed(s) \/ Abort(s)
       PROVE  req'[r] = req[r]
  BY <1>13, OtherRequests
<1> QED
  BY <1>5, <1>7, <1>8, <1>9, <1>10, <1>11, <1>12, <1>13 DEF Next

(* Whoever moves the token of an instance resumes the instance or leaves   *)
(* it waiting.                                                             *)
LEMMA TokenMoves ==
  ASSUME TypeOK, Consistent, [Next]_vars, NEW i \in InstanceKey, instance'[i] = "active"
  PROVE  \/ token'[i] = token[i] /\ instance'[i] = instance[i] /\ raised[i] \subseteq raised'[i]
         \/ BeingResumed(i)'
         \/ Waits(i)'
<1> DEFINE Same == /\ token'[i] = token[i] /\ instance'[i] = instance[i]
                   /\ raised[i] \subseteq raised'[i]
<1>1. ASSUME NEW r \in Request, Writes(r)
      PROVE  Same \/ BeingResumed(i)' \/ Waits(i)'
  <2>1. CASE StartInstance(r)
    <3>1. PICK j \in InstanceKey :
            /\ instance' = [instance EXCEPT ![j] = "active"]
            /\ token' = [token EXCEPT ![j] = StartNode]
            /\ Resume(r, j)
      BY <2>1 DEF StartInstance
    <3>2. CASE i = j
      BY <3>1, <3>2, ResumedNow
    <3>3. CASE i # j
      BY <2>1, <3>1, <3>3 DEF StartInstance, TypeOK
    <3> QED
      BY <3>2, <3>3
  <2>2. CASE CompleteJobTx(r) \/ CompleteTaskTx(r)
    <3>1. \/ token' = token
          \/ AdvanceTo(req[r].inst, FirstTarget(req[r].at)) /\ Resume(r, req[r].inst)
      BY <2>2 DEF CompleteJobTx, CompleteTaskTx, CompletionTx
    <3>2. instance' = instance /\ raised' = raised
      BY <2>2 DEF CompleteJobTx, CompleteTaskTx, CompletionTx
    <3>3. CASE Resume(r, req[r].inst) /\ req[r].inst = i
      BY <3>3, ResumedNow
    <3>4. CASE AdvanceTo(req[r].inst, FirstTarget(req[r].at)) /\ req[r].inst # i
      BY <3>2, <3>4 DEF AdvanceTo, TypeOK
    <3> QED
      BY <3>1, <3>2, <3>3, <3>4
  <2>3. CASE CancelTaskTx(r) \/ HandleEndEvent(r)
    <3>1. req[r].inst # i
      BY <2>3, ArchivedInstance
    <3>2. \E status : ArchiveInstance(req[r].inst, status)
      BY <2>3 DEF CancelTaskTx, HandleEndEvent
    <3>3. raised' = raised
      BY <2>3 DEF CancelTaskTx, HandleEndEvent
    <3> QED
      BY <3>1, <3>2, <3>3 DEF ArchiveInstance, TypeOK
  <2>4. CASE HandleGateway(r) \/ HandleServiceTask(r) \/ HandleManualTask(r)
    <3>1. instance' = instance /\ raised[i] \subseteq raised'[i]
      BY <2>4 DEF HandleGateway, HandleServiceTask, HandleManualTask, Continue, tables, TypeOK
    <3>2. token' = token \/ Park(r)
      BY <2>4 DEF HandleGateway, HandleServiceTask, HandleManualTask, Continue, tables
    <3>3. CASE Park(r) /\ req[r].inst = i
      BY <2>4, <3>3, ParksWithReason
    <3>4. CASE Park(r) /\ req[r].inst # i
      BY <3>1, <3>4 DEF Park, TypeOK
    <3> QED
      BY <3>1, <3>2, <3>3, <3>4
  <2> QED
    BY <1>1, <2>1, <2>2, <2>3, <2>4
       DEF Writes, FailJobRetry, FailJobDead, ResolveIncidentTx, LockJob
<1>2. ASSUME NEW k \in JobKey, LockExpires(k) \/ RetryDue(k)
      PROVE  Same
  BY <1>2 DEF LockExpires, RetryDue
<1>3. CASE UNCHANGED tables
  BY <1>3 DEF tables
<1> QED
  BY <1>1, <1>2, <1>3, WritingSteps

(* Nothing is found again once it was lost.                                *)
LEMMA LostStays ==
  ASSUME [Next]_vars
  PROVE  lost \subseteq lost'
<1>1. ASSUME NEW r \in Request, RunStep(r)
      PROVE  lost \subseteq lost'
  BY <1>1 DEF RunStep, BeginStep, HandleStartEvent, HandleGateway, HandleServiceTask,
              HandleManualTask, HandleEndEvent, InputMappingFails, MaxStepsReached,
              StepFails, Continue, Park, Commit
<1>2. ASSUME NEW r \in Request, Proceed(r)
      PROVE  lost \subseteq lost'
  BY <1>1, <1>2
     DEF Proceed, CompleteJobLoad, CompleteJobFind, CompleteJobTx, CompleteTaskLoad,
         CompleteTaskFind, CompleteTaskTx, CancelTaskLoad, CancelTaskTx, FailJobLoad,
         FailJobRetry, FailJobDead, ResolveIncidentTx, LockJob, ReadStatus,
         ReadStatusAgain, LoadInstance, FindExecution, CompletionTx, Busy, KeysExhausted,
         Drop
<1>3. ASSUME NEW r \in Request, Receive(r)
      PROVE  lost' = lost
  <2>1. CASE ActivateJobs(r)
    BY <2>1, Zenon DEF ActivateJobs
  <2> QED
    BY <1>3, <2>1 DEF Receive, StartInstance, CompleteJob, CompleteTask, CancelTask, FailJob,
                      ResolveIncident
<1> QED
  BY <1>2, <1>3 DEF Next, Abort, Crash, Drop, LockExpires, RetryDue, vars

(* An active instance waits for somebody or is being resumed, unless a     *)
(* run_step for it was cut off between the commit of the completion and    *)
(* its own (jobs.rs 108-121, manual_tasks.rs 98-110, instance.rs 69-84).   *)
THEOREM OnlyLostStepsStrand == Spec => []StrandedOnlyByLostStep
<1> DEFINE Settled(i) == Waits(i) \/ BeingResumed(i) \/ i \in lost
           Inv == \A i \in InstanceKey : instance[i] = "active" => Settled(i)
<1>1. Init => Inv
  BY DEF Init
<1>2. IInv /\ Inv /\ [Next]_vars => Inv'
  <2> SUFFICES ASSUME IInv, Inv, [Next]_vars, NEW i \in InstanceKey, instance'[i] = "active"
               PROVE  Settled(i)'
    OBVIOUS
  <2>1. TypeOK /\ Consistent
    BY DEF IInv
  <2> DEFINE Same == /\ token'[i] = token[i] /\ instance'[i] = instance[i]
                     /\ raised[i] \subseteq raised'[i]
  <2>2. ASSUME Same, NEW n, n = token[i]
        PROVE  Settled(i)'
    <3>1. Settled(i)
      BY <2>2
    <3>2. CASE i \in lost
      BY <3>2, LostStays
    <3>3. CASE BeingResumed(i)
      BY <2>1, <3>3, ResumedStep
    <3>4. CASE token[i] \in raised[i]
      BY <2>2, <3>4 DEF Waits
    <3>5. ASSUME NEW k \in JobKey, PendingJob(k, i, n)
          PROVE  Settled(i)'
      <4>1. PendingJob(k, i, n)' \/ BeingResumed(i)'
        BY <2>1, <3>5, JobStaysPending
      <4>2. n = token'[i]
        BY <2>2
      <4> QED
        BY <4>1, <4>2 DEF Waits, Pending
    <3>6. ASSUME NEW k \in TaskKey, OpenTaskAt(k, i, n)
          PROVE  Settled(i)'
      <4>1. OpenTaskAt(k, i, n)' \/ BeingResumed(i)'
        BY <2>1, <3>6, TaskStaysOpen
      <4>2. n = token'[i]
        BY <2>2
      <4> QED
        BY <4>1, <4>2 DEF Waits, Pending
    <3> QED
      BY <2>2, <3>1, <3>2, <3>3, <3>4, <3>5, <3>6 DEF Waits, Pending
  <2> QED
    BY <2>1, <2>2, TokenMoves
<1>3. IInv /\ Inv => StrandedOnlyByLostStep
  BY PendingIsOpen DEF IInv, StrandedOnlyByLostStep, Parked, Waits
<1> QED
  BY <1>1, <1>2, <1>3, InductiveInvariant, PTL DEF Spec
=============================================================================
