---------------------------- MODULE SerialProofs ----------------------------
(***************************************************************************)
(* What the engine keeps while requests for one instance do not overlap    *)
(* (SerialSpec), proved for every graph and any number of requests,        *)
(* workers and rows: nobody works on finished work, nobody takes a job     *)
(* from the worker that holds it, an instance waits for one thing, and the *)
(* tables take the steps of the token game of Workflow.                    *)
(*                                                                         *)
(* The first section says what one step of the engine does to one row,     *)
(* however requests overlap.  In the second, SerialInv: a request that has *)
(* its instance to itself still finds what it read.  The third is the      *)
(* refinement of Workflow.                                                 *)
(***************************************************************************)
EXTENDS EngineProofs, EngineRefinement, FiniteSetTheorems

(* What may happen to job k in a step.                                     *)
JobAged(k) == LockExpires(k) \/ RetryDue(k)

JobInserted(r, k) ==
  /\ HandleServiceTask(r)
  /\ jobs[k].state = "absent"
  /\ jobs' = [jobs EXCEPT ![k] = NewJob(req[r].inst, req[r].at)]

JobCompleted(r, k) ==
  /\ CompleteJobTx(r) /\ req[r].key = k /\ Resume(r, req[r].inst)
  /\ Live(jobs[k]) /\ jobs'[k] = CompletedJob(jobs[k])

JobRetried(r, k) ==
  /\ FailJobRetry(r) /\ req[r].key = k
  /\ Live(jobs[k]) /\ \E b \in BOOLEAN : jobs'[k] = FailedJob(jobs[k], b)

JobKilled(r, k) ==
  /\ FailJobDead(r) /\ req[r].key = k
  /\ Live(jobs[k]) /\ jobs'[k] = DeadJob(jobs[k])

JobReset(r, k) ==
  /\ ResolveIncidentTx(r) /\ incidents[req[r].key].job = k
  /\ Live(jobs[k]) /\ jobs'[k] = ResetJob(jobs[k])

JobTaken(r, k) ==
  /\ LockJob(r) /\ k \in req[r].todo
  /\ Live(jobs[k]) /\ jobs'[k] = Activated(jobs[k], req[r].worker)

JobArchived(r, k) ==
  /\ CancelTaskTx(r) \/ HandleEndEvent(r)
  /\ jobs[k].inst = req[r].inst
  /\ jobs'[k] = [jobs[k] EXCEPT !.archived = TRUE]

(* What may happen to manual task k.                                       *)
TaskInserted(r, k) ==
  /\ HandleManualTask(r)
  /\ tasks[k].state = "absent"
  /\ tasks' = [tasks EXCEPT ![k] = NewTask(req[r].inst, req[r].at)]

TaskCompleted(r, k) ==
  /\ CompleteTaskTx(r) /\ req[r].key = k /\ Resume(r, req[r].inst)
  /\ Live(tasks[k]) /\ tasks'[k] = CompletedTask(tasks[k])

TaskCancelled(r, k) ==
  /\ CancelTaskTx(r) /\ req[r].key = k
  /\ Live(tasks[k]) /\ tasks[k].inst = req[r].inst
  /\ tasks'[k] = [CancelledTask(tasks[k]) EXCEPT !.archived = TRUE]

TaskArchived(r, k) ==
  /\ CancelTaskTx(r) \/ HandleEndEvent(r)
  /\ tasks[k].inst = req[r].inst
  /\ tasks'[k] = [tasks[k] EXCEPT !.archived = TRUE]

(* What may happen to incident x.                                          *)
IncidentRaised(r, x) ==
  /\ FailJobDead(r)
  /\ incidents[x].state = "absent"
  /\ incidents' = [incidents EXCEPT ![x] = NewIncident(req[r].inst, req[r].key)]

IncidentResolved(r, x) ==
  /\ ResolveIncidentTx(r) /\ req[r].key = x
  /\ Live(incidents[x]) /\ incidents'[x] = ResolvedIncident(incidents[x])

IncidentArchived(r, x) ==
  /\ CancelTaskTx(r) \/ HandleEndEvent(r)
  /\ incidents[x].inst = req[r].inst
  /\ incidents'[x] = [incidents[x] EXCEPT !.archived = TRUE]

-----------------------------------------------------------------------------
(* One step and one row.                                                   *)

(* An archive moves the rows of its instance.                              *)
LEMMA MovedRow ==
  ASSUME NEW table, NEW k \in DOMAIN table
  PROVE  \A i : (MovedToHistory(table, i))[k] # table[k] =>
           /\ table[k].inst = i
           /\ (MovedToHistory(table, i))[k] = [table[k] EXCEPT !.archived = TRUE]
BY DEF MovedToHistory

LEMMA JobSteps ==
  ASSUME TypeOK, Consistent, [Next]_vars, NEW k \in JobKey
  PROVE  \/ jobs'[k] = jobs[k]
         \/ JobAged(k)
         \/ \E r \in Request :
              \/ JobInserted(r, k) \/ JobCompleted(r, k) \/ JobRetried(r, k) \/ JobKilled(r, k)
              \/ JobReset(r, k) \/ JobTaken(r, k) \/ JobArchived(r, k)
<1>0. DOMAIN jobs = JobKey
  BY DEF TypeOK
<1>1. CASE UNCHANGED tables
  BY <1>1 DEF tables
<1>2. ASSUME NEW j \in JobKey, LockExpires(j) \/ RetryDue(j)
      PROVE  jobs'[k] = jobs[k] \/ JobAged(k)
  BY <1>0, <1>2 DEF LockExpires, RetryDue, JobAged
<1>3. ASSUME NEW r \in Request, Writes(r), jobs'[k] # jobs[k]
      PROVE  \/ JobInserted(r, k) \/ JobCompleted(r, k) \/ JobRetried(r, k) \/ JobKilled(r, k)
             \/ JobReset(r, k) \/ JobTaken(r, k) \/ JobArchived(r, k)
  <2>1. CASE CompleteJobTx(r)
    <3>1. /\ jobs' = Updated(jobs, req[r].key, CompletedJob(jobs[req[r].key]))
          /\ Resume(r, req[r].inst)
      BY <1>3, <2>1 DEF CompleteJobTx, CompletionTx
    <3>2. k = req[r].key /\ Live(jobs[k]) /\ jobs'[k] = CompletedJob(jobs[k])
      BY <1>0, <1>3, <3>1 DEF Updated
    <3> QED
      BY <2>1, <3>1, <3>2 DEF JobCompleted
  <2>2. CASE FailJobRetry(r)
    <3>1. PICK b \in BOOLEAN :
            jobs' = Updated(jobs, req[r].key, FailedJob(jobs[req[r].key], b))
      BY <2>2 DEF FailJobRetry
    <3>2. k = req[r].key /\ Live(jobs[k]) /\ jobs'[k] = FailedJob(jobs[k], b)
      BY <1>0, <1>3, <3>1 DEF Updated
    <3> QED
      BY <2>2, <3>2 DEF JobRetried
  <2>3. CASE FailJobDead(r)
    <3>1. jobs' = Updated(jobs, req[r].key, DeadJob(jobs[req[r].key]))
      BY <2>3 DEF FailJobDead
    <3>2. k = req[r].key /\ Live(jobs[k]) /\ jobs'[k] = DeadJob(jobs[k])
      BY <1>0, <1>3, <3>1 DEF Updated
    <3> QED
      BY <2>3, <3>2 DEF JobKilled
  <2>4. CASE ResolveIncidentTx(r)
    <3> DEFINE j == incidents[req[r].key].job
    <3>1. jobs' = Updated(jobs, j, ResetJob(jobs[j]))
      BY <2>4 DEF ResolveIncidentTx
    <3>2. k = j /\ Live(jobs[k]) /\ jobs'[k] = ResetJob(jobs[k])
      BY <1>0, <1>3, <3>1 DEF Updated
    <3> QED
      BY <2>4, <3>2 DEF JobReset
  <2>5. CASE LockJob(r)
    <3>1. PICK j \in req[r].todo : jobs' = Updated(jobs, j, Activated(jobs[j], req[r].worker))
      BY <2>5 DEF LockJob
    <3>2. k = j /\ Live(jobs[k]) /\ jobs'[k] = Activated(jobs[k], req[r].worker)
      BY <1>0, <1>3, <3>1 DEF Updated
    <3> QED
      BY <2>5, <3>2 DEF JobTaken
  <2>6. CASE HandleServiceTask(r)
    <3>1. PICK j \in JobKey : /\ IsNextKey(jobs, j)
                              /\ jobs' = [jobs EXCEPT ![j] = NewJob(req[r].inst, req[r].at)]
      BY <2>6 DEF HandleServiceTask
    <3> QED
      BY <1>0, <1>3, <2>6, <3>1 DEF JobInserted, IsNextKey
  <2>7. CASE CancelTaskTx(r) \/ HandleEndEvent(r)
    <3>1. jobs' = MovedToHistory(jobs, req[r].inst)
      BY <2>7 DEF CancelTaskTx, HandleEndEvent
    <3> QED
      BY <1>0, <1>3, <2>7, <3>1, MovedRow DEF JobArchived
  <2>8. CASE StartInstance(r) \/ CompleteTaskTx(r) \/ HandleGateway(r) \/ HandleManualTask(r)
    BY <1>3, <2>8 DEF StartInstance, CompleteTaskTx, CompletionTx, HandleGateway, Continue,
                      tables, HandleManualTask
  <2> QED
    BY <1>3, <2>1, <2>2, <2>3, <2>4, <2>5, <2>6, <2>7, <2>8 DEF Writes
<1> QED
  BY <1>1, <1>2, <1>3, WritingSteps

LEMMA TaskSteps ==
  ASSUME TypeOK, Consistent, [Next]_vars, NEW k \in TaskKey
  PROVE  \/ tasks'[k] = tasks[k]
         \/ \E r \in Request :
              \/ TaskInserted(r, k) \/ TaskCompleted(r, k) \/ TaskCancelled(r, k)
              \/ TaskArchived(r, k)
<1>0. DOMAIN tasks = TaskKey
  BY DEF TypeOK
<1>1. CASE UNCHANGED tables
  BY <1>1 DEF tables
<1>2. ASSUME NEW j \in JobKey, LockExpires(j) \/ RetryDue(j)
      PROVE  tasks'[k] = tasks[k]
  BY <1>2 DEF LockExpires, RetryDue
<1>3. ASSUME NEW r \in Request, Writes(r), tasks'[k] # tasks[k]
      PROVE  \/ TaskInserted(r, k) \/ TaskCompleted(r, k) \/ TaskCancelled(r, k)
             \/ TaskArchived(r, k)
  <2>1. CASE CompleteTaskTx(r)
    <3>1. /\ tasks' = Updated(tasks, req[r].key, CompletedTask(tasks[req[r].key]))
          /\ Resume(r, req[r].inst)
      BY <1>3, <2>1 DEF CompleteTaskTx, CompletionTx
    <3>2. k = req[r].key /\ Live(tasks[k]) /\ tasks'[k] = CompletedTask(tasks[k])
      BY <1>0, <1>3, <3>1 DEF Updated
    <3> QED
      BY <2>1, <3>1, <3>2 DEF TaskCompleted
  <2>2. CASE CancelTaskTx(r)
    <3> DEFINE table == Updated(tasks, req[r].key, CancelledTask(tasks[req[r].key]))
    <3>1. tasks' = MovedToHistory(table, req[r].inst)
      BY <2>2 DEF CancelTaskTx
    <3>2. /\ req[r].key \in TaskKey /\ req[r].inst = tasks[req[r].key].inst
      BY <2>2, RequestKeys DEF CancelTaskTx
    <3>3. DOMAIN table = TaskKey
      BY <1>0 DEF Updated
    <3>4. CASE k = req[r].key /\ Live(tasks[k])
      <4>1. table[k] = CancelledTask(tasks[k])
        BY <1>0, <3>4 DEF Updated
      <4>2. table[k].inst = req[r].inst
        BY <3>2, <3>4, <4>1 DEF CancelledTask, TypeOK, TaskRow
      <4>3. tasks'[k] = [table[k] EXCEPT !.archived = TRUE]
        BY <3>1, <3>3, <4>2 DEF MovedToHistory
      <4> QED
        BY <2>2, <3>2, <3>4, <4>1, <4>3 DEF TaskCancelled
    <3>5. CASE ~(k = req[r].key /\ Live(tasks[k]))
      <4>1. table[k] = tasks[k]
        BY <1>0, <3>5 DEF Updated
      <4> QED
        BY <1>3, <2>2, <3>1, <3>3, <4>1 DEF TaskArchived, MovedToHistory
    <3> QED
      BY <3>4, <3>5
  <2>3. CASE HandleManualTask(r)
    <3>1. PICK j \in TaskKey : /\ IsNextKey(tasks, j)
                               /\ tasks' = [tasks EXCEPT ![j] = NewTask(req[r].inst, req[r].at)]
      BY <2>3 DEF HandleManualTask
    <3> QED
      BY <1>0, <1>3, <2>3, <3>1 DEF TaskInserted, IsNextKey
  <2>4. CASE HandleEndEvent(r)
    <3>1. tasks' = MovedToHistory(tasks, req[r].inst)
      BY <2>4 DEF HandleEndEvent
    <3> QED
      BY <1>0, <1>3, <2>4, <3>1, MovedRow DEF TaskArchived
  <2>5. CASE StartInstance(r) \/ CompleteJobTx(r) \/ HandleGateway(r) \/ HandleServiceTask(r)
    BY <1>3, <2>5 DEF StartInstance, CompleteJobTx, CompletionTx, HandleGateway, Continue,
                      tables, HandleServiceTask
  <2>6. CASE FailJobRetry(r) \/ FailJobDead(r) \/ ResolveIncidentTx(r) \/ LockJob(r)
    BY <1>3, <2>6 DEF FailJobRetry, FailJobDead, ResolveIncidentTx, LockJob
  <2> QED
    BY <1>3, <2>1, <2>2, <2>3, <2>4, <2>5, <2>6 DEF Writes
<1> QED
  BY <1>1, <1>2, <1>3, WritingSteps

LEMMA IncidentSteps ==
  ASSUME TypeOK, Consistent, [Next]_vars, NEW x \in IncidentKey
  PROVE  \/ incidents'[x] = incidents[x]
         \/ \E r \in Request :
              IncidentRaised(r, x) \/ IncidentResolved(r, x) \/ IncidentArchived(r, x)
<1>0. DOMAIN incidents = IncidentKey
  BY DEF TypeOK
<1>1. CASE UNCHANGED tables
  BY <1>1 DEF tables
<1>2. ASSUME NEW j \in JobKey, LockExpires(j) \/ RetryDue(j)
      PROVE  incidents'[x] = incidents[x]
  BY <1>2 DEF LockExpires, RetryDue
<1>3. ASSUME NEW r \in Request, Writes(r), incidents'[x] # incidents[x]
      PROVE  IncidentRaised(r, x) \/ IncidentResolved(r, x) \/ IncidentArchived(r, x)
  <2>1. CASE FailJobDead(r)
    <3>1. PICK y \in IncidentKey :
            /\ IsNextKey(incidents, y)
            /\ incidents' = [incidents EXCEPT ![y] = NewIncident(req[r].inst, req[r].key)]
      BY <2>1 DEF FailJobDead
    <3> QED
      BY <1>0, <1>3, <2>1, <3>1 DEF IncidentRaised, IsNextKey
  <2>2. CASE ResolveIncidentTx(r)
    <3>1. incidents' = Updated(incidents, req[r].key, ResolvedIncident(incidents[req[r].key]))
      BY <2>2 DEF ResolveIncidentTx
    <3>2. x = req[r].key /\ Live(incidents[x]) /\ incidents'[x] = ResolvedIncident(incidents[x])
      BY <1>0, <1>3, <3>1 DEF Updated
    <3> QED
      BY <2>2, <3>2 DEF IncidentResolved
  <2>3. CASE CancelTaskTx(r) \/ HandleEndEvent(r)
    <3>1. incidents' = MovedToHistory(incidents, req[r].inst)
      BY <2>3 DEF CancelTaskTx, HandleEndEvent, ArchiveInstance
    <3> QED
      BY <1>0, <1>3, <2>3, <3>1, MovedRow DEF IncidentArchived
  <2>4. CASE StartInstance(r) \/ CompleteJobTx(r) \/ CompleteTaskTx(r) \/ HandleGateway(r)
             \/ HandleServiceTask(r) \/ HandleManualTask(r)
    BY <1>3, <2>4 DEF StartInstance, CompleteJobTx, CompleteTaskTx, CompletionTx, HandleGateway,
                      Continue, tables, HandleServiceTask, HandleManualTask
  <2>5. CASE FailJobRetry(r) \/ LockJob(r)
    BY <1>3, <2>5 DEF FailJobRetry, LockJob
  <2> QED
    BY <1>3, <2>1, <2>2, <2>3, <2>4, <2>5 DEF Writes
<1> QED
  BY <1>1, <1>2, <1>3, WritingSteps

(* The token of an instance moves when the instance starts, when its work  *)
(* is completed, when run_step parks it, and with its end.                 *)
TokenMoved(r, i) ==
  /\ req[r].inst = i
  /\ \/ CompleteJobTx(r) /\ Resume(r, i)
     \/ CompleteTaskTx(r) /\ Resume(r, i)
     \/ CancelTaskTx(r) \/ HandleEndEvent(r)
     \/ req[r].pc = "run" /\ Park(r)

LEMMA TokenWrites ==
  ASSUME TypeOK, Consistent, [Next]_vars, NEW i \in InstanceKey
  PROVE  \/ token'[i] = token[i]
         \/ instance[i] = "none" /\ UNCHANGED <<jobs, tasks, incidents>>
         \/ \E r \in Request : TokenMoved(r, i)
<1>1. CASE UNCHANGED tables
  BY <1>1 DEF tables
<1>2. ASSUME NEW j \in JobKey, LockExpires(j) \/ RetryDue(j)
      PROVE  token'[i] = token[i]
  BY <1>2 DEF LockExpires, RetryDue
<1>3. ASSUME NEW r \in Request, Writes(r), token'[i] # token[i]
      PROVE  \/ instance[i] = "none" /\ UNCHANGED <<jobs, tasks, incidents>>
             \/ TokenMoved(r, i)
  <2>1. CASE StartInstance(r)
    BY <1>3, <2>1 DEF StartInstance, TypeOK
  <2>2. CASE CompleteJobTx(r) \/ CompleteTaskTx(r)
    <3>1. AdvanceTo(req[r].inst, FirstTarget(req[r].at)) /\ Resume(r, req[r].inst)
      BY <1>3, <2>2 DEF CompleteJobTx, CompleteTaskTx, CompletionTx
    <3>2. req[r].inst = i
      BY <1>3, <3>1 DEF AdvanceTo, TypeOK
    <3> QED
      BY <2>2, <3>1, <3>2 DEF TokenMoved
  <2>3. CASE CancelTaskTx(r) \/ HandleEndEvent(r)
    <3>1. token' = [token EXCEPT ![req[r].inst] = NoNode]
      BY <2>3 DEF CancelTaskTx, HandleEndEvent, ArchiveInstance
    <3> QED
      BY <1>3, <2>3, <3>1 DEF TokenMoved, TypeOK
  <2>4. CASE HandleGateway(r) \/ HandleServiceTask(r) \/ HandleManualTask(r)
    <3>1. req[r].pc = "run" /\ Park(r)
      BY <1>3, <2>4 DEF HandleGateway, HandleServiceTask, HandleManualTask, Dispatches, Continue,
                        tables
    <3>2. req[r].inst = i
      BY <1>3, <3>1 DEF Park, TypeOK
    <3> QED
      BY <3>1, <3>2 DEF TokenMoved
  <2>5. CASE FailJobRetry(r) \/ FailJobDead(r) \/ ResolveIncidentTx(r) \/ LockJob(r)
    BY <1>3, <2>5 DEF FailJobRetry, FailJobDead, ResolveIncidentTx, LockJob
  <2> QED
    BY <1>3, <2>1, <2>2, <2>3, <2>4, <2>5 DEF Writes
<1> QED
  BY <1>1, <1>2, <1>3, WritingSteps

-----------------------------------------------------------------------------
(* A request that has its instance to itself.                              *)

LEMMA SerialParts ==
  ASSUME SerialInv
  PROVE  /\ TypeOK /\ Consistent /\ RuntimeRowsHaveInstance /\ DeadJobHasIncident
         /\ NoOverlap /\ OneThingToDo /\ ResumedIsDone
         /\ \A r \in Request : ReadStillHolds(r)
         /\ ActiveIncidentMeansDeadJob /\ NoRowsLeftBehind
BY DEF SerialInv, IInv

(* Whatever changes a row is a step of the request of an action.           *)
LEMMA RowStepsProceed ==
  ASSUME NEW r \in Request
  PROVE  /\ \A k \in JobKey :
              \/ JobInserted(r, k) \/ JobCompleted(r, k) \/ JobRetried(r, k) \/ JobKilled(r, k)
              \/ JobReset(r, k) \/ JobTaken(r, k) \/ JobArchived(r, k)
              => Proceed(r)
         /\ \A k \in TaskKey :
              \/ TaskInserted(r, k) \/ TaskCompleted(r, k) \/ TaskCancelled(r, k)
              \/ TaskArchived(r, k)
              => Proceed(r)
         /\ \A x \in IncidentKey :
              IncidentRaised(r, x) \/ IncidentResolved(r, x) \/ IncidentArchived(r, x)
              => Proceed(r)
BY Zenon DEF JobInserted, JobCompleted, JobRetried, JobKilled, JobReset, JobTaken, JobArchived,
   TaskInserted, TaskCompleted, TaskCancelled, TaskArchived,
   IncidentRaised, IncidentResolved, IncidentArchived, Proceed, RunStep

(* Where the request of a transaction is, and what it works on.            *)
LEMMA WriterPC ==
  ASSUME NEW r \in Request
  PROVE  /\ CompleteJobTx(r) => req[r].pc = "job_tx"
         /\ CompleteTaskTx(r) => req[r].pc = "task_tx"
         /\ CancelTaskTx(r) => req[r].pc = "cancel_tx"
         /\ FailJobRetry(r) \/ FailJobDead(r) => req[r].pc = "fail_tx"
         /\ ResolveIncidentTx(r) => req[r].pc = "resolve_tx"
         /\ LockJob(r) => req[r].pc = "lock"
         /\ HandleServiceTask(r) \/ HandleManualTask(r) \/ HandleEndEvent(r)
              => req[r].pc = "run"
BY DEF CompleteJobTx, CompleteTaskTx, CompletionTx, CancelTaskTx, FailJobRetry, FailJobDead,
   ResolveIncidentTx, LockJob, HandleServiceTask, HandleManualTask, HandleEndEvent, Dispatches

(* A request changes rows of the instances it touches only.                *)
LEMMA TouchesItsRows ==
  ASSUME TypeOK, Consistent, NEW r \in Request, ReadStillHolds(r)
  PROVE  /\ \A k \in JobKey :
              \/ JobCompleted(r, k) \/ JobRetried(r, k) \/ JobKilled(r, k)
              \/ JobReset(r, k) \/ JobTaken(r, k) \/ JobArchived(r, k)
              => jobs[k].inst \in Touches(r)
         /\ \A k \in TaskKey :
              TaskCompleted(r, k) \/ TaskCancelled(r, k) \/ TaskArchived(r, k)
              => tasks[k].inst \in Touches(r)
         /\ \A x \in IncidentKey :
              IncidentResolved(r, x) \/ IncidentArchived(r, x)
              => incidents[x].inst \in Touches(r)
<1>1. req[r].pc \notin {"lock", "idle"} => Touches(r) = {req[r].inst}
  BY DEF Touches
<1>2. ASSUME NEW k \in JobKey, JobCompleted(r, k) \/ JobRetried(r, k) \/ JobKilled(r, k)
      PROVE  jobs[k].inst \in Touches(r)
  BY <1>1, <1>2, WriterPC, RequestKeys DEF JobCompleted, JobRetried, JobKilled
<1>3. ASSUME NEW k \in JobKey, JobReset(r, k)
      PROVE  jobs[k].inst \in Touches(r)
  <2>1. /\ req[r].pc = "resolve_tx" /\ req[r].key \in IncidentKey
        /\ incidents[req[r].key].job = k
    BY <1>3, WriterPC, RequestKeys DEF JobReset
  <2>2. incidents[req[r].key].inst = jobs[k].inst
    BY <2>1, RequestKeys DEF Consistent, RowsOK
  <2>3. incidents[req[r].key].inst = req[r].inst
    BY <2>1 DEF ReadStillHolds
  <2> QED
    BY <1>1, <2>1, <2>2, <2>3
<1>4. ASSUME NEW k \in JobKey, JobTaken(r, k)
      PROVE  jobs[k].inst \in Touches(r)
  BY <1>4, WriterPC DEF JobTaken, Touches
<1>5. ASSUME NEW k \in JobKey, JobArchived(r, k)
      PROVE  jobs[k].inst \in Touches(r)
  BY <1>1, <1>5, WriterPC DEF JobArchived
<1>6. ASSUME NEW k \in TaskKey, TaskCompleted(r, k) \/ TaskCancelled(r, k) \/ TaskArchived(r, k)
      PROVE  tasks[k].inst \in Touches(r)
  BY <1>1, <1>6, WriterPC, RequestKeys DEF TaskCompleted, TaskCancelled, TaskArchived
<1>7. ASSUME NEW x \in IncidentKey, IncidentResolved(r, x) \/ IncidentArchived(r, x)
      PROVE  incidents[x].inst \in Touches(r)
  BY <1>1, <1>7, WriterPC DEF IncidentResolved, IncidentArchived, ReadStillHolds
<1> QED
  BY <1>2, <1>3, <1>4, <1>5, <1>6, <1>7

(* While others step, the rows of the instances a request touches stay as  *)
(* they are, but for the time that passes.                                 *)
LEMMA OthersKeepMyRows ==
  ASSUME SerialInv, [Next]_vars, NEW s \in Request, ~Proceed(s)
  PROVE  /\ \A k \in JobKey : jobs[k].state # "absent" /\ jobs[k].inst \in Touches(s) =>
              jobs'[k] = jobs[k] \/ JobAged(k)
         /\ \A k \in TaskKey : tasks[k].state # "absent" /\ tasks[k].inst \in Touches(s) =>
              tasks'[k] = tasks[k]
         /\ \A x \in IncidentKey :
              incidents[x].state # "absent" /\ incidents[x].inst \in Touches(s) =>
              incidents'[x] = incidents[x]
<1>0. TypeOK /\ Consistent /\ NoOverlap /\ \A r \in Request : ReadStillHolds(r)
  BY SerialParts
<1>1. ASSUME NEW r \in Request, r # s, NEW i \in Touches(s)
      PROVE  i \notin Touches(r)
  BY <1>0, <1>1 DEF NoOverlap
<1>2. ASSUME NEW k \in JobKey, jobs[k].state # "absent", jobs[k].inst \in Touches(s)
      PROVE  jobs'[k] = jobs[k] \/ JobAged(k)
  <2>1. ASSUME NEW r \in Request,
               \/ JobInserted(r, k) \/ JobCompleted(r, k) \/ JobRetried(r, k) \/ JobKilled(r, k)
               \/ JobReset(r, k) \/ JobTaken(r, k) \/ JobArchived(r, k)
        PROVE  FALSE
    <3>1. r # s
      BY <2>1, RowStepsProceed
    <3>2. ~JobInserted(r, k)
      BY <1>2 DEF JobInserted
    <3>3. jobs[k].inst \in Touches(r)
      BY <1>0, <2>1, <3>2, TouchesItsRows
    <3> QED
      BY <1>1, <1>2, <3>1, <3>3
  <2> QED
    BY <1>0, <2>1, JobSteps
<1>3. ASSUME NEW k \in TaskKey, tasks[k].state # "absent", tasks[k].inst \in Touches(s)
      PROVE  tasks'[k] = tasks[k]
  <2>1. ASSUME NEW r \in Request,
               TaskInserted(r, k) \/ TaskCompleted(r, k) \/ TaskCancelled(r, k) \/ TaskArchived(r, k)
        PROVE  FALSE
    <3>1. r # s
      BY <2>1, RowStepsProceed
    <3>2. ~TaskInserted(r, k)
      BY <1>3 DEF TaskInserted
    <3>3. tasks[k].inst \in Touches(r)
      BY <1>0, <2>1, <3>2, TouchesItsRows
    <3> QED
      BY <1>1, <1>3, <3>1, <3>3
  <2> QED
    BY <1>0, <2>1, TaskSteps
<1>4. ASSUME NEW x \in IncidentKey, incidents[x].state # "absent",
             incidents[x].inst \in Touches(s)
      PROVE  incidents'[x] = incidents[x]
  <2>1. ASSUME NEW r \in Request,
               IncidentRaised(r, x) \/ IncidentResolved(r, x) \/ IncidentArchived(r, x)
        PROVE  FALSE
    <3>1. r # s
      BY <2>1, RowStepsProceed
    <3>2. ~IncidentRaised(r, x)
      BY <1>4 DEF IncidentRaised
    <3>3. incidents[x].inst \in Touches(r)
      BY <1>0, <2>1, <3>2, TouchesItsRows
    <3> QED
      BY <1>1, <1>4, <3>1, <3>3
  <2> QED
    BY <1>0, <2>1, IncidentSteps
<1> QED
  BY <1>2, <1>3, <1>4

-----------------------------------------------------------------------------
(* Work that is not done.                                                  *)

(* What a request does to a job that it still finds as it read it.         *)
LEMMA ReadJobs ==
  ASSUME SerialInv, NEW r \in Request, NEW k \in JobKey
  PROVE  /\ JobCompleted(r, k) \/ JobRetried(r, k) \/ JobKilled(r, k) =>
              JobIsActivated(jobs[k])
         /\ JobReset(r, k) => Live(jobs[k]) /\ jobs[k].state = "dead"
         /\ JobTaken(r, k) => Activatable(k)
<1>0. ReadStillHolds(r) /\ ActiveIncidentMeansDeadJob /\ TypeOK /\ Consistent
  BY SerialParts
<1>1. JobCompleted(r, k) \/ JobRetried(r, k) \/ JobKilled(r, k) => JobIsActivated(jobs[k])
  BY <1>0, WriterPC DEF JobCompleted, JobRetried, JobKilled, ReadStillHolds, LoadingJob
<1>2. JobReset(r, k) => Live(jobs[k]) /\ jobs[k].state = "dead"
  BY <1>0, WriterPC, RequestKeys DEF JobReset, ReadStillHolds, ActiveIncidentMeansDeadJob
<1>3. JobTaken(r, k) => Activatable(k)
  BY <1>0, WriterPC DEF JobTaken, ReadStillHolds
<1> QED
  BY <1>1, <1>2, <1>3

LEMMA ReadTasks ==
  ASSUME SerialInv, NEW r \in Request, NEW k \in TaskKey
  PROVE  TaskCompleted(r, k) \/ TaskCancelled(r, k) => TaskIsOpen(tasks[k])
BY SerialParts, WriterPC DEF TaskCompleted, TaskCancelled, ReadStillHolds, LoadingTask

(* The state of a job after a step, from the one before it.                *)
LEMMA JobStates ==
  ASSUME SerialInv, [Next]_vars, NEW k \in JobKey
  PROVE  \/ jobs'[k] = jobs[k]
         \/ /\ JobAged(k)
            /\ jobs'[k].state = jobs[k].state /\ jobs'[k].archived = jobs[k].archived
            /\ jobs'[k].inst = jobs[k].inst /\ jobs'[k].node = jobs[k].node
            /\ jobs'[k].worker = jobs[k].worker
         \/ \E r \in Request :
              \/ JobInserted(r, k) /\ jobs'[k] = NewJob(req[r].inst, req[r].at)
              \/ JobCompleted(r, k) /\ jobs[k].state = "activated" /\ jobs'[k].state = "completed"
              \/ /\ jobs[k].state \in {"activated", "activatable", "dead"} /\ Live(jobs[k])
                 /\ jobs'[k].state \in {"activatable", "activated", "dead"}
                 /\ jobs'[k].archived = jobs[k].archived
                 /\ jobs'[k].inst = jobs[k].inst /\ jobs'[k].node = jobs[k].node
                 /\ \/ (JobRetried(r, k) \/ JobReset(r, k)) /\ jobs'[k].state = "activatable"
                    \/ JobKilled(r, k) /\ jobs'[k].state = "dead"
                    \/ JobTaken(r, k) /\ jobs'[k].state = "activated" /\ Activatable(k)
              \/ JobArchived(r, k) /\ jobs'[k].archived /\ jobs'[k].state = jobs[k].state
<1>0. TypeOK /\ Consistent /\ jobs[k] \in JobRow
  BY SerialParts DEF TypeOK
<1>1. ASSUME JobAged(k)
      PROVE  /\ jobs'[k].state = jobs[k].state /\ jobs'[k].archived = jobs[k].archived
             /\ jobs'[k].inst = jobs[k].inst /\ jobs'[k].node = jobs[k].node
             /\ jobs'[k].worker = jobs[k].worker
  BY <1>0, <1>1 DEF JobAged, LockExpires, RetryDue, TypeOK, JobRow
<1>2. ASSUME NEW r \in Request, JobInserted(r, k)
      PROVE  jobs'[k] = NewJob(req[r].inst, req[r].at)
  BY <1>0, <1>2 DEF JobInserted, TypeOK
<1>3. ASSUME NEW r \in Request, JobCompleted(r, k)
      PROVE  jobs[k].state = "activated" /\ jobs'[k].state = "completed"
  BY <1>0, <1>3, ReadJobs DEF JobCompleted, JobIsActivated, CompletedJob, JobRow
<1>4. ASSUME NEW r \in Request,
             JobRetried(r, k) \/ JobReset(r, k) \/ JobKilled(r, k) \/ JobTaken(r, k)
      PROVE  /\ jobs[k].state \in {"activated", "activatable", "dead"} /\ Live(jobs[k])
             /\ jobs'[k].archived = jobs[k].archived
             /\ jobs'[k].inst = jobs[k].inst /\ jobs'[k].node = jobs[k].node
             /\ \/ (JobRetried(r, k) \/ JobReset(r, k)) /\ jobs'[k].state = "activatable"
                \/ JobKilled(r, k) /\ jobs'[k].state = "dead"
                \/ JobTaken(r, k) /\ jobs'[k].state = "activated" /\ Activatable(k)
  <2>1. /\ jobs[k].state \in {"activated", "activatable", "dead"} /\ Live(jobs[k])
        /\ JobTaken(r, k) => Activatable(k)
    BY <1>4, ReadJobs DEF JobIsActivated, Activatable
  <2>2. CASE JobRetried(r, k)
    BY <1>0, <2>1, <2>2 DEF JobRetried, FailedJob, JobRow
  <2>3. CASE JobReset(r, k)
    BY <1>0, <2>1, <2>3 DEF JobReset, ResetJob, JobRow
  <2>4. CASE JobKilled(r, k)
    BY <1>0, <2>1, <2>4 DEF JobKilled, DeadJob, JobRow
  <2>5. CASE JobTaken(r, k)
    BY <1>0, <2>1, <2>5 DEF JobTaken, Activated, JobRow
  <2> QED
    BY <1>4, <2>2, <2>3, <2>4, <2>5
<1>5. ASSUME NEW r \in Request, JobArchived(r, k)
      PROVE  jobs'[k].archived /\ jobs'[k].state = jobs[k].state
  BY <1>0, <1>5 DEF JobArchived, JobRow
<1>6. \/ jobs'[k] = jobs[k]
      \/ JobAged(k)
      \/ \E r \in Request :
           \/ JobInserted(r, k) \/ JobCompleted(r, k) \/ JobRetried(r, k) \/ JobKilled(r, k)
           \/ JobReset(r, k) \/ JobTaken(r, k) \/ JobArchived(r, k)
  BY <1>0, JobSteps
<1>7. CASE \E r \in Request :
             JobRetried(r, k) \/ JobReset(r, k) \/ JobKilled(r, k) \/ JobTaken(r, k)
  BY <1>4, <1>7
<1>8. CASE \E r \in Request : JobInserted(r, k) \/ JobCompleted(r, k) \/ JobArchived(r, k)
  BY <1>2, <1>3, <1>5, <1>8
<1> QED
  BY <1>1, <1>6, <1>7, <1>8

(* The state of a manual task after a step.                                *)
LEMMA TaskStates ==
  ASSUME SerialInv, [Next]_vars, NEW k \in TaskKey
  PROVE  \/ tasks'[k] = tasks[k]
         \/ \E r \in Request :
              \/ TaskInserted(r, k) /\ tasks'[k] = NewTask(req[r].inst, req[r].at)
              \/ TaskCompleted(r, k) /\ tasks[k].state = "open" /\ tasks'[k].state = "completed"
              \/ TaskCancelled(r, k) /\ tasks[k].state = "open" /\ tasks'[k].archived
              \/ TaskArchived(r, k) /\ tasks'[k].archived /\ tasks'[k].state = tasks[k].state
<1>0. TypeOK /\ Consistent /\ tasks[k] \in TaskRow
  BY SerialParts DEF TypeOK
<1>1. ASSUME NEW r \in Request, TaskInserted(r, k)
      PROVE  tasks'[k] = NewTask(req[r].inst, req[r].at)
  BY <1>0, <1>1 DEF TaskInserted, TypeOK
<1>2. ASSUME NEW r \in Request, TaskCompleted(r, k)
      PROVE  tasks[k].state = "open" /\ tasks'[k].state = "completed"
  BY <1>0, <1>2, ReadTasks DEF TaskCompleted, TaskIsOpen, CompletedTask, TaskRow
<1>3. ASSUME NEW r \in Request, TaskCancelled(r, k)
      PROVE  tasks[k].state = "open" /\ tasks'[k].archived
  BY <1>0, <1>3, ReadTasks DEF TaskCancelled, TaskIsOpen, CancelledTask, TaskRow
<1>4. ASSUME NEW r \in Request, TaskArchived(r, k)
      PROVE  tasks'[k].archived /\ tasks'[k].state = tasks[k].state
  BY <1>0, <1>4 DEF TaskArchived, TaskRow
<1> QED
  BY <1>0, <1>1, <1>2, <1>3, <1>4, TaskSteps

(* Finished work stays finished.                                           *)
LEMMA FinishedStep ==
  ASSUME SerialInv, [Next]_vars
  PROVE  /\ \A k \in JobKey :
              jobs[k].state = "completed" => jobs'[k].state = "completed"
         /\ \A k \in TaskKey :
              tasks[k].state \in {"completed", "cancelled"} =>
                tasks'[k].state = tasks[k].state
<1>1. ASSUME NEW k \in JobKey, jobs[k].state = "completed"
      PROVE  jobs'[k].state = "completed"
  BY <1>1, JobStates DEF JobInserted
<1>2. ASSUME NEW k \in TaskKey, tasks[k].state \in {"completed", "cancelled"}
      PROVE  tasks'[k].state = tasks[k].state
  BY <1>2, TaskStates DEF TaskInserted
<1> QED
  BY <1>1, <1>2

(* What is not done after a step was not done before, or run_step has just *)
(* inserted it.                                                            *)
LEMMA NotDoneBefore ==
  ASSUME SerialInv, [Next]_vars
  PROVE  /\ \A k \in JobKey : JobNotDone(k)' =>
              \/ /\ JobNotDone(k)
                 /\ jobs'[k].inst = jobs[k].inst /\ jobs'[k].node = jobs[k].node
              \/ \E r \in Request :
                   JobInserted(r, k) /\ jobs'[k] = NewJob(req[r].inst, req[r].at)
         /\ \A k \in TaskKey : TaskIsOpen(tasks'[k]) =>
              \/ TaskIsOpen(tasks[k]) /\ tasks'[k] = tasks[k]
              \/ \E r \in Request :
                   TaskInserted(r, k) /\ tasks'[k] = NewTask(req[r].inst, req[r].at)
<1>1. ASSUME NEW k \in JobKey, JobNotDone(k)'
      PROVE  \/ /\ JobNotDone(k)
                /\ jobs'[k].inst = jobs[k].inst /\ jobs'[k].node = jobs[k].node
             \/ \E r \in Request :
                  JobInserted(r, k) /\ jobs'[k] = NewJob(req[r].inst, req[r].at)
  BY <1>1, JobStates DEF JobNotDone, Live
<1>2. ASSUME NEW k \in TaskKey, TaskIsOpen(tasks'[k])
      PROVE  \/ TaskIsOpen(tasks[k]) /\ tasks'[k] = tasks[k]
             \/ \E r \in Request :
                  TaskInserted(r, k) /\ tasks'[k] = NewTask(req[r].inst, req[r].at)
  BY <1>2, TaskStates DEF TaskIsOpen, Live
<1> QED
  BY <1>1, <1>2

-----------------------------------------------------------------------------
(* An instance waits for one thing.                                        *)

(* A completion that resumes the instance has completed the row.           *)
LEMMA CompletionWrites ==
  ASSUME TypeOK, NEW r \in Request, NEW i, Resume(r, i)
  PROVE  /\ CompleteJobTx(r) =>
              jobs' = Updated(jobs, req[r].key, CompletedJob(jobs[req[r].key]))
         /\ CompleteTaskTx(r) =>
              tasks' = Updated(tasks, req[r].key, CompletedTask(tasks[req[r].key]))
<1>1. ~Done(r)
  <2>1. req'[r].pc = "begin"
    BY DEF Resume, TypeOK, Idle
  <2> QED
    BY <2>1 DEF Done, TypeOK, Idle
<1> QED
  BY <1>1 DEF CompleteJobTx, CompleteTaskTx, CompletionTx

(* The token stays where work of its instance is not done.                 *)
LEMMA JobKeepsToken ==
  ASSUME SerialInv, [Next]_vars, NEW k \in JobKey, JobNotDone(k), JobNotDone(k)',
         jobs'[k].inst = jobs[k].inst
  PROVE  token'[jobs[k].inst] = token[jobs[k].inst]
<1> DEFINE i == jobs[k].inst
<1>0. TypeOK /\ Consistent /\ OneThingToDo /\ ResumedIsDone /\ \A r \in Request : ReadStillHolds(r)
  BY SerialParts
<1>1. Live(jobs[k]) /\ i \in InstanceKey /\ instance[i] = "active"
  BY <1>0, SerialParts DEF JobNotDone, Live, Consistent, RowsOK, RuntimeRowsHaveInstance
<1>2. ASSUME NEW r \in Request, TokenMoved(r, i)
      PROVE  FALSE
  <2> DEFINE j == req[r].key
  <2>0. req[r].inst = i /\ ReadStillHolds(r)
    BY <1>0, <1>2 DEF TokenMoved
  <2>1. CASE CompleteJobTx(r) /\ Resume(r, i)
    <3>1. /\ req[r].pc = "job_tx" /\ j \in JobKey /\ jobs[j].inst = i
          /\ JobIsActivated(jobs[j])
      BY <1>0, <2>0, <2>1, WriterPC, RequestKeys DEF ReadStillHolds, LoadingJob
    <3>2. j = k
      BY <1>0, <3>1 DEF OneThingToDo, JobNotDone, JobIsActivated
    <3>3. jobs' = Updated(jobs, k, CompletedJob(jobs[k]))
      BY <1>0, <2>1, <3>2, CompletionWrites
    <3>4. jobs'[k].state = "completed"
      BY <1>0, <1>1, <3>3 DEF Updated, CompletedJob, TypeOK, JobRow
    <3> QED
      BY <3>4 DEF JobNotDone
  <2>2. CASE CompleteTaskTx(r)
    <3>1. j \in TaskKey /\ tasks[j].inst = i /\ TaskIsOpen(tasks[j])
      BY <1>0, <2>0, <2>2, WriterPC, RequestKeys DEF ReadStillHolds, LoadingTask
    <3> QED
      BY <1>0, <3>1 DEF OneThingToDo
  <2>3. CASE CancelTaskTx(r) \/ HandleEndEvent(r)
    BY <1>0, <2>0, <2>3, ArchiveLeavesNothing DEF JobNotDone
  <2>4. CASE req[r].pc = "run"
    BY <1>0, <2>0, <2>4 DEF ResumedIsDone, Resuming
  <2> QED
    BY <1>2, <2>1, <2>2, <2>3, <2>4 DEF TokenMoved
<1> QED
  BY <1>0, <1>1, <1>2, TokenWrites

LEMMA TaskKeepsToken ==
  ASSUME SerialInv, [Next]_vars, NEW k \in TaskKey, TaskIsOpen(tasks[k]),
         TaskIsOpen(tasks'[k]), tasks'[k].inst = tasks[k].inst
  PROVE  token'[tasks[k].inst] = token[tasks[k].inst]
<1> DEFINE i == tasks[k].inst
<1>0. TypeOK /\ Consistent /\ OneThingToDo /\ ResumedIsDone /\ \A r \in Request : ReadStillHolds(r)
  BY SerialParts
<1>1. Live(tasks[k]) /\ i \in InstanceKey /\ instance[i] = "active"
  BY <1>0, SerialParts DEF TaskIsOpen, Live, Consistent, RowsOK, RuntimeRowsHaveInstance
<1>2. ASSUME NEW r \in Request, TokenMoved(r, i)
      PROVE  FALSE
  <2> DEFINE j == req[r].key
  <2>0. req[r].inst = i /\ ReadStillHolds(r)
    BY <1>0, <1>2 DEF TokenMoved
  <2>1. CASE CompleteTaskTx(r) /\ Resume(r, i)
    <3>1. /\ req[r].pc = "task_tx" /\ j \in TaskKey /\ tasks[j].inst = i
          /\ TaskIsOpen(tasks[j])
      BY <1>0, <2>0, <2>1, WriterPC, RequestKeys DEF ReadStillHolds, LoadingTask
    <3>2. j = k
      BY <1>0, <3>1 DEF OneThingToDo
    <3>3. tasks' = Updated(tasks, k, CompletedTask(tasks[k]))
      BY <1>0, <2>1, <3>2, CompletionWrites
    <3>4. tasks'[k].state = "completed"
      BY <1>0, <1>1, <3>3 DEF Updated, CompletedTask, TypeOK, TaskRow
    <3> QED
      BY <3>4 DEF TaskIsOpen
  <2>2. CASE CompleteJobTx(r)
    <3>1. j \in JobKey /\ jobs[j].inst = i /\ JobNotDone(j)
      BY <1>0, <2>0, <2>2, WriterPC, RequestKeys
         DEF ReadStillHolds, LoadingJob, JobIsActivated, JobNotDone
    <3> QED
      BY <1>0, <3>1 DEF OneThingToDo
  <2>3. CASE CancelTaskTx(r) \/ HandleEndEvent(r)
    BY <1>0, <2>0, <2>3, ArchiveLeavesNothing DEF TaskIsOpen
  <2>4. CASE req[r].pc = "run"
    BY <1>0, <2>0, <2>4 DEF ResumedIsDone, Resuming
  <2> QED
    BY <1>2, <2>1, <2>2, <2>3, <2>4 DEF TokenMoved
<1> QED
  BY <1>0, <1>1, <1>2, TokenWrites

(* Work that run_step inserts is the only work of its instance.            *)
LEMMA InsertedAlone ==
  ASSUME SerialInv, NEW r \in Request,
         (\E k \in JobKey : JobInserted(r, k)) \/ (\E k \in TaskKey : TaskInserted(r, k))
  PROVE  /\ \A k \in JobKey : JobNotDone(k) => jobs[k].inst # req[r].inst
         /\ \A k \in TaskKey : TaskIsOpen(tasks[k]) => tasks[k].inst # req[r].inst
         /\ token'[req[r].inst] = req[r].at
<1>0. TypeOK /\ Consistent /\ ResumedIsDone
  BY SerialParts
<1>1. req[r].pc = "run" /\ Park(r)
  BY WriterPC DEF JobInserted, TaskInserted, HandleServiceTask, HandleManualTask
<1>2. req[r].inst \in InstanceKey
  BY <1>0, <1>1, RequestKeys DEF Resuming
<1>3. token'[req[r].inst] = req[r].at
  BY <1>0, <1>1, <1>2 DEF Park, TypeOK
<1> QED
  BY <1>0, <1>1, <1>3 DEF ResumedIsDone, Resuming

LEMMA OneThingStep ==
  ASSUME SerialInv, [Next]_vars
  PROVE  OneThingToDo'
<1>0. TypeOK /\ OneThingToDo
  BY SerialParts
<1> DEFINE OldJob(k) == /\ JobNotDone(k)
                        /\ jobs'[k].inst = jobs[k].inst /\ jobs'[k].node = jobs[k].node
           OldTask(k) == TaskIsOpen(tasks[k]) /\ tasks'[k] = tasks[k]
<1>1. ASSUME NEW k \in JobKey, JobNotDone(k)'
      PROVE  OldJob(k) \/ \E r \in Request :
               JobInserted(r, k) /\ jobs'[k] = NewJob(req[r].inst, req[r].at)
  BY <1>1, NotDoneBefore
<1>2. ASSUME NEW k \in TaskKey, TaskIsOpen(tasks'[k])
      PROVE  OldTask(k) \/ \E r \in Request :
               TaskInserted(r, k) /\ tasks'[k] = NewTask(req[r].inst, req[r].at)
  BY <1>2, NotDoneBefore
<1>3. ASSUME NEW r \in Request, NEW k \in JobKey, JobInserted(r, k),
             jobs'[k] = NewJob(req[r].inst, req[r].at)
      PROVE  /\ jobs'[k].inst = req[r].inst /\ jobs'[k].node = token'[req[r].inst]
             /\ tasks' = tasks /\ \A l \in JobKey \ {k} : jobs'[l] = jobs[l]
             /\ \A l \in JobKey : JobNotDone(l) => jobs[l].inst # req[r].inst
             /\ \A l \in TaskKey : TaskIsOpen(tasks[l]) => tasks[l].inst # req[r].inst
  <2>1. jobs'[k].inst = req[r].inst /\ jobs'[k].node = req[r].at
    BY <1>3 DEF NewJob, NoJob
  <2>2. tasks' = tasks /\ \A l \in JobKey \ {k} : jobs'[l] = jobs[l]
    BY <1>0, <1>3 DEF JobInserted, HandleServiceTask, TypeOK
  <2> QED
    BY <1>3, <2>1, <2>2, InsertedAlone
<1>4. ASSUME NEW r \in Request, NEW k \in TaskKey, TaskInserted(r, k),
             tasks'[k] = NewTask(req[r].inst, req[r].at)
      PROVE  /\ tasks'[k].inst = req[r].inst /\ tasks'[k].node = token'[req[r].inst]
             /\ jobs' = jobs /\ \A l \in TaskKey \ {k} : tasks'[l] = tasks[l]
             /\ \A l \in JobKey : JobNotDone(l) => jobs[l].inst # req[r].inst
             /\ \A l \in TaskKey : TaskIsOpen(tasks[l]) => tasks[l].inst # req[r].inst
  <2>1. tasks'[k].inst = req[r].inst /\ tasks'[k].node = req[r].at
    BY <1>4 DEF NewTask, NoTask
  <2>2. jobs' = jobs /\ \A l \in TaskKey \ {k} : tasks'[l] = tasks[l]
    BY <1>0, <1>4 DEF TaskInserted, HandleManualTask, TypeOK
  <2> QED
    BY <1>4, <2>1, <2>2, InsertedAlone
<1>5. ASSUME NEW k \in JobKey, JobNotDone(k)'
      PROVE  /\ jobs'[k].node = token'[jobs'[k].inst]
             /\ \A l \in JobKey : JobNotDone(l)' /\ jobs'[l].inst = jobs'[k].inst => l = k
             /\ \A l \in TaskKey : TaskIsOpen(tasks'[l]) => tasks'[l].inst # jobs'[k].inst
  <2>1. CASE OldJob(k)
    <3>1. jobs'[k].node = token'[jobs'[k].inst]
      BY <1>0, <1>5, <2>1, JobKeepsToken DEF OneThingToDo
    <3>2. ASSUME NEW l \in JobKey, JobNotDone(l)', jobs'[l].inst = jobs'[k].inst
          PROVE  l = k
      <4>1. CASE OldJob(l)
        BY <1>0, <2>1, <3>2, <4>1 DEF OneThingToDo
      <4> QED
        BY <1>1, <1>3, <2>1, <3>2, <4>1
    <3>3. ASSUME NEW l \in TaskKey, TaskIsOpen(tasks'[l])
          PROVE  tasks'[l].inst # jobs'[k].inst
      <4>1. CASE OldTask(l)
        BY <1>0, <2>1, <3>3, <4>1 DEF OneThingToDo
      <4> QED
        BY <1>2, <1>4, <2>1, <3>3, <4>1
    <3> QED
      BY <3>1, <3>2, <3>3
  <2>2. ASSUME NEW r \in Request, JobInserted(r, k),
               jobs'[k] = NewJob(req[r].inst, req[r].at)
        PROVE  /\ jobs'[k].node = token'[jobs'[k].inst]
               /\ \A l \in JobKey : JobNotDone(l)' /\ jobs'[l].inst = jobs'[k].inst => l = k
               /\ \A l \in TaskKey : TaskIsOpen(tasks'[l]) => tasks'[l].inst # jobs'[k].inst
    <3>1. jobs'[k].node = token'[jobs'[k].inst]
      BY <1>3, <2>2
    <3>2. ASSUME NEW l \in JobKey, JobNotDone(l)', jobs'[l].inst = jobs'[k].inst, l # k
          PROVE  FALSE
      <4>1. jobs'[l] = jobs[l]
        BY <1>3, <2>2, <3>2
      <4> QED
        BY <1>3, <2>2, <3>2, <4>1 DEF JobNotDone
    <3>3. \A l \in TaskKey : TaskIsOpen(tasks'[l]) => tasks'[l].inst # jobs'[k].inst
      BY <1>3, <2>2
    <3> QED
      BY <3>1, <3>2, <3>3
  <2> QED
    BY <1>1, <1>5, <2>1, <2>2
<1>6. ASSUME NEW k \in TaskKey, TaskIsOpen(tasks'[k])
      PROVE  /\ tasks'[k].node = token'[tasks'[k].inst]
             /\ \A l \in TaskKey :
                  TaskIsOpen(tasks'[l]) /\ tasks'[l].inst = tasks'[k].inst => l = k
  <2>1. CASE OldTask(k)
    <3>1. tasks'[k].node = token'[tasks'[k].inst]
      BY <1>0, <1>6, <2>1, TaskKeepsToken DEF OneThingToDo
    <3>2. ASSUME NEW l \in TaskKey, TaskIsOpen(tasks'[l]), tasks'[l].inst = tasks'[k].inst
          PROVE  l = k
      <4>1. CASE OldTask(l)
        BY <1>0, <2>1, <3>2, <4>1 DEF OneThingToDo
      <4> QED
        BY <1>2, <1>4, <2>1, <3>2, <4>1
    <3> QED
      BY <3>1, <3>2
  <2>2. ASSUME NEW r \in Request, TaskInserted(r, k),
               tasks'[k] = NewTask(req[r].inst, req[r].at)
        PROVE  /\ tasks'[k].node = token'[tasks'[k].inst]
               /\ \A l \in TaskKey :
                    TaskIsOpen(tasks'[l]) /\ tasks'[l].inst = tasks'[k].inst => l = k
    <3>1. tasks'[k].node = token'[tasks'[k].inst]
      BY <1>4, <2>2
    <3>2. ASSUME NEW l \in TaskKey, TaskIsOpen(tasks'[l]), tasks'[l].inst = tasks'[k].inst,
                 l # k
          PROVE  FALSE
      <4>1. tasks'[l] = tasks[l]
        BY <1>4, <2>2, <3>2
      <4> QED
        BY <1>4, <2>2, <3>2, <4>1
    <3> QED
      BY <3>1, <3>2
  <2> QED
    BY <1>2, <1>6, <2>1, <2>2
<1> QED
  BY <1>5, <1>6 DEF OneThingToDo

-----------------------------------------------------------------------------
(* Where a request is, and what it has read.                               *)

(* A request starts with what it reads, or with a new instance.            *)
LEMMA ReceivedNow ==
  ASSUME TypeOK, Consistent, NEW r \in Request, Receive(r)
  PROVE  LET q == req'[r]
         IN \/ /\ q.pc = "begin" /\ q.inst \in InstanceKey
               /\ instance[q.inst] = "none" /\ UNCHANGED <<jobs, tasks, incidents>>
            \/ /\ UNCHANGED tables
               /\ \/ /\ q.pc \in LoadingJob
                     /\ \E k \in JobKey :
                          /\ JobIsActivated(jobs[k])
                          /\ q.key = k /\ q.inst = jobs[k].inst /\ q.at = jobs[k].node
                  \/ /\ q.pc \in LoadingTask
                     /\ \E k \in TaskKey :
                          /\ TaskIsOpen(tasks[k])
                          /\ q.key = k /\ q.inst = tasks[k].inst /\ q.at = tasks[k].node
                  \/ /\ q.pc = "resolve_tx"
                     /\ \E x \in IncidentKey :
                          /\ Live(incidents[x]) /\ incidents[x].state = "active"
                          /\ q.key = x /\ q.inst = incidents[x].inst
                  \/ q.pc = "lock" /\ \A k \in q.todo : Activatable(k)
<1>1. CASE StartInstance(r)
  <2>1. PICK i \in InstanceKey : instance[i] = "none" /\ Resume(r, i)
    BY <1>1 DEF StartInstance
  <2>2. req'[r].pc = "begin" /\ req'[r].inst = i
    BY <2>1 DEF Resume, TypeOK, Idle
  <2> QED
    BY <1>1, <2>1, <2>2 DEF StartInstance
<1>2. CASE CompleteJob(r) \/ FailJob(r)
  <2>1. PICK k \in JobKey, pc \in {"job_instance", "fail_instance"} :
          /\ JobIsActivated(jobs[k])
          /\ req' = [req EXCEPT ![r] = [Idle EXCEPT !.pc = pc, !.key = k,
                                          !.inst = jobs[k].inst, !.at = jobs[k].node]]
          /\ UNCHANGED tables
    BY <1>2 DEF CompleteJob, FailJob
  <2>2. /\ req'[r].pc = pc /\ req'[r].key = k /\ req'[r].inst = jobs[k].inst
        /\ req'[r].at = jobs[k].node
    BY <2>1 DEF TypeOK, Idle
  <2> QED
    BY <2>1, <2>2 DEF LoadingJob
<1>3. CASE CompleteTask(r) \/ CancelTask(r)
  <2>1. PICK k \in TaskKey, pc \in {"task_instance", "cancel_instance"} :
          /\ TaskIsOpen(tasks[k])
          /\ req' = [req EXCEPT ![r] = [Idle EXCEPT !.pc = pc, !.key = k,
                                          !.inst = tasks[k].inst, !.at = tasks[k].node]]
          /\ UNCHANGED tables
    BY <1>3 DEF CompleteTask, CancelTask
  <2>2. /\ req'[r].pc = pc /\ req'[r].key = k /\ req'[r].inst = tasks[k].inst
        /\ req'[r].at = tasks[k].node
    BY <2>1 DEF TypeOK, Idle
  <2> QED
    BY <2>1, <2>2 DEF LoadingTask
<1>4. CASE ResolveIncident(r)
  <2>1. PICK x \in IncidentKey :
          /\ Live(incidents[x]) /\ incidents[x].state = "active"
          /\ req' = [req EXCEPT ![r] = [Idle EXCEPT !.pc = "resolve_tx", !.key = x,
                                          !.inst = incidents[x].inst]]
          /\ UNCHANGED tables
    BY <1>4 DEF ResolveIncident
  <2>2. req'[r].pc = "resolve_tx" /\ req'[r].key = x /\ req'[r].inst = incidents[x].inst
    BY <2>1 DEF TypeOK, Idle
  <2> QED
    BY <2>1, <2>2
<1>5. CASE ActivateJobs(r)
  <2>1. PICK w \in Worker, max \in 1..MaxJobs, type \in {TaskType[n] : n \in Node} :
          req' = [req EXCEPT ![r] = [Idle EXCEPT !.pc = "lock", !.worker = w,
                                                 !.todo = Smallest(Due(type), max)]]
    BY <1>5, Zenon DEF ActivateJobs
  <2>2. UNCHANGED tables
    BY <1>5, Zenon DEF ActivateJobs
  <2>3. req'[r].pc = "lock" /\ req'[r].todo = Smallest(Due(type), max)
    BY <2>1 DEF TypeOK, Idle
  <2>4. \A k \in Smallest(Due(type), max) : Activatable(k)
    BY DEF Smallest, Due
  <2> QED
    BY <2>2, <2>3, <2>4
<1> QED
  BY <1>1, <1>2, <1>3, <1>4, <1>5 DEF Receive

(* A request loads more of the same row.                                   *)
LoadsMore(r) ==
  /\ \/ req[r].pc \in LoadingJob /\ req'[r].pc \in LoadingJob
     \/ req[r].pc \in LoadingTask /\ req'[r].pc \in LoadingTask
  /\ req'[r].key = req[r].key /\ req'[r].inst = req[r].inst /\ req'[r].at = req[r].at
  /\ UNCHANGED tables

(* A request moves its instance on inside run_step.                        *)
MovesOn(r) ==
  /\ req[r].pc \in Resuming /\ req'[r].pc \in Resuming /\ req'[r].inst = req[r].inst
  /\ UNCHANGED tables

(* A request locks the next job of its batch.                              *)
LocksOne(r) ==
  /\ req[r].pc = "lock" /\ req'[r].pc = "lock"
  /\ \E k \in req[r].todo :
       /\ req'[r].todo = req[r].todo \ {k}
       /\ jobs' = Updated(jobs, k, Activated(jobs[k], req[r].worker))

LEMMA ProceedsNow ==
  ASSUME TypeOK, NEW r \in Request, Proceed(r)
  PROVE  \/ req'[r] = Idle
         \/ req'[r].pc \in Replying \cup {"unresolved"}
         \/ LoadsMore(r) \/ MovesOn(r) \/ LocksOne(r)
         \/ (CompleteJobTx(r) \/ CompleteTaskTx(r)) /\ Resume(r, req[r].inst)
<1> DEFINE q == req[r]
<1>0. q \in ReqRecord
  BY DEF TypeOK
<1>1. Done(r) => req'[r] = Idle
  BY DEF Done, TypeOK
<1>2. ASSUME NEW pc, Goto(r, pc)
      PROVE  /\ req'[r].pc = pc /\ req'[r].key = q.key /\ req'[r].inst = q.inst
             /\ req'[r].at = q.at
  <2>1. req'[r] = [q EXCEPT !.pc = pc]
    BY <1>2 DEF Goto, TypeOK
  <2> QED
    BY <1>0, <2>1 DEF ReqRecord
<1>3. CASE CompleteJobLoad(r) \/ CompleteJobFind(r) \/ FailJobLoad(r)
  <2>1. /\ q.pc \in LoadingJob /\ UNCHANGED tables
        /\ Done(r) \/ \E next \in LoadingJob : Goto(r, next)
    BY <1>3 DEF CompleteJobLoad, CompleteJobFind, FailJobLoad, LoadInstance, FindExecution,
                LoadingJob
  <2> QED
    BY <1>1, <1>2, <2>1 DEF LoadsMore
<1>4. CASE CompleteTaskLoad(r) \/ CompleteTaskFind(r) \/ CancelTaskLoad(r)
  <2>1. /\ q.pc \in LoadingTask /\ UNCHANGED tables
        /\ Done(r) \/ \E next \in LoadingTask : Goto(r, next)
    BY <1>4 DEF CompleteTaskLoad, CompleteTaskFind, CancelTaskLoad, LoadInstance, FindExecution,
                LoadingTask
  <2> QED
    BY <1>1, <1>2, <2>1 DEF LoadsMore
<1>5. CASE CompleteJobTx(r) \/ CompleteTaskTx(r)
  <2>1. Done(r) \/ Resume(r, q.inst)
    BY <1>5 DEF CompleteJobTx, CompleteTaskTx, CompletionTx
  <2> QED
    BY <1>1, <1>5, <2>1
<1>6. CASE CancelTaskTx(r) \/ FailJobRetry(r) \/ FailJobDead(r) \/ ResolveIncidentTx(r)
  BY <1>1, <1>6 DEF CancelTaskTx, FailJobRetry, FailJobDead, ResolveIncidentTx
<1>7. CASE LockJob(r)
  <2>1. PICK k \in q.todo :
          /\ jobs' = Updated(jobs, k, Activated(jobs[k], q.worker))
          /\ Done(r) \/ req' = [req EXCEPT ![r].todo = @ \ {k}]
    BY <1>7 DEF LockJob
  <2>2. CASE req' = [req EXCEPT ![r].todo = @ \ {k}]
    <3>1. req'[r] = [q EXCEPT !.todo = q.todo \ {k}]
      BY <2>2 DEF TypeOK
    <3>2. req'[r].pc = q.pc /\ req'[r].todo = q.todo \ {k}
      BY <1>0, <3>1 DEF ReqRecord
    <3>3. q.pc = "lock"
      BY <1>7 DEF LockJob
    <3> QED
      BY <2>1, <3>2, <3>3 DEF LocksOne
  <2> QED
    BY <1>1, <2>1, <2>2
<1>8. CASE ReadStatus(r) \/ ReadStatusAgain(r)
  BY <1>1, <1>2, <1>8 DEF ReadStatus, ReadStatusAgain, Replying
<1>9. CASE Busy(r) \/ KeysExhausted(r)
  BY <1>9 DEF Busy, KeysExhausted, Drop
<1>10. CASE RunStep(r)
  <2>1. CASE StepFails(r)
    BY <1>1, <2>1 DEF StepFails
  <2>2. CASE Commit(r)
    BY <1>2, <2>2 DEF Commit, Replying
  <2>3. ASSUME NEW m, Continue(r, m), q.pc = "run"
        PROVE  MovesOn(r)
    <3>1. req'[r] = [q EXCEPT !.at = m, !.steps = q.steps + 1]
      BY <2>3 DEF Continue, TypeOK
    <3>2. req'[r].pc = "run" /\ req'[r].inst = q.inst
      BY <1>0, <2>3, <3>1 DEF ReqRecord
    <3> QED
      BY <2>3, <3>2 DEF MovesOn, Resuming, Continue
  <2>4. CASE BeginStep(r) /\ ~StepFails(r)
    <3>1. /\ req'[r] = [q EXCEPT !.pc = "run", !.at = token[q.inst]] /\ q.pc = "begin"
          /\ UNCHANGED tables
      BY <2>4 DEF BeginStep, TypeOK
    <3>2. req'[r].pc = "run" /\ req'[r].inst = q.inst
      BY <1>0, <3>1 DEF ReqRecord
    <3> QED
      BY <3>1, <3>2 DEF MovesOn, Resuming
  <2> QED
    BY <1>10, <2>1, <2>2, <2>3, <2>4
       DEF RunStep, BeginStep, HandleStartEvent, HandleGateway, HandleServiceTask,
           HandleManualTask, HandleEndEvent, InputMappingFails, MaxStepsReached,
           Dispatches, Park
<1> QED
  BY <1>3, <1>4, <1>5, <1>6, <1>7, <1>8, <1>9, <1>10 DEF Proceed

(* Time does not take back what a request has read of a job.               *)
LEMMA AgedJob ==
  ASSUME TypeOK, NEW k \in JobKey, JobAged(k)
  PROVE  /\ JobIsActivated(jobs[k]) => JobIsActivated(jobs'[k])
         /\ jobs'[k].node = jobs[k].node
         /\ Activatable(k) => Activatable(k)'
<1>1. jobs[k] \in JobRow
  BY DEF TypeOK
<1>2. CASE LockExpires(k)
  <2>1. jobs'[k] = [jobs[k] EXCEPT !.lock = "expired"]
    BY <1>2 DEF LockExpires, TypeOK
  <2> QED
    BY <1>1, <1>2, <2>1 DEF JobRow, LockExpires, JobIsActivated, Activatable, Live
<1>3. CASE RetryDue(k)
  <2>1. jobs'[k] = [jobs[k] EXCEPT !.due = TRUE]
    BY <1>3 DEF RetryDue, TypeOK
  <2>2. /\ jobs'[k].state = jobs[k].state /\ jobs'[k].archived = jobs[k].archived
        /\ jobs'[k].lock = jobs[k].lock /\ jobs'[k].node = jobs[k].node /\ jobs'[k].due
    BY <1>1, <2>1 DEF JobRow
  <2> QED
    BY <2>2 DEF JobIsActivated, Activatable, Live
<1> QED
  BY <1>2, <1>3 DEF JobAged

LEMMA ReadsStep ==
  ASSUME SerialInv, [Next]_vars, NEW s \in Request
  PROVE  ReadStillHolds(s)'
<1> DEFINE q == req[s]
<1>0. /\ TypeOK /\ Consistent /\ ReadStillHolds(s) /\ RequestOK(s)
      /\ q \in ReqRecord
  BY SerialParts DEF Consistent, TypeOK
<1>1. ASSUME req'[s] = Idle \/ req'[s].pc \in Resuming \cup Replying \cup {"unresolved"}
      PROVE  ReadStillHolds(s)'
  BY <1>1 DEF ReadStillHolds, Idle, LoadingJob, LoadingTask, Resuming, Replying
<1>2. CASE Receive(s)
  <2>1. CASE req'[s].pc = "begin"
    BY <1>1, <2>1 DEF Resuming
  <2> QED
    BY <1>0, <1>2, <2>1, ReceivedNow DEF ReadStillHolds, LoadingJob, LoadingTask, tables, Activatable
<1>3. CASE Proceed(s)
  <2>1. CASE LoadsMore(s)
    <3>1. jobs' = jobs /\ tasks' = tasks
      BY <2>1 DEF LoadsMore, tables
    <3> QED
      BY <1>0, <2>1, <3>1 DEF LoadsMore, ReadStillHolds, LoadingJob, LoadingTask
  <2>2. CASE MovesOn(s)
    BY <1>1, <2>2 DEF MovesOn
  <2>3. CASE LocksOne(s)
    <3>1. PICK k \in q.todo :
            /\ req'[s].todo = q.todo \ {k}
            /\ jobs' = Updated(jobs, k, Activated(jobs[k], q.worker))
      BY <2>3 DEF LocksOne
    <3>2. q.todo \subseteq JobKey
      BY <1>0 DEF ReqRecord
    <3>3. ASSUME NEW l \in q.todo \ {k}
          PROVE  Activatable(l)'
      <4>1. jobs'[l] = jobs[l]
        BY <1>0, <3>1, <3>2, <3>3 DEF Updated, TypeOK
      <4>2. Activatable(l)
        BY <1>0, <2>3, <3>3 DEF ReadStillHolds, LocksOne
      <4> QED
        BY <4>1, <4>2 DEF Activatable
    <3> QED
      BY <2>3, <3>1, <3>3 DEF LocksOne, ReadStillHolds, LoadingJob, LoadingTask
  <2>4. CASE Resume(s, q.inst)
    BY <1>0, <1>1, <2>4 DEF Resume, TypeOK, Idle, Resuming
  <2> QED
    BY <1>0, <1>1, <1>3, <2>1, <2>2, <2>3, <2>4, ProceedsNow
<1>4. CASE req'[s] = q /\ ~Proceed(s)
  <2>0. q.pc \in LoadingJob \cup LoadingTask \cup {"resolve_tx"} => Touches(s) = {q.inst}
    BY DEF Touches, LoadingJob, LoadingTask
  <2>1. CASE q.pc \in LoadingJob
    <3>1. /\ q.key \in JobKey /\ jobs[q.key].state # "absent"
          /\ jobs[q.key].inst \in Touches(s)
      BY <1>0, <2>0, <2>1 DEF RequestOK
    <3>2. jobs'[q.key] = jobs[q.key] \/ JobAged(q.key)
      BY <1>4, <3>1, OthersKeepMyRows
    <3>3. JobIsActivated(jobs'[q.key]) /\ q.at = jobs'[q.key].node
      BY <1>0, <2>1, <3>1, <3>2, AgedJob DEF ReadStillHolds
    <3> QED
      BY <1>4, <2>1, <3>3 DEF ReadStillHolds, LoadingJob, LoadingTask
  <2>2. CASE q.pc \in LoadingTask
    <3>1. /\ q.key \in TaskKey /\ tasks[q.key].state # "absent"
          /\ tasks[q.key].inst \in Touches(s)
      BY <1>0, <2>0, <2>2 DEF RequestOK
    <3>2. tasks'[q.key] = tasks[q.key]
      BY <1>4, <3>1, OthersKeepMyRows
    <3> QED
      BY <1>0, <1>4, <2>2, <3>2 DEF ReadStillHolds, LoadingJob, LoadingTask
  <2>3. CASE q.pc = "resolve_tx"
    <3>1. /\ q.key \in IncidentKey /\ incidents[q.key].state # "absent"
          /\ incidents[q.key].inst \in Touches(s)
      BY <1>0, <2>0, <2>3 DEF RequestOK, ReadStillHolds
    <3>2. incidents'[q.key] = incidents[q.key]
      BY <1>4, <3>1, OthersKeepMyRows
    <3> QED
      BY <1>0, <1>4, <2>3, <3>2 DEF ReadStillHolds, LoadingJob, LoadingTask
  <2>4. CASE q.pc = "lock"
    <3>1. ASSUME NEW k \in q.todo
          PROVE  Activatable(k)'
      <4>1. k \in JobKey /\ Activatable(k)
        BY <1>0, <2>4 DEF ReadStillHolds, ReqRecord
      <4>2. jobs[k].state # "absent" /\ jobs[k].inst \in Touches(s)
        BY <2>4, <4>1 DEF Activatable, Live, Touches
      <4>3. jobs'[k] = jobs[k] \/ JobAged(k)
        BY <1>4, <4>1, <4>2, OthersKeepMyRows
      <4>4. CASE jobs'[k] = jobs[k]
        BY <4>1, <4>4 DEF Activatable
      <4> QED
        BY <1>0, <4>1, <4>3, <4>4, AgedJob
    <3> QED
      BY <1>4, <2>4, <3>1 DEF ReadStillHolds, LoadingJob, LoadingTask
  <2> QED
    BY <1>4, <2>1, <2>2, <2>3, <2>4 DEF ReadStillHolds
<1> QED
  BY <1>0, <1>1, <1>2, <1>3, <1>4, RequestSteps

(* The completion that resumes an instance has done its only work.         *)
LEMMA CompletedLast ==
  ASSUME SerialInv, [Next]_vars, NEW r \in Request,
         CompleteJobTx(r) \/ CompleteTaskTx(r), Resume(r, req[r].inst)
  PROVE  /\ \A k \in JobKey : JobNotDone(k) /\ JobNotDone(k)' => jobs[k].inst # req[r].inst
         /\ \A k \in TaskKey :
              TaskIsOpen(tasks[k]) /\ TaskIsOpen(tasks'[k]) => tasks[k].inst # req[r].inst
<1> DEFINE j == req[r].key
           i == req[r].inst
<1>0. TypeOK /\ Consistent /\ OneThingToDo /\ ReadStillHolds(r)
  BY SerialParts
<1>1. CASE CompleteJobTx(r)
  <2>1. j \in JobKey /\ jobs[j].inst = i /\ JobNotDone(j)
    BY <1>0, <1>1, WriterPC, RequestKeys
       DEF ReadStillHolds, LoadingJob, JobIsActivated, JobNotDone
  <2>2. jobs' = Updated(jobs, j, CompletedJob(jobs[j]))
    BY <1>0, <1>1, CompletionWrites
  <2>3. jobs'[j].state = "completed"
    BY <1>0, <2>1, <2>2 DEF JobNotDone, Updated, CompletedJob, TypeOK, JobRow
  <2>4. ASSUME NEW k \in JobKey, JobNotDone(k), jobs[k].inst = i
        PROVE  k = j
    BY <1>0, <2>1, <2>4 DEF OneThingToDo
  <2>5. \A k \in JobKey : JobNotDone(k) /\ JobNotDone(k)' => jobs[k].inst # i
    BY <2>3, <2>4 DEF JobNotDone
  <2>6. \A k \in TaskKey : TaskIsOpen(tasks[k]) => tasks[k].inst # i
    BY <1>0, <2>1 DEF OneThingToDo
  <2> QED
    BY <2>5, <2>6
<1>2. CASE CompleteTaskTx(r)
  <2>1. j \in TaskKey /\ tasks[j].inst = i /\ TaskIsOpen(tasks[j])
    BY <1>0, <1>2, WriterPC, RequestKeys DEF ReadStillHolds, LoadingTask
  <2>2. tasks' = Updated(tasks, j, CompletedTask(tasks[j]))
    BY <1>0, <1>2, CompletionWrites
  <2>3. ~TaskIsOpen(tasks'[j])
    BY <1>0, <2>1, <2>2 DEF TaskIsOpen, Updated, CompletedTask, TypeOK, TaskRow
  <2> QED
    BY <1>0, <2>1, <2>3 DEF OneThingToDo
<1> QED
  BY <1>1, <1>2

LEMMA ResumedDoneStep ==
  ASSUME SerialInv, [Next]_vars
  PROVE  ResumedIsDone'
<1>0. /\ TypeOK /\ Consistent /\ ResumedIsDone /\ NoOverlap /\ OneThingToDo
      /\ RuntimeRowsHaveInstance
  BY SerialParts
<1> SUFFICES ASSUME NEW r \in Request, req'[r].pc \in Resuming
             PROVE  /\ \A k \in JobKey : JobNotDone(k)' => jobs'[k].inst # req'[r].inst
                    /\ \A k \in TaskKey : TaskIsOpen(tasks'[k]) => tasks'[k].inst # req'[r].inst
  BY DEF ResumedIsDone
<1> DEFINE q == req[r]
           OldJob(k) == JobNotDone(k) /\ jobs'[k].inst = jobs[k].inst
           OldTask(k) == TaskIsOpen(tasks[k]) /\ tasks'[k] = tasks[k]
(* Work inserted by another request is of another instance. *)
<1>1. ASSUME NEW s \in Request, s # r, req[s].pc = "run",
             q.pc \in Resuming \cup {"job_tx", "task_tx"}
      PROVE  req[s].inst # q.inst
  BY <1>0, <1>1 DEF NoOverlap, Touches, Resuming
<1>2. ASSUME NEW k \in JobKey, JobNotDone(k)'
      PROVE  OldJob(k) \/ \E s \in Request : JobInserted(s, k) /\ jobs'[k].inst = req[s].inst
  BY <1>2, NotDoneBefore DEF NewJob, NoJob
<1>3. ASSUME NEW k \in TaskKey, TaskIsOpen(tasks'[k])
      PROVE  OldTask(k) \/ \E s \in Request : TaskInserted(s, k) /\ tasks'[k].inst = req[s].inst
  BY <1>3, NotDoneBefore DEF NewTask, NoTask
<1>4. /\ \A s \in Request, k \in JobKey : JobInserted(s, k) => req[s].pc = "run" /\ Proceed(s)
      /\ \A s \in Request, k \in TaskKey : TaskInserted(s, k) => req[s].pc = "run" /\ Proceed(s)
  BY WriterPC, RowStepsProceed DEF JobInserted, TaskInserted
<1>5. CASE q.pc \in Resuming /\ req'[r] = q /\ ~Proceed(r)
  <2>1. ASSUME NEW k \in JobKey, JobNotDone(k)'
        PROVE  jobs'[k].inst # q.inst
    BY <1>0, <1>1, <1>2, <1>4, <1>5, <2>1 DEF ResumedIsDone
  <2>2. ASSUME NEW k \in TaskKey, TaskIsOpen(tasks'[k])
        PROVE  tasks'[k].inst # q.inst
    BY <1>0, <1>1, <1>3, <1>4, <1>5, <2>2 DEF ResumedIsDone
  <2> QED
    BY <1>5, <2>1, <2>2
<1>6. CASE MovesOn(r)
  <2>1. /\ jobs' = jobs /\ tasks' = tasks /\ q.pc \in Resuming /\ req'[r].inst = q.inst
    BY <1>6 DEF MovesOn, tables
  <2> QED
    BY <1>0, <2>1 DEF ResumedIsDone, JobNotDone
<1>7. CASE (CompleteJobTx(r) \/ CompleteTaskTx(r)) /\ Resume(r, q.inst)
  <2>1. req'[r].inst = q.inst
    BY <1>0, <1>7 DEF Resume, TypeOK, Idle
  <2>2. q.pc \in {"job_tx", "task_tx"}
    BY <1>7, WriterPC
  <2>3. ASSUME NEW k \in JobKey, JobNotDone(k)'
        PROVE  jobs'[k].inst # q.inst
    BY <1>1, <1>2, <1>4, <1>7, <2>2, <2>3, CompletedLast
  <2>4. ASSUME NEW k \in TaskKey, TaskIsOpen(tasks'[k])
        PROVE  tasks'[k].inst # q.inst
    BY <1>1, <1>3, <1>4, <1>7, <2>2, <2>4, CompletedLast
  <2> QED
    BY <2>1, <2>3, <2>4
<1>8. CASE Receive(r)
  <2>1. /\ instance[req'[r].inst] = "none" /\ jobs' = jobs /\ tasks' = tasks
    BY <1>0, <1>8, ReceivedNow DEF Resuming, LoadingJob, LoadingTask
  <2> QED
    BY <1>0, <2>1 DEF RuntimeRowsHaveInstance, JobNotDone, TaskIsOpen
<1>9. CASE Proceed(r)
  BY <1>0, <1>6, <1>7, <1>9, ProceedsNow
     DEF Idle, Resuming, Replying, LoadsMore, LocksOne, LoadingJob, LoadingTask
<1> QED
  BY <1>0, <1>5, <1>8, <1>9, RequestSteps DEF Idle, Resuming

-----------------------------------------------------------------------------
(* Incidents, and what an ended instance leaves behind.                    *)

(* A new incident is for a job that a worker held until now.               *)
LEMMA RaisedNow ==
  ASSUME SerialInv, NEW r \in Request, NEW x \in IncidentKey, IncidentRaised(r, x)
  PROVE  LET k == req[r].key
         IN /\ k \in JobKey /\ JobIsActivated(jobs[k]) /\ jobs[k].inst = req[r].inst
            /\ jobs' = Updated(jobs, k, DeadJob(jobs[k]))
            /\ incidents'[x] = NewIncident(req[r].inst, k)
            /\ \A y \in IncidentKey \ {x} : incidents'[y] = incidents[y]
<1>0. TypeOK /\ Consistent /\ ReadStillHolds(r)
  BY SerialParts
<1>1. FailJobDead(r) /\ req[r].pc = "fail_tx"
  BY WriterPC DEF IncidentRaised
<1>2. /\ req[r].key \in JobKey /\ jobs[req[r].key].inst = req[r].inst
      /\ JobIsActivated(jobs[req[r].key])
  BY <1>0, <1>1, RequestKeys DEF ReadStillHolds, LoadingJob
<1>3. jobs' = Updated(jobs, req[r].key, DeadJob(jobs[req[r].key]))
  BY <1>1 DEF FailJobDead
<1>4. /\ incidents'[x] = NewIncident(req[r].inst, req[r].key)
      /\ \A y \in IncidentKey \ {x} : incidents'[y] = incidents[y]
  BY <1>0 DEF IncidentRaised, TypeOK
<1> QED
  BY <1>2, <1>3, <1>4

(* The state of an incident after a step.                                  *)
LEMMA IncidentStates ==
  ASSUME SerialInv, [Next]_vars, NEW x \in IncidentKey
  PROVE  \/ incidents'[x] = incidents[x]
         \/ \E r \in Request : IncidentRaised(r, x)
         \/ /\ incidents'[x].state = "resolved" /\ Live(incidents[x])
            /\ incidents'[x].inst = incidents[x].inst
         \/ incidents'[x].archived
<1>0. TypeOK /\ Consistent /\ incidents[x] \in IncidentRow
  BY SerialParts DEF TypeOK
<1>1. ASSUME NEW r \in Request, IncidentResolved(r, x)
      PROVE  /\ incidents'[x].state = "resolved" /\ Live(incidents[x])
             /\ incidents'[x].inst = incidents[x].inst
  BY <1>0, <1>1 DEF IncidentResolved, ResolvedIncident, IncidentRow
<1>2. ASSUME NEW r \in Request, IncidentArchived(r, x)
      PROVE  incidents'[x].archived
  BY <1>0, <1>2 DEF IncidentArchived, IncidentRow
<1> QED
  BY <1>0, <1>1, <1>2, IncidentSteps

(* The dead job of an active incident stays dead until the incident is     *)
(* resolved or archived.                                                   *)
LEMMA DeadStays ==
  ASSUME SerialInv, [Next]_vars, NEW x \in IncidentKey,
         Live(incidents[x]), incidents[x].state = "active", incidents'[x] = incidents[x]
  PROVE  LET k == incidents[x].job
         IN Live(jobs'[k]) /\ jobs'[k].state = "dead"
<1> DEFINE k == incidents[x].job
<1>0. TypeOK /\ Consistent /\ ActiveIncidentMeansDeadJob /\ \A r \in Request : ReadStillHolds(r)
  BY SerialParts
<1>1. /\ k \in JobKey /\ incidents[x].inst = jobs[k].inst
      /\ Live(jobs[k]) /\ jobs[k].state = "dead"
  BY <1>0 DEF Consistent, RowsOK, Live, ActiveIncidentMeansDeadJob
<1>2. ASSUME NEW r \in Request, JobReset(r, k)
      PROVE  FALSE
  <2> DEFINE y == req[r].key
  <2>1. /\ y \in IncidentKey /\ incidents[y].job = k /\ Live(incidents[y])
        /\ incidents[y].state = "active"
        /\ incidents' = Updated(incidents, y, ResolvedIncident(incidents[y]))
    BY <1>0, <1>2, WriterPC, RequestKeys DEF JobReset, ReadStillHolds, ResolveIncidentTx
  <2>2. y = x
    BY <1>0, <2>1 DEF ActiveIncidentMeansDeadJob
  <2>3. incidents'[x].state = "resolved"
    BY <1>0, <2>1, <2>2 DEF Updated, ResolvedIncident, TypeOK, IncidentRow
  <2> QED
    BY <2>3
<1>3. ASSUME NEW r \in Request, JobArchived(r, k)
      PROVE  FALSE
  <2>1. incidents' = MovedToHistory(incidents, jobs[k].inst)
    BY <1>3 DEF JobArchived, CancelTaskTx, HandleEndEvent, ArchiveInstance
  <2>2. incidents'[x].archived
    BY <1>0, <1>1, <2>1 DEF MovedToHistory, TypeOK, IncidentRow
  <2> QED
    BY <2>2 DEF Live
<1>4. ASSUME NEW r \in Request
      PROVE  ~JobRetried(r, k) /\ ~JobKilled(r, k) /\ ~JobTaken(r, k)
  BY <1>1, ReadJobs DEF JobIsActivated, Activatable
<1>5. ~\E r \in Request : JobInserted(r, k)
  BY <1>1 DEF JobInserted
<1> QED
  BY <1>1, <1>2, <1>3, <1>4, <1>5, JobStates DEF Live

LEMMA IncidentsHold ==
  ASSUME SerialInv, [Next]_vars
  PROVE  ActiveIncidentMeansDeadJob'
<1>0. TypeOK /\ Consistent /\ ActiveIncidentMeansDeadJob
  BY SerialParts
<1> SUFFICES ASSUME NEW x \in IncidentKey, Live(incidents'[x]), incidents'[x].state = "active"
             PROVE  LET k == incidents'[x].job
                    IN /\ Live(jobs'[k]) /\ jobs'[k].state = "dead"
                       /\ \A y \in IncidentKey \ {x} :
                            Live(incidents'[y]) /\ incidents'[y].job = k =>
                              incidents'[y].state = "resolved"
  BY DEF ActiveIncidentMeansDeadJob
<1>1. ASSUME NEW r \in Request, IncidentRaised(r, x)
      PROVE  LET k == incidents'[x].job
             IN /\ Live(jobs'[k]) /\ jobs'[k].state = "dead"
                /\ \A y \in IncidentKey \ {x} :
                     Live(incidents'[y]) /\ incidents'[y].job = k =>
                       incidents'[y].state = "resolved"
  <2> DEFINE k == req[r].key
  <2>1. /\ k \in JobKey /\ JobIsActivated(jobs[k])
        /\ jobs' = Updated(jobs, k, DeadJob(jobs[k]))
        /\ incidents'[x] = NewIncident(req[r].inst, k)
        /\ \A y \in IncidentKey \ {x} : incidents'[y] = incidents[y]
    BY <1>1, RaisedNow
  <2>2. incidents'[x].job = k
    BY <2>1 DEF NewIncident
  <2>3. jobs'[k] = DeadJob(jobs[k])
    BY <1>0, <2>1 DEF Updated, TypeOK, JobIsActivated
  <2>4. Live(jobs'[k]) /\ jobs'[k].state = "dead"
    <3>1. jobs[k] \in JobRow
      BY <1>0, <2>1 DEF TypeOK
    <3>2. jobs'[k].state = "dead" /\ jobs'[k].archived = jobs[k].archived
      BY <2>3, <3>1 DEF DeadJob, JobRow
    <3> QED
      BY <2>1, <3>2 DEF Live, JobIsActivated
  <2>5. ASSUME NEW y \in IncidentKey \ {x}, Live(incidents'[y]), incidents'[y].job = k
        PROVE  incidents'[y].state = "resolved"
    BY <1>0, <2>1, <2>5 DEF ActiveIncidentMeansDeadJob, JobIsActivated, Live, TypeOK, IncidentRow
  <2> QED
    BY <2>2, <2>4, <2>5
<1>2. CASE incidents'[x] = incidents[x]
  <2> DEFINE k == incidents[x].job
  <2>1. Live(jobs'[k]) /\ jobs'[k].state = "dead"
    BY <1>2, DeadStays
  <2>2. jobs[k].state = "dead"
    BY <1>0, <1>2 DEF ActiveIncidentMeansDeadJob
  <2>3. ASSUME NEW y \in IncidentKey \ {x}, Live(incidents'[y]), incidents'[y].job = k
        PROVE  incidents'[y].state = "resolved"
    <3>1. CASE incidents'[y] = incidents[y]
      BY <1>0, <1>2, <2>3, <3>1 DEF ActiveIncidentMeansDeadJob
    <3>2. ASSUME NEW r \in Request, IncidentRaised(r, y)
          PROVE  FALSE
      <4>1. incidents'[y] = NewIncident(req[r].inst, req[r].key) /\ JobIsActivated(jobs[req[r].key])
        BY <3>2, RaisedNow
      <4>2. req[r].key = k
        BY <2>3, <4>1 DEF NewIncident
      <4> QED
        BY <2>2, <4>1, <4>2 DEF JobIsActivated
    <3> QED
      BY <2>3, <3>1, <3>2, IncidentStates DEF Live
  <2> QED
    BY <1>2, <2>1, <2>3
<1> QED
  BY <1>1, <1>2, IncidentStates DEF Live

(* The variables of an instance are written while it is active.            *)
LEMMA ScopeWrites ==
  ASSUME SerialInv, [Next]_vars, NEW i \in InstanceKey
  PROVE  \/ scope'[i] = scope[i]
         \/ scope'[i] = EmptyScope
         \/ instance[i] = "none"
         \/ instance[i] = "active" /\ instance'[i] = "active"
<1>0. TypeOK /\ Consistent /\ RuntimeRowsHaveInstance /\ \A r \in Request : ReadStillHolds(r)
  BY SerialParts
<1>1. CASE UNCHANGED tables
  BY <1>1 DEF tables
<1>2. ASSUME NEW j \in JobKey, LockExpires(j) \/ RetryDue(j)
      PROVE  scope'[i] = scope[i]
  BY <1>2 DEF LockExpires, RetryDue
<1>3. ASSUME NEW r \in Request, Writes(r), scope'[i] # scope[i]
      PROVE  \/ scope'[i] = EmptyScope
             \/ instance[i] = "none"
             \/ instance[i] = "active" /\ instance'[i] = "active"
  <2>1. CASE StartInstance(r)
    BY <1>0, <1>3, <2>1 DEF StartInstance, TypeOK
  <2>2. CASE CompleteJobTx(r) \/ CompleteTaskTx(r)
    <3>1. req[r].inst = i /\ instance' = instance
      BY <1>0, <1>3, <2>2 DEF CompleteJobTx, CompleteTaskTx, CompletionTx, TypeOK
    <3>2. CASE CompleteJobTx(r)
      <4>1. /\ req[r].key \in JobKey /\ jobs[req[r].key].inst = i
            /\ JobIsActivated(jobs[req[r].key])
        BY <1>0, <3>1, <3>2, WriterPC, RequestKeys DEF ReadStillHolds, LoadingJob
      <4> QED
        BY <1>0, <3>1, <4>1 DEF RuntimeRowsHaveInstance, JobIsActivated
    <3>3. CASE CompleteTaskTx(r)
      <4>1. /\ req[r].key \in TaskKey /\ tasks[req[r].key].inst = i
            /\ TaskIsOpen(tasks[req[r].key])
        BY <1>0, <3>1, <3>3, WriterPC, RequestKeys DEF ReadStillHolds, LoadingTask
      <4> QED
        BY <1>0, <3>1, <4>1 DEF RuntimeRowsHaveInstance, TaskIsOpen
    <3> QED
      BY <2>2, <3>2, <3>3
  <2>3. CASE CancelTaskTx(r) \/ HandleEndEvent(r)
    <3>1. scope' = [scope EXCEPT ![req[r].inst] = EmptyScope]
      BY <2>3 DEF CancelTaskTx, HandleEndEvent, ArchiveInstance
    <3> QED
      BY <1>0, <1>3, <3>1 DEF TypeOK
  <2>4. CASE HandleGateway(r) \/ HandleServiceTask(r) \/ HandleManualTask(r)
    BY <1>3, <2>4 DEF HandleGateway, HandleServiceTask, HandleManualTask, Continue, tables
  <2>5. CASE FailJobRetry(r) \/ FailJobDead(r) \/ ResolveIncidentTx(r) \/ LockJob(r)
    BY <1>3, <2>5 DEF FailJobRetry, FailJobDead, ResolveIncidentTx, LockJob
  <2> QED
    BY <1>3, <2>1, <2>2, <2>3, <2>4, <2>5 DEF Writes
<1> QED
  BY <1>0, <1>1, <1>2, <1>3, WritingSteps

LEMMA NothingLeftStep ==
  ASSUME SerialInv, [Next]_vars
  PROVE  NoRowsLeftBehind'
<1>0. TypeOK /\ Consistent /\ RuntimeRowsHaveInstance /\ NoRowsLeftBehind
  BY SerialParts
<1> SUFFICES ASSUME NEW i \in InstanceKey, Ended(i)'
             PROVE  /\ scope'[i] = EmptyScope
                    /\ \A x \in IncidentKey : incidents'[x].inst = i => incidents'[x].archived
  BY DEF NoRowsLeftBehind
<1>1. CASE Ended(i)
  <2>1. scope'[i] = EmptyScope
    BY <1>0, <1>1, ScopeWrites DEF NoRowsLeftBehind, Ended
  <2>2. ASSUME NEW x \in IncidentKey, incidents'[x].inst = i
        PROVE  incidents'[x].archived
    <3>1. ASSUME NEW r \in Request, IncidentRaised(r, x)
          PROVE  FALSE
      <4>1. /\ req[r].key \in JobKey /\ JobIsActivated(jobs[req[r].key])
            /\ jobs[req[r].key].inst = req[r].inst
            /\ incidents'[x] = NewIncident(req[r].inst, req[r].key)
        BY <3>1, RaisedNow
      <4>2. req[r].inst = i
        BY <2>2, <4>1 DEF NewIncident
      <4> QED
        BY <1>0, <1>1, <4>1, <4>2 DEF RuntimeRowsHaveInstance, JobIsActivated, Ended
    <3> QED
      BY <1>0, <1>1, <2>2, <3>1, IncidentStates DEF NoRowsLeftBehind, Live
  <2> QED
    BY <2>1, <2>2
<1>2. ASSUME NEW r \in Request, req[r].inst = i, CancelTaskTx(r) \/ HandleEndEvent(r)
      PROVE  /\ scope'[i] = EmptyScope
             /\ \A x \in IncidentKey : incidents'[x].inst = i => incidents'[x].archived
  <2>1. /\ scope' = [scope EXCEPT ![i] = EmptyScope]
        /\ incidents' = MovedToHistory(incidents, i)
    BY <1>2 DEF CancelTaskTx, HandleEndEvent, ArchiveInstance
  <2>2. scope'[i] = EmptyScope
    BY <1>0, <2>1 DEF TypeOK
  <2>3. ASSUME NEW x \in IncidentKey, incidents'[x].inst = i
        PROVE  incidents'[x].archived
    <3>1. incidents[x] \in IncidentRow
      BY <1>0 DEF TypeOK
    <3>2. incidents'[x] = IF incidents[x].inst = i THEN [incidents[x] EXCEPT !.archived = TRUE]
                          ELSE incidents[x]
      BY <1>0, <2>1 DEF MovedToHistory, TypeOK
    <3> QED
      BY <2>3, <3>1, <3>2 DEF IncidentRow
  <2> QED
    BY <2>2, <2>3
<1> QED
  BY <1>0, <1>1, <1>2, InstanceSteps DEF Ended

-----------------------------------------------------------------------------
(* The theorems.                                                           *)

LEMMA SerialInit ==
  ASSUME Init
  PROVE  SerialInv
<1>1. \A r \in Request : req[r].pc = "idle"
  BY DEF Init, Idle
<1>2. NoOverlap
  BY <1>1 DEF NoOverlap, Touches
<1>3. OneThingToDo
  BY DEF Init, OneThingToDo, JobNotDone, TaskIsOpen, Live, NoJob, NoTask
<1>4. ResumedIsDone /\ \A r \in Request : ReadStillHolds(r)
  BY <1>1 DEF ResumedIsDone, ReadStillHolds, Resuming, LoadingJob, LoadingTask
<1>5. ActiveIncidentMeansDeadJob
  BY DEF Init, ActiveIncidentMeansDeadJob, Live, NoIncident
<1>6. NoRowsLeftBehind
  BY DEF Init, NoRowsLeftBehind, Ended
<1> QED
  BY <1>2, <1>3, <1>4, <1>5, <1>6, InitOK DEF SerialInv

LEMMA SerialStep ==
  ASSUME SerialInv, [Next /\ NoOverlap']_vars
  PROVE  SerialInv'
<1>1. [Next]_vars
  OBVIOUS
<1>2. NoOverlap'
  <2>1. CASE UNCHANGED vars
    <3>1. req' = req /\ jobs' = jobs
      BY <2>1 DEF vars
    <3>2. \A r \in Request : Touches(r)' = Touches(r)
      BY <3>1 DEF Touches
    <3> QED
      BY <3>2, SerialParts DEF NoOverlap
  <2> QED
    BY <2>1
<1>3. IInv'
  BY <1>1, IInvStep DEF SerialInv
<1>4. \A r \in Request : ReadStillHolds(r)'
  BY <1>1, ReadsStep
<1> QED
  BY <1>1, <1>2, <1>3, <1>4, OneThingStep, ResumedDoneStep, IncidentsHold, NothingLeftStep
     DEF SerialInv

(* As long as requests for one instance do not overlap, every request      *)
(* still finds what it read, and an instance has one thing to be done      *)
(* (jobs.rs, manual_tasks.rs and run.rs, which read outside their          *)
(* transactions).                                                          *)
THEOREM SerialInvariant == SerialSpec => []SerialInv
<1>1. Init => SerialInv
  BY SerialInit
<1>2. SerialInv /\ [Next /\ NoOverlap']_vars => SerialInv'
  BY SerialStep
<1> QED
  BY <1>1, <1>2, PTL DEF SerialSpec

(* An instance waits for at most one thing, at the node of its token       *)
(* (step.rs: the single execution is parked at one wait state).            *)
THEOREM OneThingIsOpen == SerialSpec => []OneOpenItem
<1>1. SerialInv => OneOpenItem
  <2> SUFFICES ASSUME SerialInv, NEW i \in InstanceKey
               PROVE  /\ Cardinality(OpenItems(i)) <= 1
                      /\ \A item \in OpenItems(i) : item.node = token[i]
    BY DEF OneOpenItem
  <2> DEFINE Job(k) == [kind |-> "job", key |-> k, node |-> jobs[k].node]
             Task(k) == [kind |-> "task", key |-> k, node |-> tasks[k].node]
  <2>1. OneThingToDo
    BY SerialParts
  <2>2. \A a \in OpenItems(i) :
          \/ \E k \in JobKey : JobNotDone(k) /\ jobs[k].inst = i /\ a = Job(k)
          \/ \E k \in TaskKey : TaskIsOpen(tasks[k]) /\ tasks[k].inst = i /\ a = Task(k)
    BY DEF OpenItems, JobNotDone, TaskIsOpen
  <2>3. \A a \in OpenItems(i) : a.node = token[i]
    BY <2>1, <2>2 DEF OneThingToDo
  <2>4. \A a, b \in OpenItems(i) : a = b
    BY <2>1, <2>2 DEF OneThingToDo
  <2>5. CASE OpenItems(i) = {}
    BY <2>3, <2>5, FS_EmptySet
  <2>6. ASSUME NEW a \in OpenItems(i)
        PROVE  Cardinality(OpenItems(i)) <= 1
    <3>1. OpenItems(i) = {a}
      BY <2>4, <2>6
    <3>2. Cardinality({a}) = 1
      BY FS_Singleton
    <3> QED
      BY <3>1, <3>2
  <2> QED
    BY <2>3, <2>5, <2>6
<1> QED
  BY <1>1, SerialInvariant, PTL

(* No variable and no incident of an ended instance stays in the runtime   *)
(* tables (archive.rs 5, history.rs 5-6).                                  *)
THEOREM NothingLeftBehind == SerialSpec => []NoRowsLeftBehind
<1>1. SerialInv => NoRowsLeftBehind
  BY DEF SerialInv
<1> QED
  BY <1>1, SerialInvariant, PTL

(* An active incident stands for a job that is dead now, and no other      *)
(* active incident does (jobs.rs 176-202 and 240-246).                     *)
THEOREM IncidentsAreForDeadJobs == SerialSpec => []ActiveIncidentMeansDeadJob
<1>1. SerialInv => ActiveIncidentMeansDeadJob
  BY DEF SerialInv
<1> QED
  BY <1>1, SerialInvariant, PTL

(* A completed job or a finished manual task is never worked on again      *)
(* (jobs.rs 23-28 and 139-144, manual_tasks.rs 27-32 and 127-132).         *)
THEOREM FinishedForGood == SerialSpec => FinishedStaysFinished
<1> DEFINE Kept == /\ \A k \in JobKey :
                        jobs[k].state = "completed" => jobs'[k].state = "completed"
                   /\ \A k \in TaskKey :
                        tasks[k].state \in {"completed", "cancelled"} =>
                          tasks'[k].state = tasks[k].state
<1>1. SerialInv /\ [Next /\ NoOverlap']_vars => [Kept]_vars
  BY FinishedStep
<1> QED
  BY <1>1, SerialInvariant, PTL DEF SerialSpec, FinishedStaysFinished

(* No worker is given a job that another worker holds (store/jobs.rs       *)
(* 70-71).                                                                 *)
THEOREM LocksAreExclusive == SerialSpec => LockIsExclusive
<1> DEFINE Kept(k) ==
             (/\ Live(jobs[k]) /\ jobs[k].state = "activated" /\ jobs[k].lock = "live"
              /\ jobs'[k].state = "activated")
             => jobs'[k].worker = jobs[k].worker
<1>1. SerialInv /\ [Next /\ NoOverlap']_vars => [\A k \in JobKey : Kept(k)]_vars
  <2> SUFFICES ASSUME SerialInv, [Next]_vars, NEW k \in JobKey,
                      jobs[k].state = "activated", jobs[k].lock = "live",
                      jobs'[k].state = "activated"
               PROVE  jobs'[k].worker = jobs[k].worker
    OBVIOUS
  <2>1. ASSUME NEW r \in Request, JobArchived(r, k)
        PROVE  jobs'[k].worker = jobs[k].worker
    BY <2>1, SerialParts DEF JobArchived, TypeOK, JobRow
  <2>2. ~Activatable(k)
    BY DEF Activatable
  <2> QED
    BY <2>1, <2>2, JobStates DEF JobInserted
<1> QED
  BY <1>1, SerialInvariant, PTL DEF SerialSpec, LockIsExclusive

(* A completion that commits completes work that is still to be done       *)
(* (it_manual_task.rs 222, jobs.rs 11).                                    *)
THEOREM WorkIsCompletedOnce == SerialSpec => WorkCompletedOnce
<1> DEFINE Open(r) == /\ req[r].pc = "task_tx" =>
                           Live(tasks[req[r].key]) /\ tasks[req[r].key].state = "open"
                      /\ req[r].pc = "job_tx" =>
                           Live(jobs[req[r].key]) /\ jobs[req[r].key].state = "activated"
           Kept == \A r \in Request : req'[r].pc = "begin" => Open(r)
<1>1. SerialInv /\ [Next /\ NoOverlap']_vars => [Kept]_vars
  <2> SUFFICES ASSUME SerialInv, NEW r \in Request
               PROVE  Open(r)
    OBVIOUS
  <2> QED
    BY SerialParts DEF ReadStillHolds, LoadingJob, LoadingTask, JobIsActivated, TaskIsOpen
<1> QED
  BY <1>1, SerialInvariant, PTL DEF SerialSpec, WorkCompletedOnce

(* A cancellation that commits finds its task open and leaves the instance *)
(* cancelled (manual_tasks.rs 115).                                        *)
THEOREM CancelledMeansCancelled == SerialSpec => CancelMeansCancelled
<1> DEFINE Kept == \A r \in Request :
                     CancelTaskTx(r) =>
                       /\ tasks[req[r].key].state = "open"
                       /\ instance'[req[r].inst] = "cancelled"
<1>1. SerialInv /\ [Next /\ NoOverlap']_vars => [Kept]_vars
  <2> SUFFICES ASSUME SerialInv, NEW r \in Request, CancelTaskTx(r)
               PROVE  /\ tasks[req[r].key].state = "open"
                      /\ instance'[req[r].inst] = "cancelled"
    OBVIOUS
  <2> DEFINE k == req[r].key
             i == req[r].inst
  <2>1. TypeOK /\ Consistent /\ RuntimeRowsHaveInstance /\ ReadStillHolds(r)
    BY SerialParts
  <2>2. /\ k \in TaskKey /\ i \in InstanceKey /\ i = tasks[k].inst
        /\ TaskIsOpen(tasks[k])
    BY <2>1, WriterPC, RequestKeys DEF ReadStillHolds, LoadingTask
  <2>3. instance[i] = "active"
    BY <2>1, <2>2 DEF RuntimeRowsHaveInstance, TaskIsOpen
  <2>4. instance' = [instance EXCEPT ![i] = EndStatus(@, "cancelled")]
    BY DEF CancelTaskTx, ArchiveInstance
  <2>5. instance'[i] = "cancelled"
    BY <2>1, <2>2, <2>3, <2>4 DEF EndStatus, TypeOK
  <2> QED
    BY <2>2, <2>5 DEF TaskIsOpen
<1> QED
  BY <1>1, SerialInvariant, PTL DEF SerialSpec, CancelMeansCancelled

-----------------------------------------------------------------------------
(***************************************************************************)
(* The engine implements the token game of Workflow while requests for one *)
(* instance do not overlap.  First, what the token game can see of a step: *)
(* five kinds of steps change it, each for one instance.  Then the         *)
(* inductive invariant, and each step mapped.                              *)
(***************************************************************************)

(* A request finishes work, runs to a wait state, or moves its instance in *)
(* any way.                                                                *)
Finishes(r) ==
  /\ CompleteJobTx(r) \/ CompleteTaskTx(r)
  /\ Resume(r, req[r].inst)

Arrives(r) ==
  \/ HandleServiceTask(r) \/ HandleManualTask(r) \/ HandleEndEvent(r)
  \/ HandleGateway(r) /\ Park(r)

Moves(r) == Finishes(r) \/ Arrives(r) \/ CancelTaskTx(r)

-----------------------------------------------------------------------------
(* What the token game sees of a step.                                     *)

LEMMA MovingSteps ==
  ASSUME TypeOK, [Next]_vars
  PROVE  \/ UNCHANGED <<instance, token, scope, raised>>
         \/ \E r \in Request : StartInstance(r) \/ Moves(r)
<1>1. ASSUME NEW r \in Request, Writes(r)
      PROVE  \/ UNCHANGED <<instance, token, scope, raised>>
             \/ StartInstance(r) \/ Moves(r)
  <2>1. CASE CompleteJobTx(r) \/ CompleteTaskTx(r)
    BY <2>1 DEF CompleteJobTx, CompleteTaskTx, CompletionTx, Moves, Finishes
  <2>2. CASE FailJobRetry(r) \/ FailJobDead(r) \/ ResolveIncidentTx(r) \/ LockJob(r)
    BY <2>2 DEF FailJobRetry, FailJobDead, ResolveIncidentTx, LockJob
  <2>3. CASE HandleGateway(r)
    BY <2>3 DEF HandleGateway, Continue, tables, Moves, Arrives
  <2> QED
    BY <1>1, <2>1, <2>2, <2>3 DEF Writes, Moves, Arrives
<1>2. ASSUME NEW j \in JobKey, LockExpires(j) \/ RetryDue(j)
      PROVE  UNCHANGED <<instance, token, scope, raised>>
  BY <1>2 DEF LockExpires, RetryDue
<1> QED
  BY <1>1, <1>2, WritingSteps DEF tables

(* A request that moves an instance is the only one that acts.             *)
LEMMA MovesAlone ==
  ASSUME TypeOK, NEW r \in Request, Moves(r)
  PROVE  /\ req[r].pc \in {"job_tx", "task_tx", "cancel_tx", "run"}
         /\ req'[r].pc # req[r].pc
         /\ Finishes(r) => req'[r].pc = "begin" /\ req'[r].inst = req[r].inst
         /\ Arrives(r) => req'[r].pc = "status" /\ req[r].pc = "run"
         /\ CancelTaskTx(r) => req'[r].pc = "idle"
         /\ \A s \in Request : s # r => req'[s] = req[s]
<1>1. CASE Finishes(r)
  <2>1. Resume(r, req[r].inst) /\ req[r].pc \in {"job_tx", "task_tx"}
    BY <1>1, WriterPC DEF Finishes
  <2>2. req'[r].pc = "begin" /\ req'[r].inst = req[r].inst
    BY <2>1 DEF Resume, TypeOK, Idle
  <2>3. \A s \in Request : s # r => req'[s] = req[s]
    BY <2>1 DEF Resume, TypeOK
  <2>4. ~CancelTaskTx(r) /\ ~Arrives(r)
    BY <2>1, WriterPC DEF Arrives, HandleGateway, Dispatches
  <2> QED
    BY <2>1, <2>2, <2>3, <2>4
<1>2. CASE Arrives(r)
  <2>1. Commit(r) /\ req[r].pc = "run"
    BY <1>2, WriterPC DEF Arrives, HandleServiceTask, HandleManualTask, HandleEndEvent,
                          HandleGateway, Dispatches, Park
  <2>2. req[r] \in ReqRecord
    BY DEF TypeOK
  <2>3. req'[r].pc = "status"
    BY <2>1, <2>2 DEF Commit, Goto, TypeOK, ReqRecord
  <2>4. \A s \in Request : s # r => req'[s] = req[s]
    BY <2>1 DEF Commit, Goto, TypeOK
  <2>5. ~CancelTaskTx(r) /\ ~Finishes(r)
    BY <2>1, WriterPC DEF Finishes
  <2> QED
    BY <2>1, <2>3, <2>4, <2>5
<1>3. CASE CancelTaskTx(r)
  <2>1. Done(r) /\ req[r].pc = "cancel_tx"
    BY <1>3 DEF CancelTaskTx
  <2>2. req'[r].pc = "idle"
    BY <2>1 DEF Done, TypeOK, Idle
  <2>3. \A s \in Request : s # r => req'[s] = req[s]
    BY <2>1 DEF Done, TypeOK
  <2>4. ~Finishes(r) /\ ~Arrives(r)
    BY <2>1, WriterPC DEF Finishes, Arrives, HandleGateway, Dispatches
  <2> QED
    BY <2>1, <2>2, <2>3, <2>4
<1> QED
  BY <1>1, <1>2, <1>3 DEF Moves

LEMMA OneMoves ==
  ASSUME TypeOK, NEW r \in Request, NEW s \in Request, Moves(r), Moves(s) \/ StartInstance(s)
  PROVE  r = s
<1>1. CASE Moves(s)
  BY <1>1, MovesAlone
<1>2. CASE StartInstance(s)
  <2>1. req[s].pc = "idle" /\ \E i \in InstanceKey : Resume(s, i)
    BY <1>2 DEF StartInstance
  <2>2. r # s => req'[r] = req[r]
    BY <2>1 DEF Resume, TypeOK
  <2> QED
    BY <2>2, MovesAlone
<1> QED
  BY <1>1, <1>2

(* It moves its own instance.                                              *)
LEMMA MovesItsOwn ==
  ASSUME TypeOK, NEW r \in Request, Moves(r), NEW i \in InstanceKey, req[r].inst # i
  PROVE  /\ instance'[i] = instance[i] /\ token'[i] = token[i]
         /\ scope'[i] = scope[i] /\ raised'[i] = raised[i]
<1>1. CASE Finishes(r)
  <2>1. req'[r].pc = "begin"
    BY <1>1, MovesAlone
  <2>2. ~Done(r)
    BY <2>1 DEF Done, TypeOK, Idle
  <2> QED
    BY <1>1, <2>2
       DEF Finishes, CompleteJobTx, CompleteTaskTx, CompletionTx, AdvanceTo, TypeOK
<1>2. CASE CancelTaskTx(r) \/ HandleEndEvent(r)
  BY <1>2 DEF CancelTaskTx, HandleEndEvent, ArchiveInstance, TypeOK
<1>3. CASE HandleServiceTask(r) \/ HandleManualTask(r)
  BY <1>3 DEF HandleServiceTask, HandleManualTask, Park, TypeOK
<1>4. CASE HandleGateway(r) /\ Park(r)
  <2>1. req'[r].pc = "status" /\ req[r].pc = "run"
    BY <1>4, MovesAlone DEF Arrives, Moves
  <2>2. ASSUME NEW n, Continue(r, n)
        PROVE  FALSE
    <3>1. req'[r] = [req[r] EXCEPT !.at = n, !.steps = req[r].steps + 1]
      BY <2>2 DEF Continue, TypeOK
    <3>2. req[r] \in ReqRecord
      BY DEF TypeOK
    <3> QED
      BY <2>1, <3>1, <3>2 DEF ReqRecord
  <2> QED
    BY <1>4, <2>2 DEF HandleGateway, Park, TypeOK
<1> QED
  BY <1>1, <1>2, <1>3, <1>4 DEF Moves, Arrives

(* Work of an instance is inserted, finished or archived by a request that *)
(* moves it.                                                               *)
LEMMA WorkStays ==
  ASSUME SerialInv, [Next]_vars, NEW i \in InstanceKey,
         \A r \in Request : Moves(r) => req[r].inst # i
  PROVE  HasWork(i)' <=> HasWork(i)
<1>0. TypeOK /\ Consistent
  BY SerialParts
<1>1. ASSUME NEW k \in JobKey, JobNotDone(k)', jobs'[k].inst = i
      PROVE  HasWork(i)
  <2>1. ASSUME NEW r \in Request, JobInserted(r, k), jobs'[k] = NewJob(req[r].inst, req[r].at)
        PROVE  FALSE
    <3>1. jobs'[k].inst = req[r].inst
      BY <2>1 DEF NewJob, NoJob
    <3> QED
      BY <1>1, <2>1, <3>1 DEF JobInserted, Moves, Arrives
  <2>2. \/ JobNotDone(k) /\ jobs'[k].inst = jobs[k].inst
        \/ \E r \in Request : JobInserted(r, k) /\ jobs'[k] = NewJob(req[r].inst, req[r].at)
    BY <1>1, NotDoneBefore
  <2> QED
    BY <1>1, <2>1, <2>2 DEF HasWork
<1>2. ASSUME NEW k \in TaskKey, TaskIsOpen(tasks'[k]), tasks'[k].inst = i
      PROVE  HasWork(i)
  <2>1. ASSUME NEW r \in Request, TaskInserted(r, k), tasks'[k] = NewTask(req[r].inst, req[r].at)
        PROVE  FALSE
    BY <1>2, <2>1 DEF NewTask, NoTask, TaskInserted, Moves, Arrives
  <2> QED
    BY <1>2, <2>1, NotDoneBefore DEF HasWork
<1>3. ASSUME NEW k \in JobKey, JobNotDone(k), jobs[k].inst = i
      PROVE  JobNotDone(k)' /\ jobs'[k].inst = i
  <2>1. ASSUME NEW r \in Request
        PROVE  ~JobInserted(r, k)
    BY <1>3 DEF JobInserted, JobNotDone, Live
  <2>2. ASSUME NEW r \in Request
        PROVE  ~JobCompleted(r, k)
    <3>1. JobCompleted(r, k) => req[r].inst = i
      BY <1>0, <1>3, RequestKeys, WriterPC DEF JobCompleted
    <3> QED
      BY <3>1 DEF JobCompleted, Moves, Finishes
  <2>3. ASSUME NEW r \in Request
        PROVE  ~JobArchived(r, k)
    BY <1>3 DEF JobArchived, Moves, Arrives
  <2> QED
    BY <1>3, <2>1, <2>2, <2>3, JobStates DEF JobNotDone, Live
<1>4. ASSUME NEW k \in TaskKey, TaskIsOpen(tasks[k]), tasks[k].inst = i
      PROVE  TaskIsOpen(tasks'[k]) /\ tasks'[k].inst = i
  <2>1. ASSUME NEW r \in Request
        PROVE  ~TaskInserted(r, k)
    BY <1>4 DEF TaskInserted, TaskIsOpen, Live
  <2>2. ASSUME NEW r \in Request
        PROVE  ~TaskCompleted(r, k)
    <3>1. TaskCompleted(r, k) => req[r].inst = i
      BY <1>0, <1>4, RequestKeys, WriterPC DEF TaskCompleted
    <3> QED
      BY <3>1 DEF TaskCompleted, Moves, Finishes
  <2>3. ASSUME NEW r \in Request
        PROVE  ~TaskCancelled(r, k) /\ ~TaskArchived(r, k)
    BY <1>4 DEF TaskCancelled, TaskArchived, Moves, Arrives
  <2> QED
    BY <1>4, <2>1, <2>2, <2>3, TaskStates DEF TaskIsOpen, Live
<1> QED
  BY <1>1, <1>2, <1>3, <1>4 DEF HasWork

(* An instance that nobody starts or moves stays as it is.                 *)
LEMMA Bystanders ==
  ASSUME SerialInv, [Next]_vars, NEW i \in InstanceKey, instance[i] # "none",
         \A r \in Request : Moves(r) => req[r].inst # i
  PROVE  /\ instance'[i] = instance[i] /\ token'[i] = token[i]
         /\ scope'[i] = scope[i] /\ raised'[i] = raised[i]
         /\ HasWork(i)' <=> HasWork(i)
<1>0. TypeOK
  BY SerialParts
<1>1. ASSUME NEW r \in Request, StartInstance(r)
      PROVE  /\ instance'[i] = instance[i] /\ token'[i] = token[i]
             /\ scope'[i] = scope[i] /\ raised'[i] = raised[i]
  BY <1>0, <1>1 DEF StartInstance, TypeOK
<1> QED
  BY <1>0, <1>1, MovingSteps, MovesItsOwn, WorkStays

-----------------------------------------------------------------------------
(* Routes.                                                                 *)

(* Workflow reads the same graph.                                          *)
LEMMA SameGraph ==
  ASSUME NEW n, NEW s
  PROVE  /\ Token!HasNext(n) <=> HasNext(n)
         /\ Token!FirstTarget(n) = FirstTarget(n)
         /\ Token!GatewayTarget(n, s) = GatewayTarget(n, s)
         /\ Token!InputsEvaluate(n, s) <=> InputsEvaluate(n, s)
         /\ Token!OutputsEvaluate(n, s) <=> OutputsEvaluate(n, s)
         /\ \A result : Token!ApplyOutputs(n, s, result) = ApplyOutputs(n, s, result)
         /\ Token!Scope = Scope
         /\ Token!EmptyScope = EmptyScope
<1>1. \A cond : Token!Evaluate(cond, s) = Evaluate(cond, s)
  BY DEF Evaluate, Token!Evaluate
<1>2. \A flow : Token!StopsAt(flow, s) <=> StopsAt(flow, s)
  BY <1>1 DEF StopsAt, Token!StopsAt
<1>3. \A i : /\ Token!FirstStop(n, s, i) <=> FirstStop(n, s, i)
             /\ Token!LastDefault(n, i) <=> LastDefault(n, i)
  BY <1>2 DEF FirstStop, Token!FirstStop, LastDefault, Token!LastDefault
<1>4. Token!GatewayTarget(n, s) = GatewayTarget(n, s)
  <2>1. (CHOOSE i \in DOMAIN Outgoing[n] : Token!FirstStop(n, s, i))
          = (CHOOSE i \in DOMAIN Outgoing[n] : FirstStop(n, s, i))
    BY <1>3
  <2>2. (CHOOSE i \in DOMAIN Outgoing[n] : Token!LastDefault(n, i))
          = (CHOOSE i \in DOMAIN Outgoing[n] : LastDefault(n, i))
    BY <1>3
  <2> QED
    BY <1>1, <1>3, <2>1, <2>2 DEF GatewayTarget, Token!GatewayTarget
<1> QED
  BY <1>4
     DEF HasNext, Token!HasNext, FirstTarget, Token!FirstTarget, InputsEvaluate,
         Token!InputsEvaluate, OutputsEvaluate, Token!OutputsEvaluate, ApplyOutputs,
         Token!ApplyOutputs, Scope, Token!Scope, EmptyScope, Token!EmptyScope

LEMMA RouteStarts ==
  ASSUME NEW n \in Node, NEW s
  PROVE  Token!Leads(n, n, 1, s)
<1> DEFINE route == [k \in 1..1 |-> n]
<1>1. route \in [1..1 -> Node] /\ route[1] = n
  OBVIOUS
<1>2. \A k \in 1..(1 - 1) : route[k + 1] = Token!Onward(route[k], s)
  OBVIOUS
<1> QED
  BY <1>1, <1>2 DEF Token!Leads

LEMMA RouteGoesOn ==
  ASSUME NEW n, NEW m, NEW length \in Nat \ {0}, NEW s, Token!Leads(n, m, length, s),
         Token!Onward(m, s) \in Node
  PROVE  Token!Leads(n, Token!Onward(m, s), length + 1, s)
<1>1. PICK route \in [1..length -> Node] :
        /\ route[1] = n
        /\ route[length] = m
        /\ \A k \in 1..(length - 1) : route[k + 1] = Token!Onward(route[k], s)
  BY DEF Token!Leads
<1> DEFINE next == Token!Onward(m, s)
           longer == [k \in 1..(length + 1) |-> IF k = length + 1 THEN next ELSE route[k]]
<1> HIDE DEF next
<1>2. longer \in [1..(length + 1) -> Node]
  BY DEF next
<1>3. longer[1] = n /\ longer[length + 1] = next
  BY <1>1
<1>4. ASSUME NEW k \in 1..((length + 1) - 1)
      PROVE  longer[k + 1] = Token!Onward(longer[k], s)
  <2>1. longer[k] = route[k]
    OBVIOUS
  <2>2. CASE k = length
    BY <1>1, <2>1, <2>2 DEF next
  <2>3. CASE k # length
    <3>1. k \in 1..(length - 1) /\ longer[k + 1] = route[k + 1]
      BY <2>3
    <3> QED
      BY <1>1, <2>1, <3>1
  <2> QED
    BY <2>2, <2>3
<1> HIDE DEF longer
<1>5. Token!Leads(n, next, length + 1, s)
  BY <1>2, <1>3, <1>4 DEF Token!Leads
<1> QED
  BY <1>5 DEF next

(* How a request comes to be where it is in run_step.                      *)
Begins(r) ==
  /\ req[r].pc = "begin" /\ req[r].steps = req'[r].steps
  /\ token[req[r].inst] # NoNode /\ req'[r].at = token[req[r].inst]

GoesOn(r) ==
  /\ req[r].pc = "run" /\ req[r].at \in Node
  /\ req[r].steps < MaxSteps /\ req'[r].steps = req[r].steps + 1
  /\ req'[r].at = Token!Onward(req[r].at, scope[req[r].inst]) /\ req'[r].at \in Node

LEMMA WalkSteps ==
  ASSUME TypeOK, Consistent, [Next]_vars, NEW r \in Request, req'[r].pc \in Resuming
  PROVE  \/ req'[r] = req[r] /\ ~Moves(r)
         \/ req'[r].pc = "begin" /\ req'[r].steps = 0
         \/ /\ req'[r].pc = "run" /\ req'[r].inst = req[r].inst /\ UNCHANGED tables
            /\ Begins(r) \/ GoesOn(r)
<1>0. req[r] \in ReqRecord
  BY DEF TypeOK
<1>1. ASSUME NEW i, Resume(r, i)
      PROVE  req'[r].pc = "begin" /\ req'[r].steps = 0
  BY <1>1 DEF Resume, TypeOK, Idle
<1>2. CASE Receive(r)
  <2>1. req'[r].pc = "begin"
    BY <1>2, ReceivedNow DEF Resuming, LoadingJob, LoadingTask
  <2>2. ~ActivateJobs(r)
    <3>1. ASSUME ActivateJobs(r)
          PROVE  FALSE
      <4>1. \E w, S :
              req' = [req EXCEPT ![r] = [Idle EXCEPT !.pc = "lock", !.worker = w, !.todo = S]]
        BY <3>1, Zenon DEF ActivateJobs
      <4> QED
        BY <2>1, <4>1 DEF Idle, TypeOK
    <3> QED
      BY <3>1
  <2>3. ASSUME NEW pc, NEW k, NEW i, NEW n, pc # "begin",
               req' = [req EXCEPT ![r] = [Idle EXCEPT !.pc = pc, !.key = k, !.inst = i, !.at = n]]
        PROVE  FALSE
    BY <2>1, <2>3 DEF Idle, TypeOK
  <2>4. ASSUME CompleteJob(r) \/ FailJob(r)
        PROVE  FALSE
    <3>1. PICK k \in JobKey, pc \in {"job_instance", "fail_instance"} :
            req' = [req EXCEPT ![r] = [Idle EXCEPT !.pc = pc, !.key = k,
                                         !.inst = jobs[k].inst, !.at = jobs[k].node]]
      BY <2>4 DEF CompleteJob, FailJob
    <3>2. pc # "begin"
      OBVIOUS
    <3> QED
      BY <2>3, <3>1, <3>2
  <2>5. ASSUME CompleteTask(r) \/ CancelTask(r)
        PROVE  FALSE
    <3>1. PICK k \in TaskKey, pc \in {"task_instance", "cancel_instance"} :
            req' = [req EXCEPT ![r] = [Idle EXCEPT !.pc = pc, !.key = k,
                                         !.inst = tasks[k].inst, !.at = tasks[k].node]]
      BY <2>5 DEF CompleteTask, CancelTask
    <3>2. pc # "begin"
      OBVIOUS
    <3> QED
      BY <2>3, <3>1, <3>2
  <2>6. ~ResolveIncident(r)
    BY <2>1 DEF ResolveIncident, Idle, TypeOK
  <2> QED
    BY <1>1, <1>2, <2>2, <2>4, <2>5, <2>6 DEF Receive, StartInstance
<1>3. CASE CompleteJobTx(r) \/ CompleteTaskTx(r)
  <2>1. ~Done(r)
    BY DEF Done, TypeOK, Idle, Resuming
  <2> QED
    BY <1>1, <1>3, <2>1 DEF CompleteJobTx, CompleteTaskTx, CompletionTx
<1>4. CASE RunStep(r)
  <2>1. ~StepFails(r) /\ ~Commit(r)
    BY <1>0 DEF StepFails, Done, Commit, Goto, TypeOK, Idle, Resuming, ReqRecord
  <2>2. BeginStep(r) \/ HandleStartEvent(r) \/ HandleGateway(r)
    BY <1>4, <2>1 DEF RunStep, HandleServiceTask, HandleManualTask, HandleEndEvent,
                      InputMappingFails, MaxStepsReached, Park
  <2>3. CASE BeginStep(r)
    <3>1. /\ req[r].pc = "begin" /\ token[req[r].inst] # NoNode /\ UNCHANGED tables
          /\ req' = [req EXCEPT ![r].pc = "run", ![r].at = token[req[r].inst]]
      BY <2>1, <2>3 DEF BeginStep
    <3>2. req'[r] = [req[r] EXCEPT !.pc = "run", !.at = token[req[r].inst]]
      BY <3>1 DEF TypeOK
    <3>3. /\ req'[r].pc = "run" /\ req'[r].at = token[req[r].inst]
          /\ req'[r].inst = req[r].inst /\ req'[r].steps = req[r].steps
      BY <1>0, <3>2 DEF ReqRecord
    <3> QED
      BY <3>1, <3>3 DEF Begins
  <2>4. ASSUME NEW n \in Node, Continue(r, n), req[r].pc = "run", req[r].steps < MaxSteps,
               n = Token!Onward(req[r].at, scope[req[r].inst]), req[r].at \in Node
        PROVE  /\ req'[r].pc = "run" /\ req'[r].inst = req[r].inst /\ UNCHANGED tables
               /\ GoesOn(r)
    <3>1. req'[r] = [req[r] EXCEPT !.at = n, !.steps = req[r].steps + 1]
      BY <2>4 DEF Continue, TypeOK
    <3>2. /\ req'[r].pc = "run" /\ req'[r].inst = req[r].inst /\ req'[r].at = n
          /\ req'[r].steps = req[r].steps + 1
      BY <1>0, <2>4, <3>1 DEF ReqRecord
    <3> QED
      BY <2>4, <3>2 DEF GoesOn, Continue
  <2>5. CASE HandleStartEvent(r)
    <3>1. /\ Dispatches(r, "start") /\ HasNext(req[r].at) /\ Continue(r, FirstTarget(req[r].at))
          /\ req[r].at \in Node
      BY <2>1, <2>5, RequestKeys DEF HandleStartEvent, Dispatches
    <3>2. Token!Onward(req[r].at, scope[req[r].inst]) = FirstTarget(req[r].at)
      BY <3>1, SameGraph DEF Token!Onward, Dispatches
    <3> QED
      BY <2>4, <3>1, <3>2, FlowTargets DEF Dispatches
  <2>6. CASE HandleGateway(r)
    <3> DEFINE target == GatewayTarget(req[r].at, scope[req[r].inst])
    <3>1. Dispatches(r, "gateway") /\ target # NoNode /\ Continue(r, target) /\ req[r].at \in Node
      BY <2>1, <2>6, RequestKeys DEF HandleGateway, Dispatches, Park
    <3>2. Token!Onward(req[r].at, scope[req[r].inst]) = target
      BY <3>1, SameGraph DEF Token!Onward, Dispatches
    <3>3. target \in Node
      BY <3>1, GatewayTargetType, FlowTargets
    <3> QED
      BY <2>4, <3>1, <3>2, <3>3 DEF Dispatches
  <2> QED
    BY <2>2, <2>3, <2>5, <2>6
<1>5. CASE Proceed(r)
  <2>1. ASSUME NEW pc, Goto(r, pc), pc \notin Resuming
        PROVE  FALSE
    BY <1>0, <2>1 DEF Goto, ReqRecord, TypeOK
  <2>2. ASSUME Done(r) \/ Drop({r})
        PROVE  FALSE
    BY <2>2 DEF Done, Drop, Idle, TypeOK, Resuming
  <2>3. ~LockJob(r)
    <3>1. ASSUME NEW S, req' = [req EXCEPT ![r].todo = S], req[r].pc = "lock"
          PROVE  FALSE
      BY <1>0, <3>1 DEF ReqRecord, TypeOK, Resuming
    <3> QED
      BY <2>2, <3>1 DEF LockJob
  <2> QED
    BY <1>3, <1>4, <1>5, <2>1, <2>2, <2>3
       DEF Proceed, CompleteJobLoad, CompleteJobFind, CompleteTaskLoad, CompleteTaskFind,
           CancelTaskLoad, FailJobLoad, LoadInstance, FindExecution, ReadStatus,
           ReadStatusAgain, CancelTaskTx, FailJobRetry, FailJobDead, ResolveIncidentTx, Busy,
           KeysExhausted, Resuming
<1>6. CASE req'[r] = req[r]
  BY <1>6, MovesAlone
<1>7. req'[r] # Idle
  BY DEF Idle, Resuming
<1> QED
  BY <1>2, <1>5, <1>6, <1>7, RequestSteps

-----------------------------------------------------------------------------
(* The inductive invariant.                                                *)

(* Nobody else moves the instance of a request.                            *)
LEMMA MovesMine ==
  ASSUME SerialInv, NEW r \in Request, NEW s \in Request,
         req[r].pc \notin {"idle", "lock"}, Moves(s), req[s].inst = req[r].inst
  PROVE  r = s
<1>1. req[s].pc \in {"job_tx", "task_tx", "cancel_tx", "run"}
  BY MovesAlone, SerialParts
<1>2. Touches(s) = {req[s].inst} /\ Touches(r) = {req[r].inst}
  BY <1>1 DEF Touches
<1> QED
  BY <1>2, SerialParts DEF NoOverlap

LEMMA OnItsWayStep ==
  ASSUME RefinementInv, [Next]_vars, NEW r \in Request
  PROVE  OnItsWay(r)'
<1> DEFINE i == req[r].inst
<1>0. SerialInv /\ TypeOK /\ Consistent /\ OnItsWay(r) /\ req[r] \in ReqRecord
  BY SerialParts DEF RefinementInv, TypeOK
<1> SUFFICES ASSUME req'[r].pc \in Resuming
             PROVE  OnItsWay(r)'
  BY DEF OnItsWay, Resuming
<1>1. CASE req'[r] = req[r] /\ ~Moves(r)
  <2>1. CASE req[r].pc = "run"
    <3>1. i \in InstanceKey /\ instance[i] = "active"
      BY <1>0, <2>1, RequestKeys DEF Resuming
    <3>2. \A s \in Request : Moves(s) => req[s].inst # i
      BY <1>0, <1>1, <2>1, MovesMine
    <3>3. token'[i] = token[i] /\ scope'[i] = scope[i]
      BY <1>0, <3>1, <3>2, Bystanders
    <3> QED
      BY <1>0, <1>1, <3>3 DEF OnItsWay
  <2> QED
    BY <1>0, <1>1, <2>1 DEF OnItsWay
<1>2. CASE req'[r].pc = "begin" /\ req'[r].steps = 0
  BY <1>2 DEF OnItsWay
<1>3. CASE req'[r].pc = "run" /\ req'[r].inst = i /\ UNCHANGED tables /\ Begins(r)
  <2>1. i \in InstanceKey /\ token[i] \in Node
    BY <1>0, <1>3, RequestKeys DEF Begins, Resuming, TypeOK
  <2>2. Token!Leads(token[i], token[i], 0 + 1, scope[i])
    BY <2>1, RouteStarts
  <2>3. req'[r].steps = 0 /\ req'[r].at = token[i] /\ token' = token /\ scope' = scope
    BY <1>0, <1>3 DEF Begins, OnItsWay, tables
  <2> QED
    BY <1>3, <2>2, <2>3 DEF OnItsWay
<1>4. CASE req'[r].pc = "run" /\ req'[r].inst = i /\ UNCHANGED tables /\ GoesOn(r)
  <2> DEFINE next == Token!Onward(req[r].at, scope[i])
  <2>1. Token!Leads(token[i], req[r].at, req[r].steps + 1, scope[i])
    BY <1>0, <1>4 DEF GoesOn, OnItsWay
  <2>2. req[r].steps + 1 \in Nat \ {0} /\ next \in Node
    BY <1>0, <1>4, EngineAssumption DEF GoesOn, ReqRecord
  <2>3. Token!Leads(token[i], next, (req[r].steps + 1) + 1, scope[i])
    BY <2>1, <2>2, RouteGoesOn
  <2>4. /\ req'[r].steps = req[r].steps + 1 /\ req'[r].at = next
        /\ token' = token /\ scope' = scope
    BY <1>4 DEF GoesOn, tables
  <2> QED
    BY <1>4, <2>3, <2>4 DEF OnItsWay
<1> QED
  BY <1>0, <1>1, <1>2, <1>3, <1>4, WalkSteps

(* A gateway raises for the instance of the request that runs it.          *)
LEMMA RaisedWrites ==
  ASSUME TypeOK, Consistent, [Next]_vars, NEW i \in InstanceKey
  PROVE  \/ raised'[i] = raised[i]
         \/ \E r \in Request :
              /\ HandleGateway(r) /\ Park(r) /\ req[r].inst = i
              /\ raised'[i] = raised[i] \cup {req[r].at}
<1>1. ASSUME NEW r \in Request, Moves(r)
      PROVE  \/ raised' = raised
             \/ /\ HandleGateway(r) /\ Park(r)
                /\ raised' = [raised EXCEPT ![req[r].inst] = @ \cup {req[r].at}]
  <2>1. CASE HandleGateway(r) /\ Park(r)
    BY <2>1 DEF HandleGateway, Continue, tables
  <2> QED
    BY <1>1, <2>1
       DEF Moves, Finishes, Arrives, CompleteJobTx, CompleteTaskTx, CompletionTx, CancelTaskTx,
           HandleServiceTask, HandleManualTask, HandleEndEvent
<1>2. ASSUME NEW r \in Request, StartInstance(r)
      PROVE  raised' = raised
  BY <1>2 DEF StartInstance
<1> QED
  BY <1>1, <1>2, MovingSteps DEF TypeOK

(* Whoever moves an instance finishes work of it or resumes it.            *)
LEMMA MovesTheMovable ==
  ASSUME SerialInv, NEW r \in Request, Moves(r)
  PROVE  /\ req[r].inst \in InstanceKey /\ instance[req[r].inst] = "active"
         /\ Finishes(r) \/ CancelTaskTx(r) => HasWork(req[r].inst)
         /\ Arrives(r) => BeingResumed(req[r].inst)
<1>0. TypeOK /\ Consistent /\ RuntimeRowsHaveInstance /\ ReadStillHolds(r)
  BY SerialParts
<1>1. CASE req[r].pc = "job_tx"
  <2>1. /\ req[r].key \in JobKey /\ jobs[req[r].key].inst = req[r].inst
        /\ JobIsActivated(jobs[req[r].key]) /\ req[r].inst \in InstanceKey
    BY <1>0, <1>1, RequestKeys DEF ReadStillHolds, LoadingJob
  <2>2. ~Arrives(r)
    BY <1>0, <1>1, MovesAlone
  <2> QED
    BY <1>0, <2>1, <2>2 DEF RuntimeRowsHaveInstance, JobIsActivated, HasWork, JobNotDone
<1>2. CASE req[r].pc \in {"task_tx", "cancel_tx"}
  <2>1. /\ req[r].key \in TaskKey /\ tasks[req[r].key].inst = req[r].inst
        /\ TaskIsOpen(tasks[req[r].key]) /\ req[r].inst \in InstanceKey
    BY <1>0, <1>2, RequestKeys DEF ReadStillHolds, LoadingTask
  <2>2. ~Arrives(r)
    BY <1>0, <1>2, MovesAlone
  <2> QED
    BY <1>0, <2>1, <2>2 DEF RuntimeRowsHaveInstance, TaskIsOpen, HasWork
<1>3. CASE req[r].pc = "run"
  <2>1. req[r].inst \in InstanceKey /\ instance[req[r].inst] = "active"
    BY <1>0, <1>3, RequestKeys DEF Resuming
  <2>2. ~Finishes(r) /\ ~CancelTaskTx(r)
    BY <1>3, WriterPC DEF Finishes
  <2> QED
    BY <1>3, <2>1, <2>2 DEF BeingResumed, Resuming
<1> QED
  BY <1>0, <1>1, <1>2, <1>3, MovesAlone

(* Nothing is left to do of an instance that is resumed.                   *)
LEMMA ResumedHasNoWork ==
  ASSUME SerialInv, NEW i, BeingResumed(i)
  PROVE  ~HasWork(i)
BY SerialParts DEF BeingResumed, ResumedIsDone, HasWork

LEMMA StuckStep ==
  ASSUME RefinementInv, [Next]_vars
  PROVE  RaisedIsStuck'
<1>0. SerialInv /\ TypeOK /\ Consistent /\ RaisedIsStuck
  BY SerialParts DEF RefinementInv
<1> SUFFICES ASSUME NEW i \in InstanceKey, raised'[i] # {}
             PROVE  /\ instance'[i] = "active"
                    /\ token'[i] \in raised'[i]
                    /\ ~BeingResumed(i)'
                    /\ ~HasWork(i)'
  BY DEF RaisedIsStuck
<1>1. CASE raised'[i] = raised[i]
  <2>1. instance[i] = "active" /\ token[i] \in raised[i] /\ ~BeingResumed(i) /\ ~HasWork(i)
    BY <1>0, <1>1 DEF RaisedIsStuck
  <2>2. \A r \in Request : Moves(r) => req[r].inst # i
    BY <1>0, <2>1, MovesTheMovable DEF Moves
  <2>3. /\ instance'[i] = instance[i] /\ token'[i] = token[i]
        /\ HasWork(i)' <=> HasWork(i)
    BY <1>0, <2>1, <2>2, Bystanders
  <2>4. ASSUME NEW s \in Request, req'[s].pc \in Resuming, req'[s].inst = i
        PROVE  FALSE
    <3>1. CASE req'[s] = req[s]
      BY <2>1, <2>4, <3>1 DEF BeingResumed
    <3>2. CASE Receive(s)
      BY <1>0, <2>1, <2>4, <3>2, ReceivedNow DEF Resuming, LoadingJob, LoadingTask
    <3>3. CASE MovesOn(s)
      BY <2>1, <2>4, <3>3 DEF MovesOn, BeingResumed
    <3>4. CASE (CompleteJobTx(s) \/ CompleteTaskTx(s)) /\ Resume(s, req[s].inst)
      BY <1>0, <2>2, <2>4, <3>4, MovesAlone DEF Moves, Finishes
    <3>5. CASE Proceed(s)
      BY <1>0, <2>4, <3>3, <3>4, <3>5, ProceedsNow
         DEF Idle, Resuming, Replying, LoadsMore, LocksOne, LoadingJob, LoadingTask
    <3> QED
      BY <1>0, <2>4, <3>1, <3>2, <3>5, RequestSteps DEF Idle, Resuming
  <2> QED
    BY <1>1, <2>1, <2>3, <2>4 DEF BeingResumed
<1>2. ASSUME NEW r \in Request, HandleGateway(r), Park(r), req[r].inst = i,
             raised'[i] = raised[i] \cup {req[r].at}
      PROVE  /\ instance'[i] = "active"
             /\ token'[i] \in raised'[i]
             /\ ~BeingResumed(i)'
             /\ ~HasWork(i)'
  <2>0. Moves(r) /\ Arrives(r)
    BY <1>2 DEF Moves, Arrives
  <2>1. /\ req[r].pc = "run" /\ req'[r].pc = "status"
        /\ \A s \in Request : s # r => req'[s] = req[s]
    BY <1>0, <2>0, MovesAlone
  <2>2. instance[i] = "active" /\ ~HasWork(i)
    BY <1>0, <1>2, <2>0, MovesTheMovable, ResumedHasNoWork
  <2>3. /\ token' = [token EXCEPT ![i] = req[r].at]
        /\ UNCHANGED <<instance, jobs, tasks>>
    BY <1>2, <2>1 DEF HandleGateway, Park, Continue, tables
  <2>4. ~HasWork(i)'
    BY <2>2, <2>3 DEF HasWork, JobNotDone
  <2>5. ASSUME NEW s \in Request, req'[s].pc \in Resuming, req'[s].inst = i
        PROVE  FALSE
    <3>1. s # r /\ req'[s] = req[s]
      BY <2>1, <2>5 DEF Resuming
    <3> QED
      BY <1>0, <1>2, <2>0, <2>5, <3>1, MovesMine DEF Resuming
  <2>6. token'[i] = req[r].at
    BY <1>0, <2>3 DEF TypeOK
  <2> QED
    BY <1>2, <2>2, <2>3, <2>4, <2>5, <2>6 DEF BeingResumed
<1> QED
  BY <1>0, <1>1, <1>2, RaisedWrites

LEMMA ManualTasksStep ==
  ASSUME RefinementInv, [Next]_vars
  PROVE  UsersGetManualTasks'
<1>0. SerialInv /\ UsersGetManualTasks
  BY DEF RefinementInv
<1> SUFFICES ASSUME NEW k \in TaskKey, TaskIsOpen(tasks'[k])
             PROVE  Kind[tasks'[k].node] = "manual"
  BY DEF UsersGetManualTasks
<1>1. CASE TaskIsOpen(tasks[k]) /\ tasks'[k] = tasks[k]
  BY <1>0, <1>1 DEF UsersGetManualTasks
<1>2. ASSUME NEW r \in Request, TaskInserted(r, k), tasks'[k] = NewTask(req[r].inst, req[r].at)
      PROVE  Kind[tasks'[k].node] = "manual"
  <2>1. tasks'[k].node = req[r].at
    BY <1>2 DEF NewTask, NoTask
  <2> QED
    BY <1>2, <2>1 DEF TaskInserted, HandleManualTask, Dispatches
<1> QED
  BY <1>0, <1>1, <1>2, NotDoneBefore

LEMMA RefinementStep ==
  ASSUME RefinementInv, [Next /\ NoOverlap']_vars
  PROVE  RefinementInv'
<1>1. [Next]_vars /\ SerialInv
  BY DEF RefinementInv
<1>2. SerialInv'
  BY <1>1, SerialStep
<1>3. \A r \in Request : OnItsWay(r)'
  BY <1>1, OnItsWayStep
<1> QED
  BY <1>1, <1>2, <1>3, StuckStep, ManualTasksStep DEF RefinementInv

LEMMA RefinementInit ==
  ASSUME Init
  PROVE  RefinementInv
<1>1. SerialInv
  BY SerialInit
<1>2. \A r \in Request : OnItsWay(r)
  BY DEF Init, Idle, OnItsWay
<1>3. RaisedIsStuck
  BY DEF Init, RaisedIsStuck
<1>4. UsersGetManualTasks
  BY DEF Init, UsersGetManualTasks, TaskIsOpen, Live, NoTask
<1> QED
  BY <1>1, <1>2, <1>3, <1>4 DEF RefinementInv

-----------------------------------------------------------------------------
(* The steps of the token game.                                            *)

(* The phase of an instance, as far as the invariant holds.                *)
PlainPhase(i) ==
  IF instance[i] # "active" THEN instance[i]
  ELSE IF raised[i] # {} THEN "stuck"
  ELSE IF HasWork(i) THEN "waiting" ELSE "moving"

LEMMA PhaseIsPlain ==
  RefinementInv => \A i \in InstanceKey : PhaseOf(i) = PlainPhase(i)
<1> SUFFICES ASSUME RefinementInv, NEW i \in InstanceKey
             PROVE  PhaseOf(i) = PlainPhase(i)
  OBVIOUS
<1>0. /\ SerialInv /\ TypeOK /\ RaisedIsStuck /\ OneThingToDo /\ DeadJobHasIncident
  BY SerialParts DEF RefinementInv
<1>1. token[i] \in raised[i] => raised[i] # {}
  OBVIOUS
<1>2. instance[i] = "active" /\ raised[i] # {} => token[i] \in raised[i]
  BY <1>0 DEF RaisedIsStuck
<1>3. HasOpenWork(i, token[i]) <=> HasWork(i)
  <2>1. HasOpenWork(i, token[i]) <=> Pending(i, token[i])
    BY <1>0, PendingIsOpen
  <2>2. Pending(i, token[i]) <=> HasWork(i)
    BY <1>0 DEF Pending, PendingJob, OpenTaskAt, HasWork, JobNotDone, TaskIsOpen, OneThingToDo
  <2> QED
    BY <2>1, <2>2
<1> QED
  BY <1>1, <1>2, <1>3 DEF PhaseOf, PlainPhase

(* One instance takes a step, the others none.                             *)
LEMMA PhaseOfOthers ==
  ASSUME SerialInv, [Next]_vars, NEW r \in Request, Moves(r), NEW j \in InstanceKey,
         j # req[r].inst
  PROVE  PlainPhase(j)' = PlainPhase(j)
<1>0. TypeOK
  BY SerialParts
<1>1. \A s \in Request : Moves(s) => req[s].inst # j
  BY <1>0, OneMoves
<1>2. HasWork(j)' <=> HasWork(j)
  BY <1>1, WorkStays
<1> QED
  BY <1>0, <1>2, MovesItsOwn DEF PlainPhase

Phases == [i \in InstanceKey |-> PhaseOf(i)]

LEMMA PhaseIsPlainNext ==
  (RefinementInv => \A i \in InstanceKey : PhaseOf(i) = PlainPhase(i))'
BY PhaseIsPlain, PTL

LEMMA PhasesStep ==
  ASSUME RefinementInv, RefinementInv', [Next]_vars, NEW r \in Request, Moves(r),
         NEW i \in InstanceKey, req[r].inst = i
  PROVE  /\ Phases[i] = PlainPhase(i)
         /\ Phases' = [Phases EXCEPT ![i] = PlainPhase(i)']
<1>0. SerialInv
  BY DEF RefinementInv
<1>1. \A j \in InstanceKey : PhaseOf(j) = PlainPhase(j)
  BY PhaseIsPlain
<1>2. \A j \in InstanceKey : PhaseOf(j)' = PlainPhase(j)'
  BY PhaseIsPlainNext
<1>3. \A j \in InstanceKey : j # i => PhaseOf(j)' = PhaseOf(j)
  BY <1>0, <1>1, <1>2, PhaseOfOthers
<1>4. Phases' = [j \in InstanceKey |-> PhaseOf(j)']
  BY DEF Phases
<1>5. \A j \in InstanceKey : PhaseOf(j)' = IF j = i THEN PlainPhase(i)' ELSE Phases[j]
  BY <1>2, <1>3 DEF Phases
<1> QED
  BY <1>1, <1>4, <1>5 DEF Phases

(* A completion is FinishWork.                                             *)
LEMMA FinishesWork ==
  ASSUME RefinementInv, RefinementInv', [Next]_vars, NEW r \in Request, Finishes(r),
         NEW i \in InstanceKey, req[r].inst = i
  PROVE  Token!FinishWork(i)
<1> DEFINE n == req[r].at
<1>0. /\ SerialInv /\ SerialInv' /\ TypeOK /\ Consistent /\ RaisedIsStuck /\ OneThingToDo
      /\ ReadStillHolds(r)
  BY SerialParts DEF RefinementInv
<1>1. Moves(r) /\ instance[i] = "active" /\ HasWork(i)
  BY <1>0, MovesTheMovable DEF Moves
<1>2. raised[i] = {} /\ PlainPhase(i) = "waiting"
  BY <1>0, <1>1 DEF RaisedIsStuck, PlainPhase
<1>3. n \in Node /\ HasNext(n) /\ token[i] = n
  <2>1. CASE req[r].pc = "job_tx"
    BY <1>0, <2>1, RequestKeys
       DEF ReadStillHolds, LoadingJob, OneThingToDo, JobNotDone, JobIsActivated
  <2>2. CASE req[r].pc = "task_tx"
    BY <1>0, <2>2, RequestKeys DEF ReadStillHolds, LoadingTask, OneThingToDo
  <2> QED
    BY <2>1, <2>2, WriterPC DEF Finishes
<1>4. ~Done(r)
  <2>1. req'[r].pc = "begin"
    BY <1>0, <1>1, MovesAlone
  <2> QED
    BY <1>0, <2>1 DEF Done, TypeOK, Idle
<1>5. \E result \in Scope :
        /\ OutputsEvaluate(n, result)
        /\ scope' = [scope EXCEPT ![i] = ApplyOutputs(n, scope[i], result)]
        /\ token' = [token EXCEPT ![i] = FirstTarget(n)]
        /\ UNCHANGED <<instance, raised>>
  <2>1. token[i] # NoNode
    BY <1>3, GraphAssumption DEF GraphOK
  <2> QED
    BY <1>4, <2>1 DEF Finishes, CompleteJobTx, CompleteTaskTx, CompletionTx, AdvanceTo
<1>6. PlainPhase(i)' = "moving"
  <2>1. req'[r].pc = "begin" /\ req'[r].inst = i
    BY <1>0, <1>1, MovesAlone
  <2>2. ~HasWork(i)'
    BY <1>0, <2>1, ResumedDoneStep DEF ResumedIsDone, HasWork, Resuming
  <2> QED
    BY <1>1, <1>2, <1>5, <2>2 DEF PlainPhase
<1>7. Phases[i] = "waiting" /\ Phases' = [Phases EXCEPT ![i] = "moving"]
  BY <1>1, <1>2, <1>6, PhasesStep
<1>8. PICK result \in Scope :
        /\ OutputsEvaluate(n, result)
        /\ scope' = [scope EXCEPT ![i] = ApplyOutputs(n, scope[i], result)]
        /\ token' = [token EXCEPT ![i] = FirstTarget(n)]
  BY <1>5
<1>9. Token!Leave(i, FirstTarget(n), ApplyOutputs(n, scope[i], result))
  BY <1>7, <1>8 DEF Token!Leave, Phases
<1>10. /\ Token!HasNext(token[i]) /\ result \in Token!Scope
       /\ Token!OutputsEvaluate(token[i], result)
       /\ Token!FirstTarget(token[i]) = FirstTarget(n)
       /\ Token!ApplyOutputs(token[i], scope[i], result) = ApplyOutputs(n, scope[i], result)
  BY <1>3, <1>8, SameGraph
<1> QED
  BY <1>7, <1>9, <1>10 DEF Token!FinishWork, Phases

(* Running to a wait state, an end or an incident is Arrive.               *)
LEMMA ArrivesAtDestination ==
  ASSUME RefinementInv, RefinementInv', [Next]_vars, NEW r \in Request, Arrives(r),
         NEW i \in InstanceKey, req[r].inst = i
  PROVE  Token!Arrive(i)
<1> DEFINE n == req[r].at
<1>0. /\ SerialInv /\ TypeOK /\ Consistent /\ RaisedIsStuck /\ OnItsWay(r)
      /\ req[r] \in ReqRecord
  BY SerialParts DEF RefinementInv, TypeOK
<1>1. Moves(r) /\ instance[i] = "active" /\ BeingResumed(i) /\ ~HasWork(i) /\ req[r].pc = "run"
  BY <1>0, MovesTheMovable, MovesAlone, ResumedHasNoWork DEF Moves
<1>2. raised[i] = {} /\ PlainPhase(i) = "moving"
  BY <1>0, <1>1 DEF RaisedIsStuck, PlainPhase
<1>3. n \in Node /\ req[r].steps \in Nat /\ req[r].steps < MaxSteps
  BY <1>0, <1>1, RequestKeys
     DEF Arrives, HandleServiceTask, HandleManualTask, HandleEndEvent, HandleGateway, Dispatches,
         ReqRecord
<1>4. Token!RestsAt(n, scope[i]) => Token!ComesToRest(token[i], n, scope[i])
  <2>1. Token!Leads(token[i], n, req[r].steps + 1, scope[i])
    BY <1>0, <1>1 DEF OnItsWay
  <2>2. req[r].steps + 1 \in 1..MaxSteps
    BY <1>3, EngineAssumption
  <2> QED
    BY <1>3, <2>1, <2>2 DEF Token!ComesToRest
<1>5. CASE HandleEndEvent(r)
  <2>1. /\ Kind[n] = "end"
        /\ instance' = [instance EXCEPT ![i] = "completed"]
        /\ token' = [token EXCEPT ![i] = NoNode]
        /\ scope' = [scope EXCEPT ![i] = EmptyScope]
    BY <1>1, <1>5 DEF HandleEndEvent, Dispatches, ArchiveInstance, EndStatus
  <2>2. PlainPhase(i)' = "completed"
    BY <1>0, <2>1 DEF PlainPhase, TypeOK
  <2>3. Phases[i] = "moving" /\ Phases' = [Phases EXCEPT ![i] = "completed"]
    BY <1>1, <1>2, <2>2, PhasesStep
  <2>4. Token!ComesToRest(token[i], n, scope[i])
    BY <1>4, <2>1 DEF Token!RestsAt
  <2>5. Token!Stop(i, "completed")
    BY <2>1, <2>3, SameGraph DEF Token!Stop, Phases
  <2> QED
    BY <1>3, <2>1, <2>3, <2>4, <2>5 DEF Token!Arrive, Phases
<1>6. ASSUME NEW how, how = IF Kind[n] = "gateway" THEN "stuck" ELSE "waiting",
             Park(r), instance' = instance, scope' = scope, PlainPhase(i)' = how,
             Token!RestsAt(n, scope[i]), Kind[n] # "end"
      PROVE  Token!Arrive(i)
  <2>1. token' = [token EXCEPT ![i] = n]
    BY <1>6 DEF Park
  <2>2. Phases[i] = "moving" /\ Phases' = [Phases EXCEPT ![i] = how]
    BY <1>1, <1>2, <1>6, PhasesStep
  <2>3. Token!ComesToRest(token[i], n, scope[i])
    BY <1>4, <1>6
  <2> QED
    BY <1>3, <1>6, <2>1, <2>2, <2>3 DEF Token!Arrive, Token!Wait, Phases
<1>7. CASE HandleServiceTask(r)
  <2>1. PICK k \in JobKey : jobs' = [jobs EXCEPT ![k] = NewJob(i, n)]
    BY <1>7 DEF HandleServiceTask
  <2>2. jobs'[k] = NewJob(i, n)
    BY <1>0, <2>1 DEF TypeOK
  <2>3. JobNotDone(k)' /\ jobs'[k].inst = i
    BY <2>2 DEF JobNotDone, Live, NewJob, NoJob
  <2>4. HasWork(i)'
    BY <2>3 DEF HasWork
  <2>5. /\ Park(r) /\ UNCHANGED <<instance, scope, raised>>
        /\ Kind[n] = "service" /\ InputsEvaluate(n, scope[i])
    BY <1>7 DEF HandleServiceTask, Dispatches
  <2>6. PlainPhase(i)' = "waiting"
    BY <1>1, <1>2, <2>4, <2>5 DEF PlainPhase
  <2> QED
    BY <1>6, <2>5, <2>6, SameGraph DEF Token!RestsAt
<1>8. CASE HandleManualTask(r)
  <2>1. PICK k \in TaskKey : tasks' = [tasks EXCEPT ![k] = NewTask(i, n)]
    BY <1>8 DEF HandleManualTask
  <2>2. tasks'[k] = NewTask(i, n)
    BY <1>0, <2>1 DEF TypeOK
  <2>3. TaskIsOpen(tasks'[k]) /\ tasks'[k].inst = i
    BY <2>2 DEF TaskIsOpen, Live, NewTask, NoTask
  <2>4. HasWork(i)'
    BY <2>3 DEF HasWork
  <2>5. /\ Park(r) /\ UNCHANGED <<instance, scope, raised>>
        /\ Kind[n] = "manual" /\ InputsEvaluate(n, scope[i])
    BY <1>8 DEF HandleManualTask, Dispatches
  <2>6. PlainPhase(i)' = "waiting"
    BY <1>1, <1>2, <2>4, <2>5 DEF PlainPhase
  <2> QED
    BY <1>6, <2>5, <2>6, SameGraph DEF Token!RestsAt
<1>9. CASE HandleGateway(r) /\ Park(r)
  <2>1. GatewayTarget(n, scope[i]) = NoNode
    <3>1. ASSUME NEW m, Continue(r, m)
          PROVE  FALSE
      <4>1. req'[r] = [req[r] EXCEPT !.at = m, !.steps = req[r].steps + 1]
        BY <1>0, <3>1 DEF Continue, TypeOK
      <4> QED
        BY <1>0, <1>1, <4>1, MovesAlone DEF ReqRecord
    <3> QED
      BY <1>9, <3>1 DEF HandleGateway
  <2>2. /\ Kind[n] = "gateway" /\ UNCHANGED <<instance, scope>>
        /\ raised' = [raised EXCEPT ![i] = @ \cup {n}]
    BY <1>9, <2>1 DEF HandleGateway, Dispatches
  <2>3. raised'[i] # {}
    BY <1>0, <2>2 DEF TypeOK
  <2>4. PlainPhase(i)' = "stuck"
    BY <1>1, <2>2, <2>3 DEF PlainPhase
  <2> QED
    BY <1>6, <1>9, <2>1, <2>2, <2>4, SameGraph DEF Token!RestsAt
<1> QED
  BY <1>5, <1>7, <1>8, <1>9 DEF Arrives

(* A cancellation is Cancel.                                               *)
LEMMA Cancels ==
  ASSUME RefinementInv, RefinementInv', [Next]_vars, NEW r \in Request, CancelTaskTx(r),
         NEW i \in InstanceKey, req[r].inst = i
  PROVE  Token!Cancel(i)
<1>0. /\ SerialInv /\ TypeOK /\ Consistent /\ RaisedIsStuck /\ OneThingToDo
      /\ ReadStillHolds(r) /\ UsersGetManualTasks
  BY SerialParts DEF RefinementInv
<1>1. Moves(r) /\ instance[i] = "active" /\ HasWork(i) /\ req[r].pc = "cancel_tx"
  BY <1>0, MovesTheMovable, WriterPC DEF Moves
<1>2. raised[i] = {} /\ PlainPhase(i) = "waiting"
  BY <1>0, <1>1 DEF RaisedIsStuck, PlainPhase
<1>3. Kind[token[i]] = "manual"
  BY <1>0, <1>1, RequestKeys DEF ReadStillHolds, LoadingTask, OneThingToDo, UsersGetManualTasks
<1>4. /\ instance' = [instance EXCEPT ![i] = "cancelled"]
      /\ token' = [token EXCEPT ![i] = NoNode]
      /\ scope' = [scope EXCEPT ![i] = EmptyScope]
  BY <1>1 DEF CancelTaskTx, ArchiveInstance, EndStatus
<1>5. PlainPhase(i)' = "cancelled"
  BY <1>0, <1>4 DEF PlainPhase, TypeOK
<1>6. Phases[i] = "waiting" /\ Phases' = [Phases EXCEPT ![i] = "cancelled"]
  BY <1>1, <1>2, <1>5, PhasesStep
<1> QED
  BY <1>3, <1>4, <1>6, SameGraph DEF Token!Cancel, Token!Stop, Phases

(* A start is Start.                                                       *)
LEMMA Starts ==
  ASSUME RefinementInv, RefinementInv', [Next]_vars, NEW r \in Request, StartInstance(r)
  PROVE  \E i \in InstanceKey : Token!Start(i)
<1>0. /\ SerialInv /\ TypeOK /\ RaisedIsStuck /\ RuntimeRowsHaveInstance
  BY SerialParts DEF RefinementInv
<1>1. PICK i \in InstanceKey, initial \in Scope :
        /\ instance[i] = "none"
        /\ instance' = [instance EXCEPT ![i] = "active"]
        /\ scope' = [scope EXCEPT ![i] = initial]
        /\ token' = [token EXCEPT ![i] = StartNode]
  BY DEF StartInstance
<1>2. UNCHANGED <<jobs, tasks, raised>>
  BY DEF StartInstance
<1>3. \A j \in InstanceKey : HasWork(j)' <=> HasWork(j)
  BY <1>2 DEF HasWork, JobNotDone
<1>4. \A j \in InstanceKey : PhaseOf(j) = PlainPhase(j) /\ PhaseOf(j)' = PlainPhase(j)'
  BY PhaseIsPlain, PhaseIsPlainNext
<1>5. PlainPhase(i) = "none" /\ PlainPhase(i)' = "moving"
  <2>1. ~HasWork(i)
    BY <1>0, <1>1 DEF RuntimeRowsHaveInstance, HasWork, JobNotDone, TaskIsOpen
  <2>2. raised[i] = {}
    BY <1>0, <1>1 DEF RaisedIsStuck
  <2>3. instance'[i] = "active"
    BY <1>0, <1>1 DEF TypeOK
  <2> QED
    BY <1>1, <1>2, <1>3, <2>1, <2>2, <2>3 DEF PlainPhase
<1>6. \A j \in InstanceKey : j # i => PlainPhase(j)' = PlainPhase(j)
  BY <1>0, <1>1, <1>2, <1>3 DEF PlainPhase, TypeOK
<1>7. Phases[i] = "none" /\ Phases' = [Phases EXCEPT ![i] = "moving"]
  <2>1. Phases' = [j \in InstanceKey |-> PhaseOf(j)']
    BY DEF Phases
  <2>2. \A j \in InstanceKey : PhaseOf(j)' = IF j = i THEN "moving" ELSE Phases[j]
    BY <1>4, <1>5, <1>6 DEF Phases
  <2> QED
    BY <1>4, <1>5, <2>1, <2>2 DEF Phases
<1>8. Token!Leave(i, StartNode, initial)
  BY <1>1, <1>7 DEF Token!Leave, Phases
<1> QED
  BY <1>7, <1>8, SameGraph DEF Token!Start, Phases

(* Whatever else happens, the token game does not see it.                  *)
LEMMA Unseen ==
  ASSUME RefinementInv, RefinementInv', [Next]_vars,
         \A r \in Request : ~StartInstance(r) /\ ~Moves(r)
  PROVE  UNCHANGED <<Phases, token, scope>>
<1>0. SerialInv /\ TypeOK
  BY SerialParts DEF RefinementInv
<1>1. UNCHANGED <<instance, token, scope, raised>>
  BY <1>0, MovingSteps
<1>2. \A i \in InstanceKey : HasWork(i)' <=> HasWork(i)
  BY <1>0, WorkStays
<1>3. \A i \in InstanceKey : PlainPhase(i)' = PlainPhase(i)
  BY <1>1, <1>2 DEF PlainPhase
<1>4. \A i \in InstanceKey : PhaseOf(i) = PlainPhase(i) /\ PhaseOf(i)' = PlainPhase(i)'
  BY PhaseIsPlain, PhaseIsPlainNext
<1>5. Phases' = [i \in InstanceKey |-> PhaseOf(i)']
  BY DEF Phases
<1> QED
  BY <1>1, <1>3, <1>4, <1>5 DEF Phases

LEMMA TokenStep ==
  ASSUME RefinementInv, RefinementInv', [Next]_vars
  PROVE  [Token!Next]_(Token!vars)
<1>0. SerialInv
  BY DEF RefinementInv
<1>1. ASSUME NEW r \in Request, Moves(r)
      PROVE  Token!Next
  <2>1. PICK i \in InstanceKey : req[r].inst = i
    BY <1>0, <1>1, MovesTheMovable
  <2>2. Token!FinishWork(i) \/ Token!Arrive(i) \/ Token!Cancel(i)
    BY <1>1, <2>1, FinishesWork, ArrivesAtDestination, Cancels DEF Moves
  <2> QED
    BY <2>2 DEF Token!Next, Token!Instance, InstanceKey
<1>2. ASSUME NEW r \in Request, StartInstance(r)
      PROVE  Token!Next
  BY <1>2, Starts DEF Token!Next, Token!Instance, InstanceKey
<1>3. CASE \A r \in Request : ~StartInstance(r) /\ ~Moves(r)
  BY <1>3, Unseen DEF Token!vars, Phases
<1> QED
  BY <1>1, <1>2, <1>3

LEMMA TokenInit ==
  ASSUME Init
  PROVE  Token!Init
<1>1. \A i \in InstanceKey : PhaseOf(i) = "none"
  BY DEF Init, PhaseOf
<1>2. [i \in InstanceKey |-> PhaseOf(i)] = [i \in InstanceKey |-> "none"]
  BY <1>1
<1> QED
  BY <1>2, SameGraph DEF Init, Token!Init, Token!Instance, InstanceKey

(* While requests for one instance do not overlap, every step the engine   *)
(* takes on its tables is a step of the token game or invisible to it      *)
(* (run.rs, jobs.rs 11-124, manual_tasks.rs 17-179).                       *)
THEOREM ImplementsWorkflow == SerialSpec => RefinesWorkflow
<1>1. Init => RefinementInv /\ Token!Init
  BY RefinementInit, TokenInit
<1>2. RefinementInv /\ [Next /\ NoOverlap']_vars => RefinementInv'
  BY RefinementStep
<1>3. RefinementInv /\ RefinementInv' /\ [Next /\ NoOverlap']_vars => [Token!Next]_(Token!vars)
  BY TokenStep
<1> QED
  BY <1>1, <1>2, <1>3, PTL DEF SerialSpec, RefinesWorkflow, Token!Spec
=============================================================================
