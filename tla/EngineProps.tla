----------------------------- MODULE EngineProps -----------------------------
(***************************************************************************)
(* What the engine promises: its type invariant, the safety properties     *)
(* that hold under every interleaving, the ones the code only keeps as     *)
(* long as requests for one instance do not overlap, and liveness.         *)
(***************************************************************************)
EXTENDS Engine

(* Every table and every request has the shape the code gives it.          *)
TypeOK ==
  /\ instance \in [InstanceKey -> {"none", "active", "completed", "cancelled"}]
  /\ token \in [InstanceKey -> Node \cup {NoNode}]
  /\ scope \in [InstanceKey -> Scope]
  /\ jobs \in [JobKey -> JobRow]
  /\ tasks \in [TaskKey -> TaskRow]
  /\ incidents \in [IncidentKey -> IncidentRow]
  /\ audit \in [InstanceKey -> SUBSET {"completed", "cancelled"}]
  /\ raised \in [InstanceKey -> SUBSET Node]
  /\ writer \in Request \cup {NoRequest}
  /\ req \in [Request -> ReqRecord]
  /\ lost \in SUBSET InstanceKey

Ended(i) == instance[i] \in {"completed", "cancelled"}

-----------------------------------------------------------------------------
(* The inductive invariant behind the safety properties.                   *)

(* A row that was inserted names an existing instance key and node, an     *)
(* incident one existing job of its own instance; a row that was never     *)
(* inserted is untouched.                                                  *)
RowsOK ==
  /\ \A k \in JobKey :
       IF jobs[k].state = "absent" THEN jobs[k] = NoJob
       ELSE jobs[k].inst \in InstanceKey /\ jobs[k].node \in Node
  /\ \A k \in TaskKey :
       IF tasks[k].state = "absent" THEN tasks[k] = NoTask
       ELSE tasks[k].inst \in InstanceKey /\ tasks[k].node \in Node
  /\ \A x \in IncidentKey :
       IF incidents[x].state = "absent" THEN incidents[x] = NoIncident
       ELSE /\ incidents[x].job \in JobKey
            /\ jobs[incidents[x].job].state # "absent"
            /\ incidents[x].inst = jobs[incidents[x].job].inst

(* What a request remembers of the row it read first still names that row. *)
RequestOK(r) ==
  LET q == req[r] IN
  /\ q.pc \in LoadingJob =>
       /\ q.key \in JobKey
       /\ jobs[q.key].state # "absent"
       /\ q.inst = jobs[q.key].inst
       /\ q.at \in Node
  /\ q.pc \in LoadingTask =>
       /\ q.key \in TaskKey
       /\ tasks[q.key].state # "absent"
       /\ q.inst = tasks[q.key].inst
       /\ q.at \in Node
  /\ q.pc = "resolve_tx" =>
       q.key \in IncidentKey /\ incidents[q.key].state # "absent"
  /\ q.pc \in {"job_execution", "job_tx", "task_execution", "task_tx"} => HasNext(q.at)
  /\ q.pc = "lock" => q.worker \in Worker
  /\ q.pc \in Resuming \cup Replying => q.inst \in InstanceKey

(* A request inside run_step's transaction is the only writer, and its     *)
(* instance is not archived under it.                                      *)
WriterOK ==
  \A r \in Request : req[r].pc = "run" =>
    /\ writer = r
    /\ req[r].at \in Node
    /\ instance[req[r].inst] = "active"

Consistent == RowsOK /\ (\A r \in Request : RequestOK(r)) /\ WriterOK

-----------------------------------------------------------------------------
(* Properties of every interleaving.                                       *)

(* A runtime job that ran out of retries always has an active incident, so *)
(* an operator can find it and resolve it: fail_job, resolve_incident and  *)
(* archiving may overlap in any order (jobs.rs, store/incidents.rs).       *)
DeadJobHasIncident ==
  \A k \in JobKey : Live(jobs[k]) /\ jobs[k].state = "dead" =>
    \E x \in IncidentKey :
      Live(incidents[x]) /\ incidents[x].state = "active" /\ incidents[x].job = k

(* Runtime jobs, manual tasks and executions belong to a runtime instance  *)
(* (their foreign keys): run_step never parks work for an instance that    *)
(* another request archived meanwhile (run.rs, history.rs).                *)
RuntimeRowsHaveInstance ==
  /\ \A k \in JobKey : Live(jobs[k]) => instance[jobs[k].inst] = "active"
  /\ \A k \in TaskKey : Live(tasks[k]) => instance[tasks[k].inst] = "active"
  /\ \A i \in InstanceKey : token[i] # NoNode => instance[i] = "active"

(* The inductive invariant: each of the two properties above needs the     *)
(* other parts to be preserved by every step.                              *)
IInv == TypeOK /\ Consistent /\ RuntimeRowsHaveInstance /\ DeadJobHasIncident

(* Somebody can move instance i on from node n: a worker, a user, or an    *)
(* operator who resolves the incident of a dead job.                       *)
HasOpenWork(i, n) ==
  \/ \E k \in JobKey :
       /\ Live(jobs[k]) /\ jobs[k].inst = i /\ jobs[k].node = n
       /\ \/ jobs[k].state \in {"activatable", "activated"}
          \/ /\ jobs[k].state = "dead"
             /\ \E x \in IncidentKey : /\ Live(incidents[x])
                                       /\ incidents[x].state = "active"
                                       /\ incidents[x].job = k
  \/ \E k \in TaskKey :
       /\ Live(tasks[k]) /\ tasks[k].inst = i /\ tasks[k].node = n
       /\ tasks[k].state = "open"

(* run_step left instance i at a wait state or at a gateway incident.      *)
Parked(i) == token[i] \in raised[i] \/ HasOpenWork(i, token[i])

BeingResumed(i) == \E r \in Request : req[r].pc \in Resuming /\ req[r].inst = i

(* However requests overlap, an active instance is parked or about to be   *)
(* resumed, unless a run_step for it was cut off: the gap between the      *)
(* completion's commit and run_step's commit is the only way to strand an  *)
(* instance (jobs.rs 108-121, manual_tasks.rs 98-110, instance.rs 69-84).  *)
StrandedOnlyByLostStep ==
  \A i \in InstanceKey :
    instance[i] = "active" => Parked(i) \/ BeingResumed(i) \/ i \in lost

(* The end of an instance is recorded by the event of that end, and an     *)
(* active instance has no terminal event, although a cancellation and a    *)
(* completion may race (events.rs 110-120, manual_tasks.rs 161-172).       *)
AuditTellsTheEnd ==
  \A i \in InstanceKey :
    IF Ended(i) THEN instance[i] \in audit[i] ELSE audit[i] = {}

(* A request that resumed an instance always finds its status, although    *)
(* the instance may be archived between the two reads of                   *)
(* resolve_instance_status (instance.rs 99-112).                           *)
StatusAlwaysFound == \A r \in Request : req[r].pc # "unresolved"

(* History is final: no late request changes the outcome of an archived    *)
(* instance or a row that was archived with it (history.rs).               *)
ArchiveIsFinal ==
  [][/\ \A i \in InstanceKey : Ended(i) => instance'[i] = instance[i]
     /\ \A k \in JobKey : jobs[k].archived => jobs'[k] = jobs[k]
     /\ \A k \in TaskKey : tasks[k].archived => tasks'[k] = tasks[k]
     /\ \A k \in IncidentKey :
          incidents[k].archived => incidents'[k] = incidents[k]]_vars

-----------------------------------------------------------------------------
(* Properties the code keeps only while requests for one instance do not   *)
(* overlap.                                                                *)

(* What somebody has yet to do for instance i: jobs not completed, tasks   *)
(* still open.                                                             *)
OpenItems(i) ==
  {[kind |-> "job", key |-> k, node |-> jobs[k].node] :
     k \in {l \in JobKey : Live(jobs[l]) /\ jobs[l].inst = i
                          /\ jobs[l].state # "completed"}}
  \cup
  {[kind |-> "task", key |-> k, node |-> tasks[k].node] :
     k \in {l \in TaskKey : Live(tasks[l]) /\ tasks[l].inst = i
                           /\ tasks[l].state = "open"}}

(* An instance waits at one node for one thing: nothing else of it is open *)
(* (step.rs: the single execution is parked at one wait state).            *)
OneOpenItem ==
  \A i \in InstanceKey :
    /\ Cardinality(OpenItems(i)) <= 1
    /\ \A item \in OpenItems(i) : item.node = token[i]

(* A completed job or a finished manual task is never worked on again      *)
(* (jobs.rs 23-28 and 139-144, manual_tasks.rs 27-32 and 127-132).         *)
FinishedStaysFinished ==
  [][/\ \A k \in JobKey :
          jobs[k].state = "completed" => jobs'[k].state = "completed"
     /\ \A k \in TaskKey :
          tasks[k].state \in {"completed", "cancelled"} =>
            tasks'[k].state = tasks[k].state]_vars

(* "Mark the instance terminal and move all its rows into history": no     *)
(* variable and no incident of an ended instance is left in the runtime    *)
(* tables (archive.rs 5, history.rs 5-6).                                  *)
NoRowsLeftBehind ==
  \A i \in InstanceKey : Ended(i) =>
    /\ scope[i] = EmptyScope
    /\ \A x \in IncidentKey : incidents[x].inst = i => incidents[x].archived

(* An active incident stands for a job that is dead now, and for one       *)
(* incident only (jobs.rs 176-202 and 240-246).                            *)
ActiveIncidentMeansDeadJob ==
  \A x \in IncidentKey :
    Live(incidents[x]) /\ incidents[x].state = "active" =>
      /\ Live(jobs[incidents[x].job])
      /\ jobs[incidents[x].job].state = "dead"
      /\ \A y \in IncidentKey \ {x} :
           Live(incidents[y]) /\ incidents[y].job = incidents[x].job =>
             incidents[y].state = "resolved"

(* Two workers never hold the same job: a lock that has not expired is not *)
(* given to somebody else (store/jobs.rs 70-71).                           *)
LockIsExclusive ==
  [][\A k \in JobKey :
       (/\ Live(jobs[k]) /\ jobs[k].state = "activated" /\ jobs[k].lock = "live"
        /\ jobs'[k].state = "activated")
       => jobs'[k].worker = jobs[k].worker]_vars

(* A completion that commits completes a task that is open, or a job that  *)
(* is activated, at that moment; a second completion is refused            *)
(* (it_manual_task.rs 222, jobs.rs 11).                                    *)
WorkCompletedOnce ==
  [][\A r \in Request : req'[r].pc = "begin" =>
       /\ req[r].pc = "task_tx" =>
            Live(tasks[req[r].key]) /\ tasks[req[r].key].state = "open"
       /\ req[r].pc = "job_tx" =>
            Live(jobs[req[r].key]) /\ jobs[req[r].key].state = "activated"]_vars

(* "Cancel an open manual task and move the instance to cancelled": a      *)
(* cancellation that commits finds the task open and leaves the instance   *)
(* cancelled (manual_tasks.rs 115).                                        *)
CancelMeansCancelled ==
  [][\A r \in Request :
       CancelTaskTx(r) =>
         /\ tasks[req[r].key].state = "open"
         /\ instance'[req[r].inst] = "cancelled"]_vars

-----------------------------------------------------------------------------
(* Liveness.                                                               *)

(* Tokio polls every ready future, and a statement that waits for the      *)
(* write lock ends at the latest when busy_timeout runs out.               *)
Fairness == \A r \in Request : WF_vars(Proceed(r))

FairSpec == Spec /\ Fairness

(* Every request is answered in the end, also when requests compete for    *)
(* the write lock and other requests are cut off.                          *)
EveryRequestAnswered ==
  \A r \in Request : req[r].pc # "idle" ~> req[r].pc = "idle"

(* An active instance comes to rest: it is parked, it ends, or a step for  *)
(* it was cut off ("advance the execution to the next wait state", run.rs  *)
(* 8); it never keeps moving, and is never left behind by its requests.    *)
EveryInstanceSettles ==
  \A i \in InstanceKey :
    instance[i] = "active" ~>
      Ended(i) \/ (instance[i] = "active" /\ Parked(i)) \/ i \in lost
=============================================================================
