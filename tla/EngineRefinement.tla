-------------------------- MODULE EngineRefinement --------------------------
(***************************************************************************)
(* The engine implements Workflow as long as requests for one instance do  *)
(* not overlap: its tables, read through the mapping below, only take      *)
(* steps of the token game, whatever statements, crashes, lost steps, lock *)
(* expiries and retries lie between them.                                  *)
(***************************************************************************)
EXTENDS EngineProps

(* The phase of instance i, as its rows show it.                           *)
PhaseOf(i) ==
  IF instance[i] # "active" THEN instance[i]
  ELSE IF token[i] \in raised[i] THEN "stuck"
  ELSE IF HasOpenWork(i, token[i]) THEN "waiting" ELSE "moving"

Token == INSTANCE Workflow WITH
           phase <- [i \in InstanceKey |-> PhaseOf(i)],
           at <- token,
           data <- scope

(* Every step the engine takes on an instance is a step of its token: run  *)
(* to the wait state the variables select, finish work that is waited for, *)
(* cancel an instance that waits for a user (run.rs, jobs.rs 11-124,       *)
(* manual_tasks.rs 17-179).                                                *)
RefinesWorkflow == Token!Spec

(* Clients that never have two requests for one instance in flight.        *)
Touches(r) ==
  IF req[r].pc = "lock" THEN {jobs[k].inst : k \in req[r].todo}
  ELSE IF req[r].pc = "idle" THEN {} ELSE {req[r].inst}

NoOverlap ==
  \A r, s \in Request : r # s => Touches(r) \cap Touches(s) = {}

SerialSpec == Init /\ [][Next /\ NoOverlap']_vars

-----------------------------------------------------------------------------
(* The inductive invariant of SerialSpec, on top of IInv.                  *)

JobNotDone(k) == Live(jobs[k]) /\ jobs[k].state # "completed"

(* What is not done of an instance is one job or one open task, at the     *)
(* node of its token.                                                      *)
OneThingToDo ==
  /\ \A k \in JobKey : JobNotDone(k) =>
       /\ jobs[k].node = token[jobs[k].inst]
       /\ \A l \in JobKey : JobNotDone(l) /\ jobs[l].inst = jobs[k].inst => l = k
       /\ \A l \in TaskKey : TaskIsOpen(tasks[l]) => tasks[l].inst # jobs[k].inst
  /\ \A k \in TaskKey : TaskIsOpen(tasks[k]) =>
       /\ tasks[k].node = token[tasks[k].inst]
       /\ \A l \in TaskKey : TaskIsOpen(tasks[l]) /\ tasks[l].inst = tasks[k].inst => l = k

(* Nothing is left to do of an instance that run_step moves on.            *)
ResumedIsDone ==
  \A r \in Request : req[r].pc \in Resuming =>
    /\ \A k \in JobKey : JobNotDone(k) => jobs[k].inst # req[r].inst
    /\ \A k \in TaskKey : TaskIsOpen(tasks[k]) => tasks[k].inst # req[r].inst

(* What a request read first is still so when its transaction runs.        *)
ReadStillHolds(r) ==
  LET q == req[r] IN
  /\ q.pc \in LoadingJob => JobIsActivated(jobs[q.key]) /\ q.at = jobs[q.key].node
  /\ q.pc \in LoadingTask => TaskIsOpen(tasks[q.key]) /\ q.at = tasks[q.key].node
  /\ q.pc = "resolve_tx" =>
       /\ Live(incidents[q.key]) /\ incidents[q.key].state = "active"
       /\ q.inst = incidents[q.key].inst
  /\ q.pc = "lock" => \A k \in q.todo : Activatable(k)

SerialInv ==
  /\ IInv
  /\ NoOverlap
  /\ OneThingToDo
  /\ ResumedIsDone
  /\ \A r \in Request : ReadStillHolds(r)
  /\ ActiveIncidentMeansDeadJob
  /\ NoRowsLeftBehind

-----------------------------------------------------------------------------
(* The rest of the inductive invariant of RefinesWorkflow.                 *)

(* Somebody has yet to do something for instance i.                        *)
HasWork(i) ==
  \/ \E k \in JobKey : JobNotDone(k) /\ jobs[k].inst = i
  \/ \E k \in TaskKey : TaskIsOpen(tasks[k]) /\ tasks[k].inst = i

(* run_step counts its handlers, and has come to the node it is at along   *)
(* the route of the token.                                                 *)
OnItsWay(r) ==
  LET q == req[r] IN
  /\ q.pc = "begin" => q.steps = 0
  /\ q.pc = "run" => Token!Leads(token[q.inst], q.at, q.steps + 1, scope[q.inst])

(* Nobody moves an instance on from a gateway it could not leave.          *)
RaisedIsStuck ==
  \A i \in InstanceKey : raised[i] # {} =>
    /\ instance[i] = "active"
    /\ token[i] \in raised[i]
    /\ ~BeingResumed(i)
    /\ ~HasWork(i)

UsersGetManualTasks ==
  \A k \in TaskKey : TaskIsOpen(tasks[k]) => Kind[tasks[k].node] = "manual"

RefinementInv ==
  /\ SerialInv
  /\ \A r \in Request : OnItsWay(r)
  /\ RaisedIsStuck
  /\ UsersGetManualTasks
=============================================================================
