--------------------------- MODULE InstanceQuery ---------------------------
(***************************************************************************)
(* GET /process-instances/{key} (forge-api instances.rs) while the engine  *)
(* runs: the handler reads the row, the element instances and the          *)
(* variables of an instance one after the other, each in a read of its     *)
(* own, first in the runtime tables and then in the history.               *)
(***************************************************************************)
EXTENDS EngineProps

VARIABLES
  query,  \* the handler and, at the end, its answer
  seen,   \* history: what the instance was at every moment of the query
  failed  \* history: the lists that could not be read

queryVars == <<query, seen, failed>>

NotAsked == [pc |-> "idle", inst |-> NoKey, status |-> "", active_elements |-> {},
             elements_history |-> {}, variables |-> EmptyScope]

(* The element instances of tasks: a node and whether it was left.  Those  *)
(* of events and gateways are left out.                                    *)
ElementsOf(i, archived) ==
  {<<jobs[k].node, jobs[k].left>> : k \in
     {j \in JobKey : jobs[j].state # "absent" /\ jobs[j].inst = i /\ jobs[j].archived = archived}}
  \cup
  {<<tasks[k].node, tasks[k].left>> : k \in
     {j \in TaskKey : tasks[j].state # "absent" /\ tasks[j].inst = i /\ tasks[j].archived = archived}}

Snapshot(i) ==
  [status |-> IF instance[i] = "none" THEN "not_found" ELSE instance[i],
   active_elements |-> ElementsOf(i, FALSE), elements_history |-> ElementsOf(i, TRUE),
   variables |-> scope[i]]

-----------------------------------------------------------------------------
GetInstance ==
  /\ query.pc \in {"idle", "answered"}
  /\ \E i \in InstanceKey :
       /\ query' = [NotAsked EXCEPT !.pc = "row", !.inst = i]
       /\ seen' = {Snapshot(i)}
  /\ failed' = {}

Read(pc, new) ==
  /\ query.pc = pc
  /\ query' = new
  /\ UNCHANGED <<seen, failed>>

MutNoHistory ==
  Read("row", IF Found(query.inst, "process_instances")
              THEN [query EXCEPT !.pc = "active_elements", !.status = "active"]
              ELSE [query EXCEPT !.pc = "answered", !.status = "not_found"])

ReadRow ==
  Read("row", IF Found(query.inst, "process_instances")
              THEN [query EXCEPT !.pc = "active_elements", !.status = "active"]
              ELSE [query EXCEPT !.pc = "history"])

ReadElements ==
  Read("active_elements",
       [query EXCEPT !.pc = "variables", !.active_elements = ElementsOf(query.inst, FALSE)])

ReadVariables ==
  Read("variables", [query EXCEPT !.pc = "answered", !.variables = scope[query.inst]])

ReadHistory ==
  Read("history", IF Found(query.inst, "process_instances_history")
                  THEN [query EXCEPT !.pc = "elements_history", !.status = instance[query.inst]]
                  ELSE [query EXCEPT !.pc = "answered", !.status = "not_found"])

ReadElementsHistory ==
  Read("elements_history",
       [query EXCEPT !.pc = "answered", !.elements_history = ElementsOf(query.inst, TRUE)])

(* unwrap_or_default: a list that cannot be read is an empty one.          *)
ListFails ==
  /\ query.pc \in {"active_elements", "variables", "elements_history"}
  /\ query' = [query EXCEPT !.pc = IF @ = "active_elements" THEN "variables" ELSE "answered"]
  /\ failed' = failed \cup {query.pc}
  /\ UNCHANGED seen

Advance == ReadRow \/ ReadElements \/ ReadVariables \/ ReadHistory \/ ReadElementsHistory

QueryInit == Init /\ query = NotAsked /\ seen = {} /\ failed = {}

Watch ==
  /\ UNCHANGED <<query, failed>>
  /\ seen' = IF query.pc \in {"idle", "answered"} THEN seen ELSE seen \cup {Snapshot(query.inst)'}

QueryNext ==
  \/ Next /\ Watch
  \/ (GetInstance \/ Advance \/ ListFails) /\ UNCHANGED vars

QuerySpec == QueryInit /\ [][QueryNext]_<<vars, queryVars>>

-----------------------------------------------------------------------------
(* The active elements are the whole list of a moment at which the         *)
(* instance was active, or none, if it had ended when they were read.      *)
ElementsWereTrue ==
  \E s \in seen : /\ s.active_elements = query.active_elements
                  /\ s.status = "active" \/ s.active_elements = {}

(* The parts of the answer are read at different moments.  What it says of *)
(* the status was true at one of them, and so was each list that could be  *)
(* read: of an active instance all its elements, where an instance that    *)
(* has ended by then has none, and all its variables in the runtime table; *)
(* of an ended one all its elements, at a moment when it had ended with    *)
(* that status.  Of a list that could not be read (failed) nothing is      *)
(* said: it is answered as empty.  An instance that existed when the query *)
(* began is not "not_found", and an answer that it ended is final          *)
(* (instances.rs 67-147, runtime.rs 253-303).                              *)
AnswerWasTrue ==
  query.pc = "answered" =>
    /\ \E s \in seen : s.status = query.status
    /\ query.status = "active" =>
         /\ "active_elements" \in failed \/ ElementsWereTrue
         /\ "variables" \in failed \/ \E s \in seen : s.variables = query.variables
    /\ query.status \in {"completed", "cancelled"} =>
         /\ instance[query.inst] = query.status
         /\ "elements_history" \in failed
            \/ \E s \in seen : s.status = query.status /\ s.elements_history = query.elements_history

(* "Instance is still running -- return live state." (instances.rs 80) The *)
(* elements and the variables of an instance that is answered as active    *)
(* are those of one moment of the query at which it was.  Not so: a list   *)
(* that cannot be read, and every list of an instance that was archived    *)
(* after its row was read, is empty.                                       *)
ReturnsLiveState ==
  query.pc = "answered" /\ query.status = "active" =>
    \E s \in seen : /\ s.status = "active"
                    /\ s.active_elements = query.active_elements
                    /\ s.variables = query.variables

(* "Active elements:" (forge-cli instance.rs 102), printed over what the   *)
(* query answers as active_elements: no element among them has been left.  *)
(* Not so: the query does not look at the state (runtime.rs 284).          *)
ActiveElementsAreActive ==
  query.pc = "answered" => \A e \in query.active_elements : ~e[2]

-----------------------------------------------------------------------------
(* The inductive invariant behind AnswerWasTrue, on top of IInv.           *)

Part == {"active_elements", "variables", "elements_history"}

QueryRecord == [pc : {"idle", "row", "history", "answered"} \cup Part,
                inst : InstanceKey \cup {NoKey},
                status : {"", "not_found", "active", "completed", "cancelled"},
                active_elements : SUBSET ((Node \cup {NoNode}) \X BOOLEAN),
                elements_history : SUBSET ((Node \cup {NoNode}) \X BOOLEAN), variables : Scope]

QueryTypeOK ==
  /\ query \in QueryRecord
  /\ query.pc # "idle" => query.inst \in InstanceKey
  /\ failed \subseteq Part

(* What the handler has read so far was true when it read it, and what it  *)
(* is about to read now is what is seen now.                               *)
ReadsWereTrue ==
  LET i == query.inst IN
  /\ query.pc \notin {"idle", "answered"} => Snapshot(i) \in seen
  /\ query.pc \in {"active_elements", "variables"} =>
       query.status = "active" /\ \E s \in seen : s.status = "active"
  /\ query.pc = "variables" => "active_elements" \in failed \/ ElementsWereTrue
  /\ query.pc = "history" => Ended(i) \/ \E s \in seen : s.status = "not_found"
  /\ query.pc = "elements_history" => Ended(i) /\ query.status = instance[i]

QueryInv == IInv /\ QueryTypeOK /\ ReadsWereTrue /\ AnswerWasTrue
=============================================================================
