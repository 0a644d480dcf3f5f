----------------------------- MODULE QueryProofs -----------------------------
(***************************************************************************)
(* What GET /process-instances/{key} answers was true at some moment of    *)
(* the request, as far as it could be read, proved for every graph and any *)
(* number of requests that run meanwhile.                                  *)
(*                                                                         *)
(* The handler reads outside any transaction.  What saves it is that       *)
(* nothing comes back: an ended instance stays ended, and has no runtime   *)
(* rows (RuntimeRowsHaveInstance), so that the elements read from the      *)
(* runtime tables too late are none at all and not some of them.           *)
(***************************************************************************)
EXTENDS InstanceQuery, EngineProofs

(* The elements of an instance are nodes, left or not.                     *)
LEMMA ElementTypes ==
  ASSUME TypeOK, NEW i, NEW archived
  PROVE  ElementsOf(i, archived) \subseteq (Node \cup {NoNode}) \X BOOLEAN
<1>1. ASSUME NEW k \in JobKey
      PROVE  <<jobs[k].node, jobs[k].left>> \in (Node \cup {NoNode}) \X BOOLEAN
  BY DEF TypeOK, JobRow
<1>2. ASSUME NEW k \in TaskKey
      PROVE  <<tasks[k].node, tasks[k].left>> \in (Node \cup {NoNode}) \X BOOLEAN
  BY DEF TypeOK, TaskRow
<1> QED
  BY <1>1, <1>2 DEF ElementsOf

(* The runtime tables list elements of an active instance only.            *)
LEMMA RuntimeElements ==
  ASSUME RuntimeRowsHaveInstance, NEW i \in InstanceKey, instance[i] # "active"
  PROVE  ElementsOf(i, FALSE) = {}
<1>1. \A k \in JobKey : ~(jobs[k].state # "absent" /\ jobs[k].inst = i /\ jobs[k].archived = FALSE)
  BY DEF RuntimeRowsHaveInstance, Live
<1>2. \A k \in TaskKey :
        ~(tasks[k].state # "absent" /\ tasks[k].inst = i /\ tasks[k].archived = FALSE)
  BY DEF RuntimeRowsHaveInstance, Live
<1> QED
  BY <1>1, <1>2 DEF ElementsOf

(* A step of the engine is seen, and takes nothing back.                   *)
LEMMA WatchStep ==
  ASSUME QueryInv, [Next]_vars, Watch
  PROVE  QueryTypeOK' /\ ReadsWereTrue' /\ AnswerWasTrue'
<1> DEFINE i == query.inst
<1>0. query' = query /\ failed' = failed /\ seen \subseteq seen'
  BY DEF Watch
<1>1. QueryTypeOK'
  BY <1>0 DEF QueryInv, QueryTypeOK
<1>2. query.pc \notin {"idle", "answered"} => Snapshot(i)' \in seen'
  BY DEF Watch
<1>3. query.pc # "idle" /\ Ended(i) => instance'[i] = instance[i] /\ Ended(i)'
  BY <1>0, InstanceSteps DEF QueryInv, QueryTypeOK, IInv, Ended
<1>4. ElementsWereTrue => ElementsWereTrue'
  BY <1>0 DEF ElementsWereTrue
<1>5. ReadsWereTrue'
  <2>1. /\ query'.pc \notin {"idle", "answered"} => Snapshot(i)' \in seen'
        /\ query'.pc \in {"active_elements", "variables"} =>
             query'.status = "active" /\ \E s \in seen' : s.status = "active"
        /\ query'.pc = "variables" => "active_elements" \in failed' \/ ElementsWereTrue'
    BY <1>0, <1>2, <1>4 DEF QueryInv, ReadsWereTrue
  <2>2. /\ query'.pc = "history" => Ended(i)' \/ \E s \in seen' : s.status = "not_found"
        /\ query'.pc = "elements_history" => Ended(i)' /\ query'.status = instance'[i]
    BY <1>0, <1>3 DEF QueryInv, ReadsWereTrue
  <2> QED
    BY <1>0, <2>1, <2>2 DEF ReadsWereTrue
<1>6. AnswerWasTrue'
  BY <1>0, <1>3, <1>4 DEF QueryInv, AnswerWasTrue, Ended
<1> QED
  BY <1>1, <1>5, <1>6

(* A query begins.                                                         *)
LEMMA GetInstanceStep ==
  ASSUME QueryInv, GetInstance, UNCHANGED vars
  PROVE  QueryTypeOK' /\ ReadsWereTrue' /\ AnswerWasTrue'
<1>1. PICK i \in InstanceKey :
        /\ query' = [NotAsked EXCEPT !.pc = "row", !.inst = i] /\ seen' = {Snapshot(i)}
        /\ failed' = {}
  BY DEF GetInstance
<1>2. query'.pc = "row" /\ query'.inst = i
  BY <1>1 DEF NotAsked
<1>3. QueryTypeOK'
  <2>1. EmptyScope \in Scope
    BY DEF EmptyScope, Scope
  <2> QED
    BY <1>1, <1>2, <2>1 DEF QueryTypeOK, QueryRecord, Part, NotAsked
<1>4. Snapshot(query.inst)' = Snapshot(i)
  BY <1>2 DEF vars, Snapshot, ElementsOf, Ended
<1>5. Snapshot(query.inst)' \in seen'
  BY <1>1, <1>4
<1>6. ReadsWereTrue'
  BY <1>2, <1>5 DEF ReadsWereTrue
<1>7. AnswerWasTrue'
  BY <1>2 DEF AnswerWasTrue
<1> QED
  BY <1>3, <1>6, <1>7

(* The handler reads the next part of its answer.                          *)
LEMMA ReadStep ==
  ASSUME QueryInv, Advance, UNCHANGED vars
  PROVE  QueryTypeOK' /\ ReadsWereTrue' /\ AnswerWasTrue'
<1> DEFINE i == query.inst
<1>0. /\ TypeOK /\ RuntimeRowsHaveInstance /\ query \in QueryRecord /\ failed \subseteq Part
      /\ query.pc # "idle" => i \in InstanceKey
      /\ ReadsWereTrue
  BY DEF QueryInv, IInv, QueryTypeOK
<1>1. /\ seen' = seen /\ failed' = failed
      /\ query.pc \in {"row", "active_elements", "variables", "history", "elements_history"}
  BY DEF Advance, ReadRow, ReadElements, ReadVariables, ReadHistory, ReadElementsHistory, Read
<1>2. /\ i \in InstanceKey /\ Snapshot(i) \in seen
      /\ instance[i] \in {"none", "active", "completed", "cancelled"}
      /\ scope[i] \in Scope
  BY <1>0, <1>1 DEF ReadsWereTrue, TypeOK
<1>3. Snapshot(query.inst)' = Snapshot(i) /\ instance' = instance /\ (Ended(query.inst)' <=> Ended(i))
  <2>1. query'.inst = i
    BY <1>0 DEF Advance, ReadRow, ReadElements, ReadVariables, ReadHistory,
                ReadElementsHistory, Read, QueryRecord
  <2> QED
    BY <2>1 DEF vars, Snapshot, ElementsOf, Ended
<1>4. /\ Snapshot(i).status = IF instance[i] = "none" THEN "not_found" ELSE instance[i]
      /\ Snapshot(i).active_elements = ElementsOf(i, FALSE)
      /\ Snapshot(i).elements_history = ElementsOf(i, TRUE)
      /\ Snapshot(i).variables = scope[i]
  BY DEF Snapshot
<1>5. \A archived : ElementsOf(i, archived) \in SUBSET ((Node \cup {NoNode}) \X BOOLEAN)
  BY <1>0, ElementTypes
<1>6. CASE ReadRow
  <2>1. CASE instance[i] = "active"
    <3>1. query' = [query EXCEPT !.pc = "active_elements", !.status = "active"]
      BY <1>6, <2>1 DEF ReadRow, Read, Found
    <3>2. /\ query'.pc = "active_elements" /\ query'.status = "active" /\ query'.inst = i
          /\ query' \in QueryRecord
      BY <1>0, <3>1 DEF QueryRecord, Part
    <3> QED
      BY <1>0, <1>1, <1>2, <1>3, <1>4, <2>1, <3>2 DEF QueryTypeOK, ReadsWereTrue, AnswerWasTrue
  <2>2. CASE instance[i] # "active"
    <3>1. query' = [query EXCEPT !.pc = "history"]
      BY <1>6, <2>2 DEF ReadRow, Read, Found
    <3>2. query'.pc = "history" /\ query'.inst = i /\ query' \in QueryRecord
      BY <1>0, <3>1 DEF QueryRecord
    <3>3. Ended(i) \/ \E s \in seen : s.status = "not_found"
      BY <1>2, <1>4, <2>2 DEF Ended
    <3> QED
      BY <1>0, <1>1, <1>2, <1>3, <3>2, <3>3 DEF QueryTypeOK, ReadsWereTrue, AnswerWasTrue
  <2> QED
    BY <2>1, <2>2
<1>7. CASE ReadElements
  <2>1. /\ query.pc = "active_elements"
        /\ query' = [query EXCEPT !.pc = "variables", !.active_elements = ElementsOf(i, FALSE)]
    BY <1>7 DEF ReadElements, Read
  <2>2. query.status = "active" /\ \E s \in seen : s.status = "active"
    BY <1>0, <2>1 DEF ReadsWereTrue
  <2>3. /\ query'.pc = "variables" /\ query'.status = "active" /\ query'.inst = i
        /\ query'.active_elements = ElementsOf(i, FALSE)
        /\ query' \in QueryRecord
    BY <1>0, <1>5, <2>1, <2>2 DEF QueryRecord, Part
  <2>4. ElementsWereTrue'
    <3>1. Snapshot(i).status = "active" \/ Snapshot(i).active_elements = {}
      BY <1>0, <1>2, <1>4, RuntimeElements
    <3> QED
      BY <1>1, <1>2, <1>4, <2>3, <3>1 DEF ElementsWereTrue
  <2> QED
    BY <1>0, <1>1, <1>2, <1>3, <2>2, <2>3, <2>4 DEF QueryTypeOK, ReadsWereTrue, AnswerWasTrue
<1>8. CASE ReadVariables
  <2>1. query.pc = "variables" /\ query' = [query EXCEPT !.pc = "answered", !.variables = scope[i]]
    BY <1>8 DEF ReadVariables, Read
  <2>2. /\ query.status = "active" /\ \E s \in seen : s.status = "active"
        /\ "active_elements" \in failed \/ ElementsWereTrue
    BY <1>0, <2>1 DEF ReadsWereTrue
  <2>3. /\ query'.pc = "answered" /\ query'.status = "active" /\ query'.inst = i
        /\ query'.variables = scope[i] /\ query'.active_elements = query.active_elements
        /\ query' \in QueryRecord
    BY <1>0, <1>2, <2>1, <2>2 DEF QueryRecord
  <2>4. ElementsWereTrue => ElementsWereTrue'
    BY <1>1, <2>3 DEF ElementsWereTrue
  <2>5. \E s \in seen' : s.variables = query'.variables
    BY <1>1, <1>2, <1>4, <2>3
  <2> QED
    BY <1>0, <1>1, <1>2, <1>3, <2>2, <2>3, <2>4, <2>5 DEF QueryTypeOK, ReadsWereTrue, AnswerWasTrue
<1>9. CASE ReadHistory
  <2>1. query.pc = "history"
    BY <1>9 DEF ReadHistory, Read
  <2>2. CASE Ended(i)
    <3>1. query' = [query EXCEPT !.pc = "elements_history", !.status = instance[i]]
      BY <1>9, <2>2 DEF ReadHistory, Read, Found, Ended
    <3>2. /\ query'.pc = "elements_history" /\ query'.status = instance[i] /\ query'.inst = i
          /\ query' \in QueryRecord
      BY <1>0, <2>2, <3>1 DEF QueryRecord, Part, Ended
    <3> QED
      BY <1>0, <1>1, <1>2, <1>3, <2>2, <3>2 DEF QueryTypeOK, ReadsWereTrue, AnswerWasTrue
  <2>3. CASE ~Ended(i)
    <3>1. query' = [query EXCEPT !.pc = "answered", !.status = "not_found"]
      BY <1>9, <2>3 DEF ReadHistory, Read, Found, Ended
    <3>2. /\ query'.pc = "answered" /\ query'.status = "not_found" /\ query'.inst = i
          /\ query' \in QueryRecord
      BY <1>0, <3>1 DEF QueryRecord
    <3>3. \E s \in seen : s.status = "not_found"
      BY <1>0, <2>1, <2>3 DEF ReadsWereTrue
    <3> QED
      BY <1>0, <1>1, <1>2, <3>2, <3>3 DEF QueryTypeOK, ReadsWereTrue, AnswerWasTrue
  <2> QED
    BY <2>2, <2>3
<1>10. CASE ReadElementsHistory
  <2>1. /\ query.pc = "elements_history"
        /\ query' = [query EXCEPT !.pc = "answered", !.elements_history = ElementsOf(i, TRUE)]
    BY <1>10 DEF ReadElementsHistory, Read
  <2>2. Ended(i) /\ query.status = instance[i]
    BY <1>0, <2>1 DEF ReadsWereTrue
  <2>3. /\ query'.pc = "answered" /\ query'.status = instance[i] /\ query'.inst = i
        /\ query'.elements_history = ElementsOf(i, TRUE)
        /\ query' \in QueryRecord
    BY <1>0, <1>5, <2>1, <2>2 DEF QueryRecord
  <2>4. Snapshot(i).status = instance[i]
    BY <1>4, <2>2 DEF Ended
  <2> QED
    BY <1>0, <1>1, <1>2, <1>3, <1>4, <2>2, <2>3, <2>4
       DEF QueryTypeOK, ReadsWereTrue, AnswerWasTrue, Ended
<1> QED
  BY <1>6, <1>7, <1>8, <1>9, <1>10 DEF Advance

(* A list cannot be read and is left empty.                                *)
LEMMA ListFailsStep ==
  ASSUME QueryInv, ListFails, UNCHANGED vars
  PROVE  QueryTypeOK' /\ ReadsWereTrue' /\ AnswerWasTrue'
<1> DEFINE i == query.inst
<1>0. /\ query \in QueryRecord /\ failed \subseteq Part
      /\ query.pc # "idle" => i \in InstanceKey
      /\ ReadsWereTrue
  BY DEF QueryInv, QueryTypeOK
<1>1. /\ query.pc \in Part /\ seen' = seen /\ failed' = failed \cup {query.pc}
      /\ query' = [query EXCEPT !.pc = IF @ = "active_elements" THEN "variables" ELSE "answered"]
  BY DEF ListFails, Part
<1>2. /\ query'.pc = IF query.pc = "active_elements" THEN "variables" ELSE "answered"
      /\ query'.inst = i /\ query'.status = query.status
      /\ query'.active_elements = query.active_elements
      /\ query' \in QueryRecord
  BY <1>0, <1>1 DEF QueryRecord, Part
<1>3. /\ i \in InstanceKey /\ Snapshot(i) \in seen
      /\ Snapshot(query.inst)' = Snapshot(i) /\ instance' = instance
      /\ ElementsWereTrue => ElementsWereTrue'
  <2>1. i \in InstanceKey /\ Snapshot(i) \in seen
    BY <1>0, <1>1 DEF ReadsWereTrue, Part
  <2>2. Snapshot(query.inst)' = Snapshot(i) /\ instance' = instance
    BY <1>2 DEF vars, Snapshot, ElementsOf
  <2>3. ElementsWereTrue => ElementsWereTrue'
    BY <1>1, <1>2 DEF ElementsWereTrue
  <2> QED
    BY <2>1, <2>2, <2>3
<1>4. QueryTypeOK'
  BY <1>0, <1>1, <1>2, <1>3 DEF QueryTypeOK
<1>5. CASE query.pc \in {"active_elements", "variables"}
  <2>1. /\ query.status = "active" /\ \E s \in seen : s.status = "active"
        /\ query.pc = "variables" => "active_elements" \in failed \/ ElementsWereTrue
    BY <1>0, <1>5 DEF ReadsWereTrue
  <2> QED
    BY <1>1, <1>2, <1>3, <1>4, <1>5, <2>1 DEF ReadsWereTrue, AnswerWasTrue
<1>6. CASE query.pc = "elements_history"
  <2>1. Ended(i) /\ query.status = instance[i]
    BY <1>0, <1>6 DEF ReadsWereTrue
  <2>2. Snapshot(i).status = instance[i]
    BY <2>1 DEF Snapshot, Ended
  <2> QED
    BY <1>1, <1>2, <1>3, <1>4, <1>6, <2>1, <2>2 DEF ReadsWereTrue, AnswerWasTrue, Ended
<1> QED
  BY <1>1, <1>5, <1>6 DEF Part

(* What GET /process-instances/{key} answers was true at some moment of    *)
(* the request, list by list and except for lists that could not be read,  *)
(* whatever the engine did between its reads (instances.rs 67-147,         *)
(* runtime.rs 253-303).                                                    *)
THEOREM AnswersAreTrue == QuerySpec => []AnswerWasTrue
<1>1. QueryInit => QueryInv
  <2> SUFFICES ASSUME QueryInit
               PROVE  QueryInv
    OBVIOUS
  <2>1. query = NotAsked /\ query.pc = "idle" /\ IInv
    BY InitOK DEF QueryInit, NotAsked
  <2>2. QueryTypeOK
    <3>1. EmptyScope \in Scope
      BY DEF EmptyScope, Scope
    <3>2. NotAsked \in QueryRecord
      BY <3>1 DEF QueryRecord, NotAsked
    <3>3. failed = {}
      BY DEF QueryInit
    <3> QED
      BY <2>1, <3>2, <3>3 DEF QueryTypeOK
  <2> QED
    BY <2>1, <2>2 DEF QueryInv, ReadsWereTrue, AnswerWasTrue
<1>2. QueryInv /\ [QueryNext]_<<vars, queryVars>> => QueryInv'
  <2> SUFFICES ASSUME QueryInv, [QueryNext]_<<vars, queryVars>>
               PROVE  QueryInv'
    OBVIOUS
  <2>1. [Next]_vars
    BY DEF QueryNext
  <2>2. IInv'
    BY <2>1, IInvStep DEF QueryInv
  <2>3. QueryTypeOK' /\ ReadsWereTrue' /\ AnswerWasTrue'
    <3>1. CASE Watch
      BY <2>1, <3>1, WatchStep
    <3>2. CASE GetInstance /\ UNCHANGED vars
      BY <3>2, GetInstanceStep
    <3>3. CASE Advance /\ UNCHANGED vars
      BY <3>3, ReadStep
    <3>4. CASE ListFails /\ UNCHANGED vars
      BY <3>4, ListFailsStep
    <3>5. CASE UNCHANGED <<vars, queryVars>>
      <4>1. query' = query /\ seen' = seen /\ failed' = failed /\ instance' = instance
        BY <3>5 DEF queryVars, vars
      <4>2. \A j : (Snapshot(j)' = Snapshot(j)) /\ (Ended(j)' <=> Ended(j))
        BY <3>5 DEF vars, Snapshot, ElementsOf, Ended
      <4> QED
        BY <4>1, <4>2 DEF QueryInv, QueryTypeOK, ReadsWereTrue, AnswerWasTrue, ElementsWereTrue
    <3> QED
      BY <3>1, <3>2, <3>3, <3>4, <3>5 DEF QueryNext
  <2> QED
    BY <2>2, <2>3 DEF QueryInv
<1>3. QueryInv => AnswerWasTrue
  BY DEF QueryInv
<1> QED
  BY <1>1, <1>2, <1>3, PTL DEF QuerySpec
=============================================================================
