-------------------------- MODULE DefinitionsProofs --------------------------
(***************************************************************************)
(* Machine-checked proofs about deployment and activation, for any number  *)
(* of processes, handlers and definitions: IInv is inductive, and the      *)
(* statements implement the registry.                                      *)
(*                                                                         *)
(* Only Commit touches the committed table.  It publishes the view of the  *)
(* holder of the write lock, which by IInv is the committed table with one *)
(* deployment or one activation applied to it.  The steps of the registry  *)
(* keep the versions of a process in the order of their keys; together     *)
(* with versions that leave no gap, this numbers the deployments.          *)
(***************************************************************************)
EXTENDS Definitions, FiniteSetTheorems, TLAPS

-----------------------------------------------------------------------------
(* The statements on a table.                                              *)

(* The UPDATEs write rows of the table and keep every process and version. *)
LEMMA UpdatedTables ==
  ASSUME NEW defs \in [DefinitionKey -> DefinitionRow]
  PROVE  /\ \A p :
              /\ Deactivated(defs, p) \in [DefinitionKey -> DefinitionRow]
              /\ \A j \in DefinitionKey :
                   /\ Deactivated(defs, p)[j].process = defs[j].process
                   /\ Deactivated(defs, p)[j].version = defs[j].version
                   /\ Deactivated(defs, p)[j].active = (defs[j].active /\ defs[j].process # p)
         /\ \A k \in DefinitionKey :
              /\ SetActive(defs, k) \in [DefinitionKey -> DefinitionRow]
              /\ \A j \in DefinitionKey :
                   /\ SetActive(defs, k)[j].process = defs[j].process
                   /\ SetActive(defs, k)[j].version = defs[j].version
                   /\ SetActive(defs, k)[j].active = (defs[j].active \/ j = k)
<1>1. ASSUME NEW p
      PROVE  /\ Deactivated(defs, p) \in [DefinitionKey -> DefinitionRow]
             /\ \A j \in DefinitionKey :
                  /\ Deactivated(defs, p)[j].process = defs[j].process
                  /\ Deactivated(defs, p)[j].version = defs[j].version
                  /\ Deactivated(defs, p)[j].active = (defs[j].active /\ defs[j].process # p)
  <2>1. \A j \in DefinitionKey :
          LET off == IF defs[j].process = p THEN [defs[j] EXCEPT !.active = FALSE] ELSE defs[j]
          IN /\ off \in DefinitionRow
             /\ off.process = defs[j].process
             /\ off.version = defs[j].version
             /\ off.active = (defs[j].active /\ defs[j].process # p)
    BY DEF DefinitionRow
  <2> QED
    BY <2>1 DEF Deactivated
<1>2. ASSUME NEW k \in DefinitionKey
      PROVE  /\ SetActive(defs, k) \in [DefinitionKey -> DefinitionRow]
             /\ \A j \in DefinitionKey :
                  /\ SetActive(defs, k)[j].process = defs[j].process
                  /\ SetActive(defs, k)[j].version = defs[j].version
                  /\ SetActive(defs, k)[j].active = (defs[j].active \/ j = k)
  <2>1. \A j \in DefinitionKey :
          LET on == [defs[j] EXCEPT !.active = TRUE]
          IN /\ on \in DefinitionRow
             /\ on.process = defs[j].process
             /\ on.version = defs[j].version
             /\ on.active = TRUE
    BY DEF DefinitionRow
  <2>2. \A j \in DefinitionKey :
          SetActive(defs, k)[j] = IF j = k THEN [defs[j] EXCEPT !.active = TRUE] ELSE defs[j]
    BY DEF SetActive
  <2>3. \A j \in DefinitionKey : defs[j].active \in BOOLEAN
    BY DEF DefinitionRow
  <2>4. SetActive(defs, k) \in [DefinitionKey -> DefinitionRow]
    BY <2>1 DEF SetActive
  <2> QED
    BY <2>1, <2>2, <2>3, <2>4
<1> QED
  BY <1>1, <1>2

(* A gapless process with n versions has n for its largest one.            *)
LEMMA MaxVersion ==
  ASSUME NEW defs, NEW p, NEW n \in Nat, NEW max \in Nat,
         Versions(defs, p) = 1..n, IsMaxVersion(defs, p, max)
  PROVE  max = n
<1>1. max = 0 \/ max \in 1..n
  BY DEF IsMaxVersion
<1>2. n = 0 \/ n \in 1..n
  OBVIOUS
<1>3. n \in 1..n => n <= max
  BY DEF IsMaxVersion
<1> QED
  BY <1>1, <1>2, <1>3

(* The rows of a process fit below the first key that is free, and so do   *)
(* its versions.                                                           *)
LEMMA NextVersionFits ==
  ASSUME TypeOK, TableOK, NEW p \in Process, NEW max \in Nat, NEW k \in DefinitionKey,
         IsMaxVersion(definitions, p, max), IsNextDefinition(definitions, k)
  PROVE  max + 1 \in 1..k
<1>1. k \in Nat \ {0} /\ MaxDefinitions \in Nat
  BY RegistryAssumption DEF DefinitionKey
<1>2. CASE max = 0
  BY <1>1, <1>2
<1>3. CASE max # 0
  <2>1. PICK j \in DefinitionKey : definitions[j].process = p /\ definitions[j].version = max
    BY <1>3 DEF IsMaxVersion, Versions, RowsOf
  <2>2. definitions[j].process # NoProcess
    BY <2>1, RegistryAssumption
  <2>3. max \in 1..j
    BY <2>1, <2>2 DEF TableOK
  <2>4. ~(k <= j)
    <3>1. k # j
      BY <2>2 DEF IsNextDefinition
    <3>2. ~(k < j)
      BY <2>2 DEF TableOK, IsNextDefinition
    <3> QED
      BY <3>1, <3>2, <1>1, RegistryAssumption DEF DefinitionKey
  <2> QED
    BY <1>1, <2>3, <2>4, RegistryAssumption DEF DefinitionKey
<1> QED
  BY <1>2, <1>3

-----------------------------------------------------------------------------
(* What a commit publishes.                                                *)

(* A committed deployment keeps the table in order and is a deployment of  *)
(* the registry.                                                           *)
LEMMA DeploymentPublished ==
  ASSUME TypeOK, TableOK, OneActive,
         NEW p \in Process, NEW auto \in BOOLEAN, NEW max \in Nat, NEW k \in DefinitionKey,
         IsMaxVersion(definitions, p, max), IsNextDefinition(definitions, k),
         definitions' = [(IF auto THEN Deactivated(definitions, p) ELSE definitions)
                           EXCEPT ![k] = [process |-> p, version |-> max + 1, active |-> auto]]
  PROVE  TableOK' /\ OneActive' /\ Registry!Deploy(p, auto)
<1> DEFINE new == [process |-> p, version |-> max + 1, active |-> auto]
<1>1. /\ definitions \in [DefinitionKey -> DefinitionRow]
      /\ p # NoProcess /\ definitions[k].process = NoProcess
      /\ k \in Nat \ {0} /\ MaxDefinitions \in Nat
  BY RegistryAssumption DEF TypeOK, IsNextDefinition, DefinitionKey
<1>2. max + 1 \in 1..k
  BY NextVersionFits
<1>3. \A j \in DefinitionKey :
        definitions'[j] = IF j = k THEN new
                          ELSE IF auto THEN Deactivated(definitions, p)[j] ELSE definitions[j]
  BY <1>1, UpdatedTables
<1>4. /\ definitions'[k].process = p
      /\ definitions'[k].version = max + 1
      /\ definitions'[k].active = auto
  BY <1>3
<1>5. \A j \in DefinitionKey \ {k} :
        /\ definitions'[j].process = definitions[j].process
        /\ definitions'[j].version = definitions[j].version
        /\ definitions'[j].active =
             (definitions[j].active /\ (auto => definitions[j].process # p))
  <2>1. \A j \in DefinitionKey : definitions[j].active \in BOOLEAN
    BY <1>1 DEF DefinitionRow
  <2>2. CASE auto
    BY <1>1, <1>3, <2>2, UpdatedTables
  <2>3. CASE ~auto
    BY <1>3, <2>1, <2>3
  <2> QED
    BY <2>2, <2>3
<1>6. OneActive'
  <2> SUFFICES ASSUME NEW i \in DefinitionKey, NEW j \in DefinitionKey,
                      definitions'[i].active, definitions'[j].active,
                      definitions'[i].process = definitions'[j].process
               PROVE  i = j
    BY DEF OneActive
  <2>1. \A l \in DefinitionKey \ {k} :
          definitions'[l].active => ~(auto /\ definitions'[l].process = p)
    BY <1>5
  <2>2. i = k <=> j = k
    BY <1>4, <2>1
  <2>3. CASE i # k /\ j # k
    BY <2>3, <1>5 DEF OneActive
  <2> QED
    BY <2>2, <2>3
<1>7. RowsOf(definitions, p)' = RowsOf(definitions, p) \cup {k}
  BY <1>1, <1>4, <1>5 DEF RowsOf
<1>8. Versions(definitions, p)' = Versions(definitions, p) \cup {max + 1}
  <2>1. k \notin RowsOf(definitions, p)
    BY <1>1 DEF RowsOf
  <2>2. \A j \in RowsOf(definitions, p) : definitions'[j].version = definitions[j].version
    BY <2>1, <1>5 DEF RowsOf
  <2> QED
    BY <1>4, <1>7, <2>2 DEF Versions
<1>9. \A q \in Process \ {p} : Versions(definitions, q)' = Versions(definitions, q)
  <2> SUFFICES ASSUME NEW q \in Process \ {p}
               PROVE  Versions(definitions, q)' = Versions(definitions, q)
    OBVIOUS
  <2>1. q # NoProcess
    BY RegistryAssumption
  <2>2. RowsOf(definitions, q)' = RowsOf(definitions, q)
    BY <1>1, <1>4, <1>5, <2>1 DEF RowsOf
  <2>3. \A j \in RowsOf(definitions, q) : definitions'[j].version = definitions[j].version
    BY <1>1, <1>5, <2>1 DEF RowsOf
  <2> QED
    BY <2>2, <2>3 DEF Versions
<1>10. Versions(definitions, p) = 1..max
  <2>1. PICK n \in 0..MaxDefinitions : Versions(definitions, p) = 1..n
    BY DEF TableOK
  <2>2. n \in Nat
    BY <1>1
  <2> QED
    BY <2>1, <2>2, MaxVersion
<1>11. TableOK'
  <2>1. ASSUME NEW j \in DefinitionKey, definitions'[j].process = NoProcess
        PROVE  definitions'[j] = NoDefinition
    <3>1. j # k /\ definitions[j] = NoDefinition
      BY <2>1, <1>1, <1>4, <1>5 DEF TableOK
    <3>2. definitions[j].process # p
      BY <2>1, <3>1, <1>1, <1>5
    <3>3. Deactivated(definitions, p)[j] = definitions[j]
      BY <3>2 DEF Deactivated
    <3> QED
      BY <1>3, <3>1, <3>3
  <2>2. ASSUME NEW j \in DefinitionKey, definitions'[j].process # NoProcess
        PROVE  definitions'[j].version \in 1..j
    BY <2>2, <1>2, <1>4, <1>5 DEF TableOK
  <2>3. ASSUME NEW i \in DefinitionKey, NEW j \in DefinitionKey,
               i < j, definitions'[j].process # NoProcess
        PROVE  definitions'[i].process # NoProcess
    <3>1. CASE i = k
      BY <3>1, <1>1, <1>4
    <3>2. CASE i # k
      BY <2>3, <3>2, <1>5 DEF TableOK, IsNextDefinition
    <3> QED
      BY <3>1, <3>2
  <2>4. ASSUME NEW q \in Process
        PROVE  \E n \in 0..MaxDefinitions : Versions(definitions, q)' = 1..n
    <3>1. CASE q = p
      <4>1. Versions(definitions, q)' = 1..(max + 1)
        <5>1. 1..max \cup {max + 1} = 1..(max + 1)
          OBVIOUS
        <5> QED
          BY <3>1, <1>8, <1>10, <5>1
      <4>2. max + 1 \in 0..MaxDefinitions
        BY <1>1, <1>2 DEF DefinitionKey
      <4> QED
        BY <4>1, <4>2
    <3>2. CASE q # p
      BY <3>2, <1>9 DEF TableOK
    <3> QED
      BY <3>1, <3>2
  <2> QED
    BY <2>1, <2>2, <2>3, <2>4 DEF TableOK
<1>12. Registry!Deploy(p, auto)
  <2> DEFINE inserted == [definitions EXCEPT ![k] = [process |-> p, version |-> max + 1,
                                                     active |-> FALSE]]
  <2>1. Registry!IsNextDefinition(definitions, k)
    BY DEF IsNextDefinition, Registry!IsNextDefinition, DefinitionKey, Registry!DefinitionKey
  <2>2. max + 1 \in 1..MaxDefinitions /\ (max + 1) - 1 = max
    BY <1>1, <1>2 DEF DefinitionKey
  <2>3. Registry!Versions(definitions, p) = 1..((max + 1) - 1)
    BY <1>10, <2>2 DEF Versions, RowsOf, Registry!Versions, Registry!RowsOf, DefinitionKey,
                       Registry!DefinitionKey
  <2>4. CASE ~auto
    BY <2>1, <2>2, <2>3, <2>4 DEF Registry!Deploy, DefinitionKey, Registry!DefinitionKey
  <2>5. CASE auto
    <3>1. \A j \in DefinitionKey : inserted[j] = IF j = k THEN [new EXCEPT !.active = FALSE]
                                                 ELSE definitions[j]
      BY <1>1
    <3>2. inserted[k].process = p
      BY <3>1
    <3>3. \A j \in DefinitionKey : Registry!Only(inserted, k)[j] = definitions'[j]
      <4>1. SUFFICES ASSUME NEW j \in DefinitionKey
                     PROVE  Registry!Only(inserted, k)[j] = definitions'[j]
        OBVIOUS
      <4>2. Registry!Only(inserted, k)[j] =
              IF inserted[j].process = p THEN [inserted[j] EXCEPT !.active = (j = k)]
              ELSE inserted[j]
        BY <3>2 DEF Registry!Only, DefinitionKey, Registry!DefinitionKey
      <4>3. CASE j = k
        <5>1. inserted[j] = [process |-> p, version |-> max + 1, active |-> FALSE]
          BY <4>3, <3>1
        <5>2. (j = k) = auto
          BY <4>3, <2>5
        <5>3. [inserted[j] EXCEPT !.active = auto] = new
          BY <5>1
        <5>4. inserted[j].process = p
          BY <5>1
        <5>5. Registry!Only(inserted, k)[j] = new
          BY <4>2, <5>2, <5>3, <5>4
        <5> QED
          BY <4>3, <5>5, <1>3
      <4>4. CASE j # k
        BY <4>2, <4>4, <3>1, <1>3, <2>5 DEF Deactivated
      <4> QED
        BY <4>3, <4>4
    <3>4. /\ Registry!Only(inserted, k) = [j \in DefinitionKey |-> Registry!Only(inserted, k)[j]]
          /\ definitions' = [j \in DefinitionKey |-> definitions'[j]]
      BY <1>1, UpdatedTables DEF Registry!Only, DefinitionKey, Registry!DefinitionKey
    <3>5. definitions' = Registry!Only(inserted, k)
      BY <3>3, <3>4
    <3> QED
      BY <3>5, <2>1, <2>2, <2>3, <2>5 DEF Registry!Deploy, DefinitionKey, Registry!DefinitionKey
  <2> QED
    BY <2>4, <2>5
<1> QED
  BY <1>6, <1>11, <1>12

(* So does a committed activation.                                         *)
LEMMA ActivationPublished ==
  ASSUME TypeOK, TableOK, OneActive, NEW k \in DefinitionKey,
         definitions[k].process \in Process,
         definitions' = SetActive(Deactivated(definitions, definitions[k].process), k)
  PROVE  TableOK' /\ OneActive' /\ Registry!Activate(k)
<1> DEFINE p == definitions[k].process
           off == Deactivated(definitions, p)
<1>1. definitions \in [DefinitionKey -> DefinitionRow] /\ p # NoProcess
  BY RegistryAssumption DEF TypeOK
<1>2. off \in [DefinitionKey -> DefinitionRow] /\ definitions' \in [DefinitionKey -> DefinitionRow]
  <2>1. off \in [DefinitionKey -> DefinitionRow]
    BY <1>1, UpdatedTables
  <2>2. definitions' = SetActive(off, k)
    OBVIOUS
  <2> HIDE DEF off
  <2> QED
    BY <2>1, <2>2, UpdatedTables
<1>3. \A j \in DefinitionKey :
        /\ definitions'[j].process = definitions[j].process
        /\ definitions'[j].version = definitions[j].version
        /\ definitions'[j].active = ((definitions[j].active /\ definitions[j].process # p) \/ j = k)
  <2> HIDE DEF p
  <2>1. \A j \in DefinitionKey :
          /\ off[j].process = definitions[j].process
          /\ off[j].version = definitions[j].version
          /\ off[j].active = (definitions[j].active /\ definitions[j].process # p)
    BY <1>1, UpdatedTables
  <2>2. definitions' = SetActive(off, k)
    BY DEF p
  <2> HIDE DEF off
  <2>3. \A j \in DefinitionKey :
          /\ definitions'[j].process = off[j].process
          /\ definitions'[j].version = off[j].version
          /\ definitions'[j].active = (off[j].active \/ j = k)
    BY <1>2, <2>2, UpdatedTables
  <2> QED
    BY <2>1, <2>3
<1>4. OneActive'
  <2> SUFFICES ASSUME NEW i \in DefinitionKey, NEW j \in DefinitionKey,
                      definitions'[i].active, definitions'[j].active,
                      definitions'[i].process = definitions'[j].process
               PROVE  i = j
    BY DEF OneActive
  <2>1. definitions[i].process = p <=> definitions[j].process = p
    BY <1>3
  <2>2. CASE definitions[i].process = p
    BY <1>3, <2>1, <2>2
  <2>3. CASE definitions[i].process # p
    BY <1>3, <2>1, <2>3 DEF OneActive
  <2> QED
    BY <2>2, <2>3
<1>5. \A q \in Process : Versions(definitions, q)' = Versions(definitions, q)
  <2> SUFFICES ASSUME NEW q \in Process
               PROVE  Versions(definitions, q)' = Versions(definitions, q)
    OBVIOUS
  <2>1. RowsOf(definitions, q)' = RowsOf(definitions, q)
    BY <1>3 DEF RowsOf
  <2>2. \A j \in RowsOf(definitions, q) : definitions'[j].version = definitions[j].version
    BY <1>3 DEF RowsOf
  <2> QED
    BY <2>1, <2>2 DEF Versions
<1>6. TableOK'
  <2>1. ASSUME NEW j \in DefinitionKey, definitions'[j].process = NoProcess
        PROVE  definitions'[j] = NoDefinition
    <3>1. definitions[j] = NoDefinition /\ j # k
      BY <2>1, <1>1, <1>3 DEF TableOK
    <3>2. definitions[j].process # p
      BY <1>1, <3>1 DEF NoDefinition
    <3>3. definitions'[j] = off[j]
      BY <1>2, <3>1 DEF SetActive
    <3>4. off[j] = definitions[j]
      BY <3>2 DEF Deactivated
    <3> QED
      BY <3>1, <3>3, <3>4
  <2>2. ASSUME NEW j \in DefinitionKey, definitions'[j].process # NoProcess
        PROVE  definitions'[j].version \in 1..j
    BY <2>2, <1>3 DEF TableOK
  <2>3. ASSUME NEW i \in DefinitionKey, NEW j \in DefinitionKey,
               i < j, definitions'[j].process # NoProcess
        PROVE  definitions'[i].process # NoProcess
    BY <2>3, <1>3 DEF TableOK
  <2>4. ASSUME NEW q \in Process
        PROVE  \E n \in 0..MaxDefinitions : Versions(definitions, q)' = 1..n
    BY <1>5 DEF TableOK
  <2> QED
    BY <2>1, <2>2, <2>3, <2>4 DEF TableOK
<1>7. definitions' = Registry!Only(definitions, k)
  <2>1. \A j \in DefinitionKey : definitions'[j] = Registry!Only(definitions, k)[j]
    <3> SUFFICES ASSUME NEW j \in DefinitionKey
                 PROVE  definitions'[j] = Registry!Only(definitions, k)[j]
      OBVIOUS
    <3>1. Registry!Only(definitions, k)[j] =
            IF definitions[j].process = p THEN [definitions[j] EXCEPT !.active = (j = k)]
            ELSE definitions[j]
      BY DEF Registry!Only, DefinitionKey, Registry!DefinitionKey
    <3>2. definitions'[j] = IF j = k THEN [off[j] EXCEPT !.active = TRUE] ELSE off[j]
      BY <1>2 DEF SetActive
    <3>3. off[j] = IF definitions[j].process = p THEN [definitions[j] EXCEPT !.active = FALSE]
                   ELSE definitions[j]
      BY DEF Deactivated
    <3> HIDE DEF off
    <3>4. CASE j = k
      <4>1. Registry!Only(definitions, k)[j] = [definitions[j] EXCEPT !.active = TRUE]
        BY <3>1, <3>4
      <4>2. definitions'[j] = [[definitions[j] EXCEPT !.active = FALSE] EXCEPT !.active = TRUE]
        BY <3>2, <3>3, <3>4
      <4>3. definitions[j] \in DefinitionRow
        BY <1>1
      <4> QED
        BY <4>1, <4>2, <4>3 DEF DefinitionRow
    <3>5. CASE j # k
      BY <3>1, <3>2, <3>3, <3>5
    <3> QED
      BY <3>4, <3>5
  <2>2. /\ definitions' = [j \in DefinitionKey |-> definitions'[j]]
        /\ Registry!Only(definitions, k) =
             [j \in DefinitionKey |-> Registry!Only(definitions, k)[j]]
    BY <1>2 DEF Registry!Only, DefinitionKey, Registry!DefinitionKey
  <2> QED
    BY <2>1, <2>2
<1> QED
  BY <1>1, <1>4, <1>6, <1>7 DEF Registry!Activate

-----------------------------------------------------------------------------
(* The inductive invariant.                                                *)

LEMMA NoTxType == NoTx \in TxRecord
<1>1. NoDefinition \in DefinitionRow
  BY RegistryAssumption DEF NoDefinition, DefinitionRow
<1> QED
  BY <1>1 DEF NoTx, TxRecord, EmptyTable

LEMMA InitIInv == Init => IInv
<1> SUFFICES ASSUME Init
             PROVE  IInv
  OBVIOUS
<1>1. TypeOK
  <2>1. NoDefinition \in DefinitionRow
    BY RegistryAssumption DEF NoDefinition, DefinitionRow
  <2> QED
    BY <2>1, NoTxType DEF Init, TypeOK, EmptyTable
<1>2. \A k \in DefinitionKey : definitions[k] = NoDefinition
  BY DEF Init, EmptyTable
<1>3. \A p \in Process : Versions(definitions, p) = 1..0
  <2>1. \A p \in Process : RowsOf(definitions, p) = {}
    BY <1>2, RegistryAssumption DEF RowsOf, NoDefinition
  <2>2. 1..0 = {}
    OBVIOUS
  <2> QED
    BY <2>1, <2>2 DEF Versions
<1>4. TableOK
  <2>1. \A p \in Process : \E n \in 0..MaxDefinitions : Versions(definitions, p) = 1..n
    <3>1. 0 \in 0..MaxDefinitions
      BY RegistryAssumption
    <3> QED
      BY <1>3, <3>1
  <2>2. \A k \in DefinitionKey : definitions[k].process = NoProcess
    BY <1>2 DEF NoDefinition
  <2> QED
    BY <1>2, <2>1, <2>2 DEF TableOK
<1>5. OneActive
  BY <1>2 DEF OneActive, NoDefinition
<1>6. ASSUME NEW r \in Request
      PROVE  TxOK(r)
  BY DefinitionsAssumption DEF Init, NoTx, TxOK, Writing
<1> QED
  BY <1>1, <1>4, <1>5, <1>6 DEF IInv

(* Steps of others leave a request alone as long as they do not commit.    *)
LEMMA OthersKeepTxOK ==
  ASSUME NEW r \in Request, TxOK(r), tx'[r] = tx[r], UNCHANGED definitions,
         writer' = r <=> writer = r
  PROVE  TxOK(r)'
<1>1. ViewOK(tx[r])' <=> ViewOK(tx[r])
  BY DEF ViewOK, Deploying, Activating
<1> QED
  BY <1>1 DEF TxOK

(* A step of one request that leaves the committed table alone leaves the  *)
(* other requests alone too, if it takes the write lock from none of them. *)
LEMMA OwnStep ==
  ASSUME IInv, NEW r \in Request, NEW t \in TxRecord,
         tx' = [tx EXCEPT ![r] = t], UNCHANGED definitions,
         writer' \in Request \cup {NoRequest},
         \A s \in Request \ {r} : writer' = s <=> writer = s,
         TxOK(r)'
  PROVE  IInv'
<1>1. TypeOK' /\ TableOK' /\ OneActive'
  BY DEF IInv, TypeOK, TableOK, OneActive, Versions, RowsOf
<1>2. ASSUME NEW s \in Request
      PROVE  TxOK(s)'
  <2>1. CASE s = r
    BY <2>1
  <2>2. CASE s # r
    <3>1. tx'[s] = tx[s] /\ UNCHANGED definitions
      BY <2>2 DEF IInv, TypeOK
    <3>2. TxOK(s)
      BY DEF IInv
    <3> QED
      BY <2>2, <3>1, <3>2, OthersKeepTxOK
  <2> QED
    BY <2>1, <2>2
<1> QED
  BY <1>1, <1>2 DEF IInv

(* A write statement that is granted the lock and leaves a view the        *)
(* invariant allows.                                                       *)
LEMMA WriteKeepsIInv ==
  ASSUME IInv, NEW r \in Request, NEW pc \in Writing,
         NEW view \in [DefinitionKey -> DefinitionRow],
         tx[r].pc \in Writing, Write(r, pc, view),
         ViewOK([tx[r] EXCEPT !.pc = pc, !.view = view])
  PROVE  IInv'
<1> DEFINE t == [tx[r] EXCEPT !.pc = pc, !.view = view]
<1>1. tx[r] \in TxRecord
  BY DEF IInv, TypeOK
<1>2. /\ t \in TxRecord
      /\ t.pc = pc
      /\ t.stale = tx[r].stale
  BY <1>1 DEF TxRecord
<1>3. tx' = [tx EXCEPT ![r] = t]
  BY DEF Write, IInv, TypeOK
<1>4. tx'[r] = t /\ writer' = r /\ UNCHANGED definitions
  BY <1>3 DEF Write, IInv, TypeOK
<1>5. ~t.stale
  BY <1>2 DEF Write, MayWrite, IInv, TxOK
<1>6. ViewOK(tx[r])'
  BY <1>4 DEF ViewOK, Deploying, Activating
<1>7. TxOK(r)'
  <2> HIDE DEF t
  <2> QED
    BY <1>2, <1>4, <1>5, <1>6 DEF TxOK, Writing
<1>8. \A s \in Request \ {r} : writer' = s <=> writer = s
  BY <1>4, DefinitionsAssumption DEF Write, MayWrite
<1> QED
  <2> HIDE DEF t
  <2> QED
    BY <1>2, <1>3, <1>4, <1>7, <1>8, OwnStep

(* Rolling back any set of transactions.                                   *)
LEMMA RollbackKeepsIInv ==
  ASSUME IInv, NEW S \in SUBSET Request, Rollback(S)
  PROVE  IInv'
<1>1. TypeOK' /\ TableOK' /\ OneActive'
  BY NoTxType DEF Rollback, IInv, TypeOK, TableOK, OneActive, Versions, RowsOf
<1>2. ASSUME NEW r \in Request
      PROVE  TxOK(r)'
  <2>1. CASE r \in S
    <3>1. tx'[r] = NoTx /\ writer' # r
      BY <2>1, DefinitionsAssumption DEF Rollback
    <3> QED
      BY <3>1 DEF TxOK, NoTx, Writing
  <2>2. CASE r \notin S
    <3>1. tx'[r] = tx[r] /\ UNCHANGED definitions /\ (writer' = r <=> writer = r)
      BY <2>2, DefinitionsAssumption DEF Rollback
    <3>2. TxOK(r)
      BY DEF IInv
    <3> QED
      BY <3>1, <3>2, OthersKeepTxOK
  <2> QED
    BY <2>1, <2>2
<1> QED
  BY <1>1, <1>2 DEF IInv

(* The handlers up to the snapshot.                                        *)
LEMMA ReadsKeepIInv ==
  ASSUME IInv, NEW r \in Request,
         Deploy(r) \/ ReadMaxVersion(r) \/ Activate(r) \/ LookupProcess(r)
  PROVE  IInv'
<1>1. /\ tx[r] \in TxRecord
      /\ tx \in [Request -> TxRecord]
      /\ definitions \in [DefinitionKey -> DefinitionRow]
      /\ writer \in Request \cup {NoRequest}
      /\ TxOK(r)
  BY DEF IInv, TypeOK
<1>2. tx[r].pc \notin Writing /\ writer # r /\ UNCHANGED <<definitions, writer>>
  BY <1>1 DEF Deploy, ReadMaxVersion, Activate, LookupProcess, TxOK, Writing
<1>3. ASSUME NEW t \in TxRecord, tx' = [tx EXCEPT ![r] = t],
             t.pc = "read_max" => t.process \in Process /\ t.key = 0,
             t.pc = "lookup" => t.key \in DefinitionKey,
             t.pc \in Writing => t.pc \notin {"set_active", "commit"} /\ ViewOK(t)
      PROVE  IInv'
  <2>1. tx'[r] = t
    BY <1>1, <1>3
  <2>2. t.pc \in Writing => ViewOK(tx[r])'
    BY <1>2, <1>3, <2>1 DEF ViewOK, Deploying, Activating
  <2>3. TxOK(r)'
    BY <1>2, <1>3, <2>1, <2>2 DEF TxOK, Writing
  <2> QED
    BY <1>1, <1>2, <1>3, <2>3, OwnStep
<1>4. CASE Deploy(r)
  <2>1. PICK p \in Process, auto \in BOOLEAN :
          tx' = [tx EXCEPT ![r] = [NoTx EXCEPT !.pc = "read_max", !.process = p, !.auto = auto]]
    BY <1>4 DEF Deploy
  <2> DEFINE t == [NoTx EXCEPT !.pc = "read_max", !.process = p, !.auto = auto]
  <2>2. t \in TxRecord /\ t.pc = "read_max" /\ t.process = p /\ t.key = 0
    BY NoTxType DEF TxRecord, NoTx
  <2> QED
    <3> HIDE DEF t
    <3> QED
      BY <1>3, <2>1, <2>2 DEF t, Writing
<1>5. CASE Activate(r)
  <2>1. PICK k \in DefinitionKey :
          tx' = [tx EXCEPT ![r] = [NoTx EXCEPT !.pc = "lookup", !.key = k]]
    BY <1>5 DEF Activate
  <2> DEFINE t == [NoTx EXCEPT !.pc = "lookup", !.key = k]
  <2>2. k \in Nat
    BY RegistryAssumption DEF DefinitionKey
  <2>3. t \in TxRecord /\ t.pc = "lookup" /\ t.key = k
    BY <2>2, NoTxType DEF TxRecord, NoTx
  <2> QED
    <3> HIDE DEF t
    <3> QED
      BY <1>3, <2>1, <2>3 DEF t, Writing
<1>6. CASE ReadMaxVersion(r)
  <2> DEFINE pc == IF tx[r].auto THEN "deactivate" ELSE "insert"
  <2>1. PICK max \in 0..MaxDefinitions :
          /\ IsMaxVersion(definitions, tx[r].process, max)
          /\ tx' = [tx EXCEPT ![r].pc = pc, ![r].version = max + 1, ![r].view = definitions]
    BY <1>6 DEF ReadMaxVersion
  <2>2. tx[r].process \in Process /\ tx[r].key = 0
    BY <1>1, <1>6 DEF ReadMaxVersion, TxOK
  <2> DEFINE t == [tx[r] EXCEPT !.pc = pc, !.version = max + 1, !.view = definitions]
  <2>3. max \in Nat /\ max + 1 \in Nat \ {0} /\ (max + 1) - 1 = max
    BY RegistryAssumption
  <2>4. /\ t \in TxRecord
        /\ t.pc = pc /\ t.version = max + 1 /\ t.view = definitions
        /\ t.process = tx[r].process /\ t.auto = tx[r].auto /\ t.key = 0
    BY <1>1, <2>2, <2>3 DEF TxRecord, Writing
  <2>5. tx' = [tx EXCEPT ![r] = t]
    BY <1>1, <2>1
  <2> HIDE DEF t
  <2>6. Deploying(t)
    BY <2>1, <2>3, <2>4 DEF Deploying
  <2>7. ViewOK(t)
    BY <2>2, <2>4, <2>6 DEF ViewOK
  <2> QED
    BY <1>3, <2>4, <2>5, <2>7 DEF Writing
<1>7. CASE LookupProcess(r)
  <2> DEFINE p == definitions[tx[r].key].process
  <2>1. tx[r].key \in DefinitionKey /\ tx[r].key # 0
    BY <1>1, <1>7 DEF LookupProcess, TxOK, DefinitionKey
  <2>2. p \in Process \cup {NoProcess}
    BY <1>1, <2>1 DEF DefinitionRow
  <2>3. CASE p = NoProcess
    <3>1. tx' = [tx EXCEPT ![r] = NoTx]
      BY <1>7, <2>3 DEF LookupProcess
    <3> QED
      BY <1>3, <3>1, NoTxType DEF NoTx, Writing
  <2>4. CASE p # NoProcess
    <3> DEFINE t == [tx[r] EXCEPT !.pc = "deactivate", !.process = p, !.view = definitions]
    <3>1. tx' = [tx EXCEPT ![r] = t]
      BY <1>1, <1>7, <2>4 DEF LookupProcess
    <3>2. /\ t \in TxRecord
          /\ t.pc = "deactivate" /\ t.process = p /\ t.view = definitions /\ t.key = tx[r].key
      BY <1>1, <2>2, <2>4 DEF TxRecord, Writing
    <3> HIDE DEF t
    <3>3. Activating(t)
      BY <2>1, <3>2 DEF Activating
    <3>4. ViewOK(t)
      BY <2>1, <2>2, <2>4, <3>2, <3>3 DEF ViewOK
    <3> QED
      BY <1>3, <3>1, <3>2, <3>4 DEF Writing
  <2> QED
    BY <2>3, <2>4
<1> QED
  BY <1>4, <1>5, <1>6, <1>7

(* A transaction that may write has the latest snapshot.                   *)
LEMMA LatestView ==
  ASSUME IInv, NEW r \in Request, tx[r].pc \in Writing, MayWrite(r)
  PROVE  ViewOK(tx[r])
BY DEF IInv, TxOK, MayWrite

(* The write statements of both transactions.                              *)
LEMMA WritesKeepIInv ==
  ASSUME IInv, NEW r \in Request, Deactivate(r) \/ Insert(r) \/ SetActiveVersion(r)
  PROVE  IInv'
<1>1. /\ tx[r] \in TxRecord
      /\ definitions \in [DefinitionKey -> DefinitionRow]
      /\ TxOK(r)
  BY DEF IInv, TypeOK
<1>2. tx[r].pc \in Writing /\ MayWrite(r)
  BY DEF Deactivate, Insert, SetActiveVersion, Write, Writing
<1>3. ViewOK(tx[r])
  BY <1>2, LatestView
<1>4. Activating(tx[r]) => tx[r].key # 0
  BY RegistryAssumption DEF Activating, DefinitionKey
<1>5. Deploying(tx[r]) => tx[r].key = 0
  BY DEF Deploying
<1> DEFINE prepared == IF tx[r].auto \/ tx[r].key # 0
                       THEN Deactivated(definitions, tx[r].process) ELSE definitions
<1>6. prepared \in [DefinitionKey -> DefinitionRow]
  BY <1>1, UpdatedTables
<1>7. \A k \in DefinitionKey : prepared[k].process = definitions[k].process
  BY <1>1, UpdatedTables
<1>8. CASE Deactivate(r)
  <2> DEFINE pc == IF tx[r].key = 0 THEN "insert" ELSE "set_active"
             view == Deactivated(tx[r].view, tx[r].process)
             t == [tx[r] EXCEPT !.pc = pc, !.view = view]
  <2>1. tx[r].view = definitions /\ (tx[r].auto \/ tx[r].key # 0)
    BY <1>3, <1>8 DEF Deactivate, ViewOK
  <2>2. view = prepared
    BY <2>1
  <2>3. /\ t.pc = pc /\ t.view = view /\ t.key = tx[r].key
        /\ t.process = tx[r].process /\ t.auto = tx[r].auto /\ t.version = tx[r].version
    BY <1>1 DEF TxRecord
  <2>4. ViewOK(t)
    <3> HIDE DEF t, view
    <3>1. Deploying(t) <=> Deploying(tx[r])
      BY <2>3 DEF Deploying
    <3>2. Activating(t) <=> Activating(tx[r])
      BY <2>3 DEF Activating
    <3>3. t.process \in Process /\ (Deploying(t) \/ Activating(t))
      BY <1>3, <2>3, <3>1, <3>2 DEF ViewOK
    <3> QED
      BY <1>4, <1>5, <2>2, <2>3, <3>1, <3>2, <3>3 DEF ViewOK
  <2>5. pc \in Writing /\ view \in [DefinitionKey -> DefinitionRow]
    BY <1>6, <2>2 DEF Writing
  <2>6. Write(r, pc, view)
    BY <1>8 DEF Deactivate
  <2> QED
    <3> HIDE DEF view, pc
    <3> QED
      BY <1>2, <2>4, <2>5, <2>6, WriteKeepsIInv
<1>9. CASE SetActiveVersion(r)
  <2> DEFINE view == SetActive(tx[r].view, tx[r].key)
             t == [tx[r] EXCEPT !.pc = "commit", !.view = view]
  <2>1. /\ tx[r].view = prepared /\ Activating(tx[r])
        /\ tx[r].process \in Process /\ tx[r].key \in DefinitionKey
    BY <1>3, <1>9 DEF SetActiveVersion, ViewOK, Activating
  <2>2. view \in [DefinitionKey -> DefinitionRow]
    <3> HIDE DEF prepared
    <3> QED
      BY <1>6, <2>1, UpdatedTables
  <2>3. /\ t.pc = "commit" /\ t.view = view /\ t.key = tx[r].key
        /\ t.process = tx[r].process /\ t.auto = tx[r].auto
    BY <1>1 DEF TxRecord
  <2>4. ViewOK(t)
    <3>1. t.view = SetActive(IF t.auto \/ t.key # 0 THEN Deactivated(definitions, t.process)
                             ELSE definitions, t.key)
      BY <2>1, <2>3
    <3> HIDE DEF t, view
    <3>2. Activating(t)
      BY <2>1, <2>3 DEF Activating
    <3> QED
      BY <1>4, <2>1, <2>3, <3>1, <3>2 DEF ViewOK
  <2>5. Write(r, "commit", view) /\ "commit" \in Writing
    BY <1>9 DEF SetActiveVersion, Writing
  <2> QED
    <3> HIDE DEF view
    <3> QED
      BY <1>2, <2>2, <2>4, <2>5, WriteKeepsIInv
<1>10. CASE Insert(r)
  <2>1. /\ tx[r].view = prepared /\ Deploying(tx[r])
        /\ tx[r].process \in Process /\ tx[r].key = 0
    BY <1>3, <1>10 DEF Insert, ViewOK, Deploying
  <2> DEFINE row == [process |-> tx[r].process, version |-> tx[r].version,
                     active |-> tx[r].auto]
  <2>2. PICK k \in DefinitionKey :
          /\ IsNextDefinition(tx[r].view, k)
          /\ Write(r, "commit", [tx[r].view EXCEPT ![k] = row])
    BY <1>10 DEF Insert
  <2>3. IsNextDefinition(definitions, k)
    <3> HIDE DEF prepared
    <3> QED
      BY <1>7, <2>1, <2>2 DEF IsNextDefinition
  <2>4. row \in DefinitionRow
    <3>1. /\ tx[r].version \in Nat \ {0}
          /\ IsMaxVersion(definitions, tx[r].process, tx[r].version - 1)
      BY <2>1 DEF Deploying
    <3>2. tx[r].version - 1 \in Nat /\ (tx[r].version - 1) + 1 = tx[r].version
      BY <3>1
    <3>3. tx[r].version \in 1..k
      BY <2>1, <2>3, <3>1, <3>2, NextVersionFits DEF IInv
    <3>4. tx[r].version \in 0..MaxDefinitions
      BY <3>3, RegistryAssumption DEF DefinitionKey
    <3>5. tx[r].auto \in BOOLEAN
      BY <1>1 DEF TxRecord
    <3> QED
      BY <2>1, <3>4, <3>5 DEF DefinitionRow
  <2> DEFINE view == [tx[r].view EXCEPT ![k] = row]
             t == [tx[r] EXCEPT !.pc = "commit", !.view = view]
  <2>5. view \in [DefinitionKey -> DefinitionRow]
    <3> HIDE DEF prepared, row
    <3> QED
      BY <1>6, <2>1, <2>4
  <2>6. /\ t.pc = "commit" /\ t.view = view /\ t.key = tx[r].key
        /\ t.process = tx[r].process /\ t.auto = tx[r].auto /\ t.version = tx[r].version
    BY <1>1 DEF TxRecord
  <2>7. ViewOK(t)
    <3>1. t.view = [(IF t.auto \/ t.key # 0 THEN Deactivated(definitions, t.process)
                     ELSE definitions) EXCEPT ![k] = [process |-> t.process,
                                                      version |-> t.version,
                                                      active |-> t.auto]]
      BY <2>1, <2>6
    <3> HIDE DEF t, view, row
    <3>2. Deploying(t)
      BY <2>1, <2>6 DEF Deploying
    <3> QED
      BY <2>1, <2>3, <2>6, <3>1, <3>2 DEF ViewOK
  <2> QED
    <3> HIDE DEF view, row
    <3>1. Write(r, "commit", view) /\ "commit" \in Writing
      BY <2>2 DEF view, row, Writing
    <3> QED
      BY <1>2, <2>5, <2>7, <3>1, WriteKeepsIInv
<1> QED
  BY <1>8, <1>9, <1>10

(* A commit keeps the invariant and is a step of the registry.             *)
LEMMA CommitStep ==
  ASSUME IInv, NEW r \in Request, Commit(r)
  PROVE  IInv' /\ Registry!Next
<1>1. /\ TypeOK /\ TableOK /\ OneActive
      /\ tx \in [Request -> TxRecord]
      /\ definitions \in [DefinitionKey -> DefinitionRow]
      /\ tx[r] \in TxRecord /\ TxOK(r)
  BY DEF IInv, TypeOK
<1>2. tx[r].pc = "commit" /\ writer = r /\ ViewOK(tx[r]) /\ definitions' = tx[r].view
  BY <1>1 DEF Commit, TxOK, Writing
<1>3. TableOK' /\ OneActive' /\ Registry!Next
  <2>1. CASE tx[r].key = 0
    <3>1. Deploying(tx[r])
      BY <1>2, <2>1 DEF ViewOK, Activating, DefinitionKey
    <3> DEFINE p == tx[r].process
               auto == tx[r].auto
               max == tx[r].version - 1
    <3>2. /\ p \in Process /\ auto \in BOOLEAN
          /\ max \in Nat /\ max + 1 = tx[r].version
          /\ IsMaxVersion(definitions, p, max)
      BY <1>1, <1>2, <3>1 DEF ViewOK, Deploying, TxRecord
    <3>3. PICK k \in DefinitionKey :
            /\ IsNextDefinition(definitions, k)
            /\ tx[r].view = [(IF auto THEN Deactivated(definitions, p) ELSE definitions)
                                EXCEPT ![k] = [process |-> p, version |-> tx[r].version,
                                               active |-> auto]]
      BY <1>2, <2>1 DEF ViewOK
    <3>4. definitions' = [(IF auto THEN Deactivated(definitions, p) ELSE definitions)
                            EXCEPT ![k] = [process |-> p, version |-> max + 1,
                                           active |-> auto]]
      BY <1>2, <3>2, <3>3
    <3> HIDE DEF p, auto, max
    <3>5. TableOK' /\ OneActive' /\ Registry!Deploy(p, auto)
      BY <1>1, <3>2, <3>3, <3>4, DeploymentPublished
    <3> QED
      BY <3>2, <3>5 DEF Registry!Next
  <2>2. CASE tx[r].key # 0
    <3> DEFINE k == tx[r].key
    <3>1. k \in DefinitionKey /\ tx[r].process = definitions[k].process /\ tx[r].process \in Process
      BY <1>2, <2>2 DEF ViewOK, Deploying, Activating
    <3>2. definitions' = SetActive(Deactivated(definitions, definitions[k].process), k)
      BY <1>2, <2>2, <3>1 DEF ViewOK
    <3> HIDE DEF k
    <3>3. TableOK' /\ OneActive' /\ Registry!Activate(k)
      BY <1>1, <3>1, <3>2, ActivationPublished
    <3> QED
      BY <3>1, <3>3 DEF Registry!Next, DefinitionKey, Registry!DefinitionKey
  <2> QED
    BY <2>1, <2>2
<1>4. TypeOK'
  <2>1. tx[r].view \in [DefinitionKey -> DefinitionRow]
    BY <1>1 DEF TxRecord
  <2>2. tx' \in [Request -> TxRecord]
    BY <1>1, NoTxType DEF Commit, TxRecord
  <2> QED
    BY <1>2, <2>1, <2>2 DEF Commit, TypeOK
<1>5. ASSUME NEW s \in Request
      PROVE  TxOK(s)'
  <2>1. CASE s = r
    <3>1. tx'[s] = NoTx /\ writer' # s
      BY <2>1, DefinitionsAssumption DEF Commit
    <3> QED
      BY <3>1 DEF TxOK, NoTx, Writing
  <2>2. CASE s # r
    <3>1. tx[s] \in TxRecord /\ TxOK(s) /\ writer # s /\ writer' # s
      BY <1>1, <1>2, <2>2, DefinitionsAssumption DEF Commit, IInv
    <3>2. /\ tx'[s].pc = tx[s].pc
          /\ tx'[s].process = tx[s].process
          /\ tx'[s].key = tx[s].key
          /\ tx[s].pc \in Writing => tx'[s].stale
      BY <2>2, <3>1 DEF Commit, TxRecord
    <3> QED
      BY <3>1, <3>2 DEF TxOK
  <2> QED
    BY <2>1, <2>2
<1> QED
  BY <1>3, <1>4, <1>5 DEF IInv

(* Every step keeps the invariant; those that do not commit leave the      *)
(* committed table alone.                                                  *)
LEMMA NextStep ==
  ASSUME IInv, [Next]_vars
  PROVE  IInv' /\ [Registry!Next]_definitions
<1>1. ASSUME NEW r \in Request, Commit(r)
      PROVE  IInv' /\ Registry!Next
  BY <1>1, CommitStep
<1>2. ASSUME NEW r \in Request,
             Deploy(r) \/ ReadMaxVersion(r) \/ Activate(r) \/ LookupProcess(r)
      PROVE  IInv' /\ UNCHANGED definitions
  <2>1. UNCHANGED definitions
    BY <1>2 DEF Deploy, ReadMaxVersion, Activate, LookupProcess
  <2> QED
    BY <1>2, <2>1, ReadsKeepIInv
<1>3. ASSUME NEW r \in Request, Deactivate(r) \/ Insert(r) \/ SetActiveVersion(r)
      PROVE  IInv' /\ UNCHANGED definitions
  <2>1. UNCHANGED definitions
    BY <1>3 DEF Deactivate, Insert, SetActiveVersion, Write
  <2> QED
    BY <1>3, <2>1, WritesKeepIInv
<1>4. ASSUME NEW S \in SUBSET Request, Rollback(S)
      PROVE  IInv' /\ UNCHANGED definitions
  BY <1>4, RollbackKeepsIInv DEF Rollback
<1>5. ASSUME NEW r \in Request, Refused(r) \/ Abort(r)
      PROVE  IInv' /\ UNCHANGED definitions
  BY <1>4, <1>5 DEF Refused, Abort
<1>6. CASE Crash
  BY <1>4, <1>6 DEF Crash
<1>7. CASE UNCHANGED vars
  <2>1. UNCHANGED <<definitions, writer, tx>>
    BY <1>7 DEF vars
  <2>2. TypeOK' /\ TableOK' /\ OneActive'
    BY <2>1 DEF IInv, TypeOK, TableOK, OneActive, Versions, RowsOf
  <2>3. \A r \in Request : TxOK(r)'
    BY <2>1, OthersKeepTxOK DEF IInv
  <2> QED
    BY <2>1, <2>2, <2>3 DEF IInv
<1> QED
  BY <1>1, <1>2, <1>3, <1>5, <1>6, <1>7 DEF Next

(* A deployment or an activation never leaves a process that had an active *)
(* version without one.                                                    *)
LEMMA RegistryStaysStartable ==
  ASSUME TypeOK, Registry!Next, NEW p \in Process,
         NEW j \in RowsOf(definitions, p), definitions[j].active
  PROVE  \E k \in RowsOf(definitions, p)' : definitions'[k].active
<1>1. definitions \in [DefinitionKey -> DefinitionRow] /\ Registry!DefinitionKey = DefinitionKey
  BY DEF TypeOK, DefinitionKey, Registry!DefinitionKey
<1>2. j \in DefinitionKey /\ definitions[j].process = p /\ p # NoProcess
  BY RegistryAssumption DEF RowsOf
<1>3. ASSUME NEW defs \in [DefinitionKey -> DefinitionRow], NEW k \in DefinitionKey,
             defs[j].process = p, defs[j].active, definitions' = Registry!Only(defs, k)
      PROVE  \E i \in DefinitionKey : definitions'[i].process = p /\ definitions'[i].active
  <2>1. \A i \in DefinitionKey :
          definitions'[i] = IF defs[i].process = defs[k].process
                            THEN [defs[i] EXCEPT !.active = (i = k)] ELSE defs[i]
    BY <1>1, <1>3 DEF Registry!Only
  <2>2. CASE defs[k].process = p
    <3>1. definitions'[k] = [defs[k] EXCEPT !.active = (k = k)] /\ defs[k] \in DefinitionRow
      BY <1>3, <2>1
    <3>2. definitions'[k].process = p /\ definitions'[k].active
      BY <2>2, <3>1 DEF DefinitionRow
    <3> QED
      BY <3>2
  <2>3. CASE defs[k].process # p
    BY <1>2, <1>3, <2>1, <2>3
  <2> QED
    BY <2>2, <2>3
<1>4. \E i \in DefinitionKey : definitions'[i].process = p /\ definitions'[i].active
  <2>1. CASE \E k \in DefinitionKey : Registry!Activate(k)
    BY <1>1, <1>2, <1>3, <2>1 DEF Registry!Activate
  <2>2. ASSUME NEW q \in Process, NEW auto \in BOOLEAN, Registry!Deploy(q, auto)
        PROVE  \E i \in DefinitionKey : definitions'[i].process = p /\ definitions'[i].active
    <3>1. PICK k \in DefinitionKey, v \in 1..MaxDefinitions :
            LET new == [definitions EXCEPT ![k] = [process |-> q, version |-> v,
                                                   active |-> FALSE]]
            IN /\ definitions[k].process = NoProcess
               /\ definitions' = IF auto THEN Registry!Only(new, k) ELSE new
      BY <1>1, <2>2 DEF Registry!Deploy, Registry!IsNextDefinition
    <3> DEFINE new == [definitions EXCEPT ![k] = [process |-> q, version |-> v, active |-> FALSE]]
    <3>2. new \in [DefinitionKey -> DefinitionRow]
      <4>1. v \in 0..MaxDefinitions
        BY RegistryAssumption
      <4>2. [process |-> q, version |-> v, active |-> FALSE] \in DefinitionRow
        BY <4>1 DEF DefinitionRow
      <4> QED
        BY <1>1, <4>2
    <3>3. new[j] = definitions[j]
      BY <1>1, <1>2, <3>1
    <3> HIDE DEF new
    <3>4. definitions' = IF auto THEN Registry!Only(new, k) ELSE new
      BY <3>1 DEF new
    <3> QED
      BY <1>2, <1>3, <3>2, <3>3, <3>4
  <2> QED
    BY <1>1, <2>1, <2>2 DEF Registry!Next
<1> QED
  BY <1>4 DEF RowsOf

-----------------------------------------------------------------------------
(* Theorems about the specification.                                       *)

(* The inductive invariant: transactions that may still commit work on the *)
(* committed table, at most one of them past its first write.              *)
THEOREM InductiveInvariant == Spec => []IInv
<1>1. Init => IInv
  BY InitIInv
<1>2. IInv /\ [Next]_vars => IInv'
  BY NextStep
<1> QED
  BY <1>1, <1>2, PTL DEF Spec

(* No interleaving of deployments and activations, refused, aborted or     *)
(* crashed, leaves two versions of a process active.                       *)
THEOREM AtMostOneActive == Spec => []OneActive
<1>1. IInv => OneActive
  BY DEF IInv
<1> QED
  BY <1>1, InductiveInvariant, PTL

(* The statements implement the registry: each commit is one deployment or *)
(* one activation, everything else is a stutter.                           *)
THEOREM Refinement == Spec => RefinesRegistry
<1>1. Init => Registry!Init
  BY DEF Init, EmptyTable, NoDefinition, Registry!Init, Registry!NoDefinition,
         DefinitionKey, Registry!DefinitionKey
<1>2. IInv /\ [Next]_vars => [Registry!Next]_definitions
  BY NextStep
<1> QED
  BY <1>1, <1>2, InductiveInvariant, PTL DEF Spec, RefinesRegistry, Registry!Spec

(* A process that can be started can be started after any step: the        *)
(* statement that turns the active version off never takes effect without  *)
(* the one that turns another on.                                          *)
THEOREM ProcessesStayStartable == Spec => StaysStartable
<1> DEFINE Kept == \A p \in Process :
                     (\E k \in RowsOf(definitions, p) : definitions[k].active)
                     => \E k \in RowsOf(definitions, p)' : definitions'[k].active
<1>1. IInv /\ [Next]_vars => [Kept]_vars
  <2> SUFFICES ASSUME IInv, [Next]_vars
               PROVE  Kept
    OBVIOUS
  <2>1. CASE Registry!Next
    BY <2>1, RegistryStaysStartable DEF IInv
  <2>2. CASE UNCHANGED definitions
    BY <2>2 DEF RowsOf
  <2> QED
    BY <2>1, <2>2, NextStep
<1> QED
  BY <1>1, InductiveInvariant, PTL DEF Spec, StaysStartable

-----------------------------------------------------------------------------
(* Versions count deployments.                                             *)

(* A later deployment of a process has a larger version.                   *)
VersionsRise ==
  \A j, k \in DefinitionKey :
    j < k /\ definitions[k].process # NoProcess
          /\ definitions[j].process = definitions[k].process
    => definitions[j].version < definitions[k].version

(* Activating a version renumbers nothing.                                 *)
LEMMA OnlyKeepsVersions ==
  ASSUME NEW defs \in [DefinitionKey -> DefinitionRow], NEW k \in DefinitionKey
  PROVE  \A j \in DefinitionKey :
           /\ Registry!Only(defs, k)[j].process = defs[j].process
           /\ Registry!Only(defs, k)[j].version = defs[j].version
<1>1. Registry!DefinitionKey = DefinitionKey
  BY DEF DefinitionKey, Registry!DefinitionKey
<1>2. \A row \in DefinitionRow : \A b :
        LET new == [row EXCEPT !.active = b]
        IN new.process = row.process /\ new.version = row.version
  BY DEF DefinitionRow
<1> QED
  BY <1>1, <1>2 DEF Registry!Only

(* A deployment gets the version after all earlier ones and the key after  *)
(* all earlier ones.                                                       *)
LEMMA VersionsRiseStep ==
  ASSUME TypeOK, TableOK, VersionsRise, Registry!Next
  PROVE  VersionsRise'
<1>1. definitions \in [DefinitionKey -> DefinitionRow] /\ Registry!DefinitionKey = DefinitionKey
  BY DEF TypeOK, DefinitionKey, Registry!DefinitionKey
<1>2. ASSUME NEW k \in DefinitionKey, Registry!Activate(k)
      PROVE  VersionsRise'
  BY <1>1, <1>2, OnlyKeepsVersions DEF Registry!Activate, VersionsRise
<1>3. ASSUME NEW p \in Process, NEW auto \in BOOLEAN, Registry!Deploy(p, auto)
      PROVE  VersionsRise'
  <2>1. PICK k \in DefinitionKey, v \in 1..MaxDefinitions :
          LET new == [definitions EXCEPT ![k] = [process |-> p, version |-> v, active |-> FALSE]]
          IN /\ IsNextDefinition(definitions, k)
             /\ Versions(definitions, p) = 1..(v - 1)
             /\ definitions' = IF auto THEN Registry!Only(new, k) ELSE new
    BY <1>1, <1>3
       DEF Registry!Deploy, Registry!IsNextDefinition, IsNextDefinition, Versions, RowsOf,
           Registry!Versions, Registry!RowsOf
  <2> DEFINE new == [definitions EXCEPT ![k] = [process |-> p, version |-> v, active |-> FALSE]]
  <2>2. new \in [DefinitionKey -> DefinitionRow]
    <3>1. v \in 0..MaxDefinitions
      BY RegistryAssumption
    <3>2. [process |-> p, version |-> v, active |-> FALSE] \in DefinitionRow
      BY <3>1 DEF DefinitionRow
    <3> QED
      BY <1>1, <3>2
  <2>3. /\ new[k].process = p /\ new[k].version = v
        /\ \A j \in DefinitionKey \ {k} : new[j] = definitions[j]
    BY <1>1
  <2>4. definitions' = IF auto THEN Registry!Only(new, k) ELSE new
    BY <2>1
  <2> HIDE DEF new
  <2>5. \A j \in DefinitionKey : /\ definitions'[j].process = new[j].process
                                 /\ definitions'[j].version = new[j].version
    BY <2>2, <2>4, OnlyKeepsVersions
  <2> SUFFICES ASSUME NEW i \in DefinitionKey, NEW j \in DefinitionKey, i < j,
                      new[j].process # NoProcess, new[i].process = new[j].process
               PROVE  new[i].version < new[j].version
    BY <2>5 DEF VersionsRise
  <2>6. CASE j = k
    <3>1. i \in RowsOf(definitions, p) /\ new[i] = definitions[i] /\ new[j].version = v
      BY <2>3, <2>6 DEF RowsOf, DefinitionKey
    <3>2. definitions[i].version \in 1..(v - 1)
      BY <2>1, <3>1 DEF Versions
    <3> QED
      BY <3>1, <3>2
  <2>7. CASE i = k
    <3>1. definitions[k].process = NoProcess /\ definitions[j].process # NoProcess
      BY <2>1, <2>3, <2>7 DEF IsNextDefinition, DefinitionKey
    <3> QED
      BY <2>7, <3>1 DEF TableOK
  <2>8. CASE i # k /\ j # k
    BY <2>3, <2>8 DEF VersionsRise
  <2> QED
    BY <2>6, <2>7, <2>8
<1> QED
  BY <1>1, <1>2, <1>3 DEF Registry!Next

(* Rising versions without a gap are a numbering.                          *)
LEMMA RisingVersionsCount ==
  ASSUME TypeOK, TableOK, VersionsRise
  PROVE  VersionsCountDeployments
<1> SUFFICES ASSUME NEW k \in DefinitionKey, definitions[k].process # NoProcess
             PROVE  definitions[k].version =
                      Cardinality({j \in RowsOf(definitions, definitions[k].process) : j <= k})
  BY DEF VersionsCountDeployments
<1> DEFINE p == definitions[k].process
           v == definitions[k].version
           S == {j \in RowsOf(definitions, p) : j <= k}
           f == [j \in S |-> definitions[j].version]
<1>1. p \in Process /\ v \in 1..k /\ k \in Nat /\ DefinitionKey \subseteq Nat
  BY RegistryAssumption DEF TypeOK, TableOK, DefinitionRow, DefinitionKey
<1>2. ASSUME NEW j \in S
      PROVE  /\ j \in DefinitionKey /\ j \in Nat /\ definitions[j].process = p
             /\ definitions[j].version \in 1..j
             /\ definitions[j].version \in 1..v
  <2>1. j \in DefinitionKey /\ j \in Nat /\ definitions[j].process = p /\ j <= k
    BY <1>1 DEF RowsOf
  <2>2. definitions[j].version \in 1..j
    BY <2>1 DEF TableOK
  <2>3. j # k => definitions[j].version < v
    BY <1>1, <2>1 DEF VersionsRise
  <2> QED
    BY <1>1, <2>1, <2>2, <2>3
<1>3. f \in [S -> 1..v]
  BY <1>1, <1>2
<1>4. \A i, j \in S : f[i] = f[j] => i = j
  <2> SUFFICES ASSUME NEW i \in S, NEW j \in S, i < j
               PROVE  f[i] # f[j]
    BY <1>2
  <2>1. definitions[i].version < definitions[j].version
    BY <1>2 DEF VersionsRise
  <2> QED
    BY <1>2, <2>1
<1>5. \A u \in 1..v : \E j \in S : f[j] = u
  <2> SUFFICES ASSUME NEW u \in 1..v
               PROVE  \E j \in S : f[j] = u
    OBVIOUS
  <2>1. PICK n \in 0..MaxDefinitions : Versions(definitions, p) = 1..n
    BY <1>1 DEF TableOK
  <2>2. v \in Versions(definitions, p)
    BY DEF Versions, RowsOf
  <2>3. u \in Versions(definitions, p)
    BY <1>1, <2>1, <2>2
  <2>4. PICK j \in RowsOf(definitions, p) : definitions[j].version = u
    BY <2>3 DEF Versions
  <2>5. j \in DefinitionKey /\ definitions[j].process = p
    BY DEF RowsOf
  <2>6. k < j => v < u
    BY <2>4, <2>5 DEF VersionsRise
  <2>7. j <= k
    BY <1>1, <2>5, <2>6
  <2> QED
    BY <2>4, <2>7
<1>6. ExistsBijection(S, 1..v)
  BY <1>3, <1>4, <1>5 DEF ExistsBijection, Bijection, Injection, Surjection, IsInjective
<1>7. IsFiniteSet(S)
  <2>1. IsFiniteSet(1..k)
    BY <1>1, FS_Interval
  <2>2. S \subseteq 1..k
    BY <1>1, <1>2 DEF DefinitionKey
  <2> QED
    BY <2>1, <2>2, FS_Subset
<1>8. Cardinality(1..v) = Cardinality(S)
  BY <1>6, <1>7, FS_Bijection
<1>9. Cardinality(1..v) = v
  BY <1>1, FS_Interval
<1> QED
  BY <1>8, <1>9

(* The n-th deployment of a process that commits is its version n, with    *)
(* whatever ran at the same time, failed or was rolled back                *)
(* (store/definitions.rs, SELECT MAX(version) and the INSERT).             *)
THEOREM VersionsNumberDeployments == Spec => []VersionsCountDeployments
<1>1. Init => VersionsRise
  BY DEF Init, EmptyTable, NoDefinition, VersionsRise
<1>2. IInv /\ VersionsRise /\ [Next]_vars => VersionsRise'
  <2> SUFFICES ASSUME IInv, VersionsRise, [Next]_vars
               PROVE  VersionsRise'
    OBVIOUS
  <2>1. CASE Registry!Next
    BY <2>1, VersionsRiseStep DEF IInv
  <2>2. CASE UNCHANGED definitions
    BY <2>2 DEF VersionsRise
  <2> QED
    BY <2>1, <2>2, NextStep
<1>3. IInv /\ VersionsRise => VersionsCountDeployments
  BY RisingVersionsCount DEF IInv
<1> QED
  BY <1>1, <1>2, <1>3, InductiveInvariant, PTL DEF Spec
=============================================================================
