---------------------------- MODULE DaemonProofs ----------------------------
(***************************************************************************)
(* Daemons of any builds, in any number, on one database: the migrations a *)
(* serving daemon relies on are in the schema, and a recorded migration    *)
(* stays recorded.  While commands do not overlap, the lock names the      *)
(* daemon that serves and a stop stops it.                                 *)
(***************************************************************************)
EXTENDS DaemonProps, TLAPS

(* The migrations of a build have versions and checksums.                  *)
LEMMA SqlType ==
  ASSUME NEW b \in Build, NEW v \in 1..Len(Sql[b])
  PROVE  v \in Version /\ Sql[b][v] \in Checksum /\ Sql[b][v] # NoSql
<1>1. Len(Sql[b]) \in 0..MaxVersion /\ MaxVersion \in Nat /\ v \in DOMAIN Sql[b]
  BY DaemonAssumption
<1>2. v \in Version
  BY <1>1 DEF Version
<1>3. Sql[b][v] \in {Sql[b][w] : w \in DOMAIN Sql[b]}
  BY <1>1
<1>4. Sql[b][v] # NoSql
  BY DaemonAssumption
<1> QED
  BY <1>2, <1>3, <1>4 DEF Checksum

LEMMA LenType ==
  ASSUME NEW b \in Build
  PROVE  Len(Sql[b]) \in Nat /\ Len(Sql[b]) <= MaxVersion
BY DaemonAssumption

-----------------------------------------------------------------------------
(* Types.                                                                  *)

LEMMA TypeInit == ASSUME Init PROVE TypeOK
<1>1. NoSql \in Checksum
  BY DEF Checksum
<1>2. 1 \in 1..(MaxVersion + 1)
  BY DaemonAssumption
<1>3. NoCommand \in Command
  BY DEF NoCommand, Command
<1> QED
  BY <1>1, <1>2, <1>3 DEF Init, TypeOK, PC

(* What the two kinds of partial updates of pc preserve.                   *)
LEMMA PcTypes ==
  ASSUME pc \in [Pid -> PC], NEW p
  PROVE  /\ Orphaned(pc, p) \in [Pid -> PC]
         /\ \A d \in Pid : Signalled(pc, d) \in [Pid -> PC]
BY DEF Orphaned, Signalled, PC, Starting

LEMMA DaemonStepType ==
  ASSUME TypeOK, NEW d \in Pid, DaemonStep(d)
  PROVE  TypeOK'
<1> USE DEF TypeOK, config
<1>1. CASE CheckLock(d)
  BY <1>1 DEF CheckLock, PC, Starting
<1>2. CASE OpenLock(d)
  BY <1>2 DEF OpenLock, PC, Starting
<1>3. CASE WriteLock(d)
  BY <1>3 DEF WriteLock, LockContent, PC, Starting
<1>4. CASE LoadApplied(d)
  BY <1>4 DEF LoadApplied, PC, Starting
<1>5. CASE SkipMigration(d)
  <2>1. next[d] + 1 \in 1..(MaxVersion + 1)
    BY <1>5, LenType, DaemonAssumption DEF SkipMigration
  <2> QED
    BY <1>5, <2>1 DEF SkipMigration, Started, PC, Starting
<1>6. CASE RunMigration(d)
  <2>1. next[d] + 1 \in 1..(MaxVersion + 1)
    BY <1>6, LenType, DaemonAssumption DEF RunMigration
  <2>2. next[d] \in 1..Len(Sql[build[d]])
    BY <1>6, LenType DEF RunMigration
  <2>3. Sql[build[d]][next[d]] \in Checksum
    BY <2>2, SqlType
  <2> QED
    BY <1>6, <2>1, <2>3 DEF RunMigration, PC, Starting
<1>7. CASE Bind(d)
  BY <1>7 DEF Bind, PC, Starting
<1>8. CASE RemoveLock(d)
  <2>1. [pc EXCEPT ![d] = "gone"] \in [Pid -> PC]
    BY DEF PC
  <2>2. pc' \in [Pid -> PC]
    BY <1>8, <2>1 DEF RemoveLock, Orphaned, PC, Starting
  <2> QED
    BY <1>8, <2>2 DEF RemoveLock, Started
<1> QED
  BY <1>1, <1>2, <1>3, <1>4, <1>5, <1>6, <1>7, <1>8 DEF DaemonStep

(* The records the commands leave in cli.                                  *)
LEMMA CommandTypes ==
  ASSUME TypeOK, NEW c \in Cli, NEW p \in Port \cup {NoPort}
  PROVE  /\ \A t \in {"running", "failed", "not running", "unknown", "warning"} :
              Reported(p, t) \in Command
         /\ [NoCommand EXCEPT !.at = "wait", !.port = p] \in Command
         /\ [cli[c] EXCEPT !.at = "poll"] \in Command
         /\ Stopped(c) \in Command
         /\ \A q \in Pid, S \in SUBSET Pid :
              [NoCommand EXCEPT !.at = "kill", !.port = p, !.pid = q, !.seen = S] \in Command
<1>1. cli[c] \in Command
  BY DEF TypeOK
<1> QED
  BY <1>1 DEF Reported, NoCommand, Stopped, Command

LEMMA CommandType ==
  ASSUME TypeOK,
         \/ \E d \in Pid : Spawn(d)
         \/ \E c \in Cli, d \in Pid : StartCommand(c, d)
         \/ \E c \in Cli, p \in Port : StopCommand(c, p)
         \/ \E c \in Cli : StartEnds(c) \/ Kill(c) \/ SeesRemoval(c) \/ GivesUp(c)
  PROVE  TypeOK'
<1> USE DEF TypeOK, config
<1>1. ASSUME NEW d \in Pid, Spawn(d) PROVE TypeOK'
  BY <1>1 DEF Spawn, SpawnDaemon, PC, Starting
<1>2. ASSUME NEW c \in Cli, NEW d \in Pid, StartCommand(c, d) PROVE TypeOK'
  <2>1. /\ Reported(port[d], "running") \in Command
        /\ [NoCommand EXCEPT !.at = "wait", !.port = port[d]] \in Command
    BY CommandTypes
  <2>2. cli' \in [Cli -> Command]
    BY <1>2, <2>1 DEF StartCommand
  <2>3. pc' \in [Pid -> PC] /\ disturbed' \subseteq Pid
    BY <1>2 DEF StartCommand, SpawnDaemon, PC, Starting
  <2> QED
    BY <1>2, <2>2, <2>3 DEF StartCommand
<1>3. ASSUME NEW c \in Cli, NEW p \in Port, StopCommand(c, p) PROVE TypeOK'
  <2> DEFINE served == {d \in Pid : pc[d] = "serving" /\ port[d] = p}
  <2>1. lock[p] \in Pid =>
          [NoCommand EXCEPT !.at = "kill", !.port = p, !.pid = lock[p], !.seen = served] \in Command
    BY CommandTypes
  <2>2. Reported(p, "not running") \in Command /\ Reported(p, "unknown") \in Command
    BY CommandTypes
  <2>3. cli' \in [Cli -> Command]
    BY <1>3, <2>1, <2>2 DEF StopCommand
  <2>4. pc' \in [Pid -> PC] /\ lock' \in [Port -> Pid \cup {Absent, Empty}]
    <3>1. Orphaned(pc, p) \in [Pid -> PC]
      BY PcTypes
    <3> QED
      BY <1>3, <3>1 DEF StopCommand
  <2> QED
    BY <1>3, <2>3, <2>4 DEF StopCommand
<1>4. ASSUME NEW c \in Cli, StartEnds(c) PROVE TypeOK'
  <2>1. cli[c].port \in Port \cup {NoPort}
    BY DEF Command
  <2>2. Reported(cli[c].port, "running") \in Command /\ Reported(cli[c].port, "failed") \in Command
    BY <2>1, CommandTypes
  <2> QED
    BY <1>4, <2>2 DEF StartEnds
<1>5. ASSUME NEW c \in Cli, Kill(c) PROVE TypeOK'
  <2>1. Signalled(pc, cli[c].pid) \in [Pid -> PC]
    BY DEF Signalled, PC, Starting
  <2>2. [cli[c] EXCEPT !.at = "poll"] \in Command
    BY CommandTypes
  <2>3. cli' \in [Cli -> Command]
    BY <1>5, <2>2 DEF Kill
  <2> QED
    BY <1>5, <2>1, <2>3 DEF Kill, Started
<1>6. ASSUME NEW c \in Cli, SeesRemoval(c) PROVE TypeOK'
  BY <1>6, CommandTypes DEF SeesRemoval
<1>7. ASSUME NEW c \in Cli, GivesUp(c) PROVE TypeOK'
  <2>1. cli[c].port \in Port \cup {NoPort}
    BY DEF Command
  <2>2. Reported(cli[c].port, "warning") \in Command /\ Stopped(c) \in Command
    BY <2>1, CommandTypes
  <2>3. cli' \in [Cli -> Command]
    BY <1>7, <2>2 DEF GivesUp
  <2>4. pc' \in [Pid -> PC] /\ lock' \in [Port -> Pid \cup {Absent, Empty}]
    <3>1. Orphaned(pc, cli[c].port) \in [Pid -> PC]
      BY PcTypes
    <3> QED
      BY <1>7, <3>1 DEF GivesUp
  <2> QED
    BY <1>7, <2>3, <2>4 DEF GivesUp
<1> QED
  BY <1>1, <1>2, <1>3, <1>4, <1>5, <1>6, <1>7

(* Of the steps of Next only DaemonStep reads or writes the schema.        *)
LEMMA Steps ==
  ASSUME Next
  PROVE  \/ \E d \in Pid : DaemonStep(d) \/ Shutdown(d) \/ Fail(d)
         \/ \E d \in Pid : Spawn(d)
         \/ \E c \in Cli, d \in Pid : StartCommand(c, d)
         \/ \E c \in Cli, p \in Port : StopCommand(c, p)
         \/ \E c \in Cli : StartEnds(c) \/ Kill(c) \/ SeesRemoval(c) \/ GivesUp(c)
BY Zenon DEF Next, Begin, Continue

LEMMA TypeStep ==
  ASSUME TypeOK, [Next]_vars
  PROVE  TypeOK'
<1>1. CASE \E d \in Pid : DaemonStep(d)
  BY <1>1, DaemonStepType
<1>2. CASE \E d \in Pid : Shutdown(d) \/ Fail(d)
  <2>1. PICK d \in Pid : Shutdown(d) \/ Fail(d)
    BY <1>2
  <2>2. [pc EXCEPT ![d] = "gone"] \in [Pid -> PC] /\ Signalled(pc, d) \in [Pid -> PC]
    BY DEF TypeOK, Signalled, PC, Starting
  <2> QED
    BY <2>1, <2>2 DEF Shutdown, Fail, Started, TypeOK, config
<1>3. CASE UNCHANGED vars
  BY <1>3 DEF vars, config, TypeOK
<1> QED
  BY <1>1, <1>2, <1>3, Steps, CommandType

(* The local state of daemons and commands, the lock files and the schema  *)
(* table always have the values TypeOK gives (main.rs, migrate.rs,         *)
(* daemon.rs).                                                             *)
THEOREM TypeCorrect == Spec => []TypeOK
BY TypeInit, TypeStep, PTL DEF Spec

-----------------------------------------------------------------------------
(* The schema.                                                             *)

LEMMA SchemaInit == ASSUME Init PROVE SchemaInv
BY TypeInit DEF Init, SchemaInv

(* Steps that leave the schema, what was read of it and every position     *)
(* alone, and that do not let a daemon serve, keep the invariant.          *)
LEMMA SchemaFrame ==
  ASSUME SchemaInv, TypeOK', UNCHANGED <<schema, applied, next, build>>,
         \A d \in Pid : pc'[d] \in {"serving", "draining"} => pc[d] \in {"serving", "draining"}
  PROVE  SchemaInv'
BY DEF SchemaInv

LEMMA DaemonStepSchema ==
  ASSUME SchemaInv, TypeOK', NEW d \in Pid, DaemonStep(d)
  PROVE  SchemaInv' /\ \A v \in Version : schema[v] # NoSql => schema'[v] = schema[v]
<1> DEFINE Mine(e) == 1..Len(Sql[build[e]])
<1>0. TypeOK /\ \A e \in Pid : build[e] \in Build /\ next[e] \in Nat
  BY DaemonAssumption DEF SchemaInv, TypeOK
<1>1. CASE CheckLock(d) \/ OpenLock(d) \/ WriteLock(d) \/ RemoveLock(d)
  <2>1. UNCHANGED <<schema, applied, next, build>>
    BY <1>1 DEF CheckLock, OpenLock, WriteLock, RemoveLock, config
  <2>2. \A e \in Pid : pc'[e] \in {"serving", "draining"} => pc[e] \in {"serving", "draining"}
    BY <1>0, <1>1 DEF CheckLock, OpenLock, WriteLock, RemoveLock, Orphaned, TypeOK
  <2> QED
    BY <2>1, <2>2, SchemaFrame
<1>2. CASE LoadApplied(d)
  <2>1. /\ applied' = [applied EXCEPT ![d] = schema]
        /\ pc' = [pc EXCEPT ![d] = "migrate"]
        /\ UNCHANGED <<schema, next, build>>
    BY <1>2 DEF LoadApplied, config
  <2>2. \A e \in Pid : pc'[e] \in {"serving", "draining"} => pc[e] \in {"serving", "draining"}
    BY <1>0, <2>1 DEF TypeOK
  <2>3. \A e \in Pid, v \in Version : applied'[e][v] # NoSql => schema[v] = applied'[e][v]
    BY <1>0, <2>1 DEF TypeOK, SchemaInv
  <2> QED
    BY <2>1, <2>2, <2>3 DEF SchemaInv
<1>3. CASE SkipMigration(d)
  <2>1. CASE Mismatch(d)
    BY <1>0, <1>3, <2>1 DEF SkipMigration, SchemaInv, config, TypeOK
  <2>2. CASE ~Mismatch(d)
    <3>1. next[d] \in Mine(d) /\ next[d] \in Version
      <4>1. next[d] \in 1..Len(Sql[build[d]])
        BY <1>0, <1>3, LenType DEF SkipMigration, TypeOK
      <4> QED
        BY <1>0, <4>1, SqlType
    <3>2. schema[next[d]] = Sql[build[d]][next[d]]
      BY <1>3, <2>2, <3>1 DEF SkipMigration, Recorded, Mismatch, SchemaInv
    <3>3. next' = [next EXCEPT ![d] = @ + 1] /\ UNCHANGED <<pc, schema, applied, build>>
      BY <1>3, <2>2 DEF SkipMigration, config
    <3>4. ASSUME NEW e \in Pid, NEW v \in Mine(e), v < next'[e]
          PROVE  schema[v] = Sql[build[e]][v]
      <4>1. CASE e = d /\ v = next[d]
        BY <3>2, <4>1
      <4>2. CASE ~(e = d /\ v = next[d])
        <5>1. v < next[e]
          BY <1>0, <3>3, <3>4, <4>2, LenType DEF TypeOK
        <5> QED
          BY <5>1 DEF SchemaInv
      <4> QED
        BY <4>1, <4>2
    <3>5. \A e \in Pid : next'[e] >= next[e]
      BY <1>0, <3>3 DEF TypeOK
    <3>6. \A e \in Pid : pc'[e] \in {"serving", "draining"} => next'[e] > Len(Sql[build[e]])
      <4> TAKE e \in Pid
      <4>1. Len(Sql[build[e]]) \in Nat /\ next'[e] \in Nat
        BY <1>0, <3>3, LenType DEF TypeOK
      <4> QED
        BY <1>0, <3>3, <3>5, <4>1 DEF SchemaInv
    <3> QED
      BY <3>3, <3>4, <3>6 DEF SchemaInv
  <2> QED
    BY <2>1, <2>2
<1>4. CASE RunMigration(d)
  <2>1. CASE ~NotYetRun(d)
    BY <1>0, <1>4, <2>1 DEF RunMigration, SchemaInv, config, TypeOK
  <2>2. CASE NotYetRun(d)
    <3>1. next[d] \in Mine(d) /\ next[d] \in Version
      <4>1. next[d] \in 1..Len(Sql[build[d]])
        BY <1>0, <1>4, LenType DEF RunMigration, TypeOK
      <4> QED
        BY <1>0, <4>1, SqlType
    <3>2. /\ schema' = [schema EXCEPT ![next[d]] = Sql[build[d]][next[d]]]
          /\ next' = [next EXCEPT ![d] = @ + 1]
          /\ UNCHANGED <<pc, applied, build>>
      BY <1>4, <2>2 DEF RunMigration, config
    <3>3. schema[next[d]] = NoSql
      BY <2>2 DEF NotYetRun
    <3>4. \A v \in Version : schema[v] # NoSql => schema'[v] = schema[v]
      BY <1>0, <3>2, <3>3 DEF TypeOK
    <3>5. \A e \in Pid, v \in Version : applied[e][v] # NoSql => schema'[v] = applied[e][v]
      BY <3>4 DEF SchemaInv
    <3>6. ASSUME NEW e \in Pid, NEW v \in Mine(e), v < next'[e]
          PROVE  schema'[v] = Sql[build[e]][v]
      <4>1. CASE e = d /\ v = next[d]
        BY <1>0, <3>1, <3>2, <4>1 DEF TypeOK
      <4>2. CASE ~(e = d /\ v = next[d])
        <5>1. v < next[e]
          BY <1>0, <3>2, <3>6, <4>2, LenType DEF TypeOK
        <5>2. schema[v] = Sql[build[e]][v] /\ v \in Version /\ Sql[build[e]][v] # NoSql
          BY <1>0, <5>1, SqlType DEF SchemaInv
        <5> QED
          BY <3>4, <5>2
      <4> QED
        BY <4>1, <4>2
    <3>7. \A e \in Pid : pc'[e] \in {"serving", "draining"} => next'[e] > Len(Sql[build[e]])
      <4> TAKE e \in Pid
      <4>1. Len(Sql[build[e]]) \in Nat /\ next'[e] \in Nat /\ next'[e] >= next[e]
        BY <1>0, <3>2, LenType DEF TypeOK
      <4> QED
        BY <1>0, <3>2, <4>1 DEF SchemaInv
    <3> QED
      BY <3>2, <3>4, <3>5, <3>6, <3>7 DEF SchemaInv
  <2> QED
    BY <2>1, <2>2
<1>5. CASE Bind(d)
  BY <1>0, <1>5, LenType DEF Bind, SchemaInv, config, TypeOK
<1> QED
  BY <1>1, <1>2, <1>3, <1>4, <1>5 DEF DaemonStep, CheckLock, OpenLock, WriteLock, RemoveLock

(* Nothing else can let a daemon serve or touch the schema.                *)
LEMMA OthersKeepSchema ==
  ASSUME TypeOK, [Next]_vars, ~\E d \in Pid : DaemonStep(d)
  PROVE  /\ UNCHANGED <<schema, applied, next, build>>
         /\ \A d \in Pid : pc'[d] \in {"serving", "draining"} => pc[d] \in {"serving", "draining"}
<1> DEFINE Kept ==
             /\ UNCHANGED <<schema, applied, next, build>>
             /\ \A d \in Pid : pc'[d] \in {"serving", "draining"} => pc[d] \in {"serving", "draining"}
<1> USE DEF TypeOK, config
<1>1. ASSUME NEW d \in Pid, Shutdown(d) \/ Fail(d) \/ Spawn(d) PROVE Kept
  BY <1>1 DEF Shutdown, Fail, Spawn, SpawnDaemon, Signalled, Starting
<1>2. ASSUME NEW c \in Cli, NEW d \in Pid, StartCommand(c, d) PROVE Kept
  BY <1>2 DEF StartCommand, SpawnDaemon
<1>3. ASSUME NEW c \in Cli, NEW p \in Port, StopCommand(c, p) PROVE Kept
  BY <1>3 DEF StopCommand, Orphaned
<1>4. ASSUME NEW c \in Cli, StartEnds(c) \/ SeesRemoval(c) PROVE Kept
  BY <1>4 DEF StartEnds, SeesRemoval
<1>5. ASSUME NEW c \in Cli, Kill(c) PROVE Kept
  BY <1>5 DEF Kill, Signalled, Starting
<1>6. ASSUME NEW c \in Cli, GivesUp(c) PROVE Kept
  BY <1>6 DEF GivesUp, Orphaned
<1>7. CASE UNCHANGED vars
  BY <1>7 DEF vars
<1> QED
  BY <1>1, <1>2, <1>3, <1>4, <1>5, <1>6, <1>7, Steps

LEMMA SchemaStep ==
  ASSUME SchemaInv, [Next]_vars
  PROVE  SchemaInv' /\ \A v \in Version : schema[v] # NoSql => schema'[v] = schema[v]
<1>1. TypeOK /\ TypeOK'
  BY TypeStep DEF SchemaInv
<1>2. CASE \E d \in Pid : DaemonStep(d)
  BY <1>1, <1>2, DaemonStepSchema
<1>3. CASE ~\E d \in Pid : DaemonStep(d)
  BY <1>1, <1>3, OthersKeepSchema, SchemaFrame
<1> QED
  BY <1>2, <1>3

(* What daemons read of the schema table stays true and puts each of them  *)
(* where it is in the list of its migrations (migrate.rs 31-75).           *)
THEOREM SchemaInductive == Spec => []SchemaInv
<1>1. Init => SchemaInv
  BY SchemaInit
<1>2. SchemaInv /\ [Next]_vars => SchemaInv'
  BY SchemaStep
<1> QED
  BY <1>1, <1>2, PTL DEF Spec

(* A daemon that serves finds every migration of its build in the database *)
(* as its build has it (migrate.rs 31-75).                                 *)
THEOREM ServingDaemonsKnowTheirSchema == Spec => []ServesOwnSchema
<1>1. SchemaInv => ServesOwnSchema
  <2> SUFFICES ASSUME SchemaInv, NEW d \in Pid, pc[d] \in {"serving", "draining"},
                      NEW v \in 1..Len(Sql[build[d]])
               PROVE  schema[v] = Sql[build[d]][v]
    BY DEF ServesOwnSchema
  <2>1. Len(Sql[build[d]]) \in Nat /\ next[d] \in Nat
    BY LenType, DaemonAssumption DEF SchemaInv, TypeOK
  <2>2. v < next[d]
    BY <2>1 DEF SchemaInv
  <2> QED
    BY <2>2 DEF SchemaInv
<1> QED
  BY <1>1, SchemaInductive, PTL

(* No step runs a recorded migration again or takes one back (migrate.rs   *)
(* 51-72).                                                                 *)
THEOREM MigrationsStayRecorded == Spec => MigratedOnce
<1>1. SchemaInv /\ [Next]_vars => [\A v \in Version : schema[v] # NoSql => schema'[v] = schema[v]]_vars
  BY SchemaStep
<1> QED
  BY <1>1, SchemaInductive, PTL DEF Spec, MigratedOnce
-----------------------------------------------------------------------------
(* Commands that do not overlap (SerialSpec).                              *)

LEMMA SerialIsNext ==
  ASSUME (\E p \in Port : Calm(p) /\ Begin(p)) \/ Continue
  PROVE  Next
BY DEF Next

LEMMA SerialInit == ASSUME Init PROVE SerialInv
<1>1. TypeOK
  BY TypeInit
<1> QED
  BY <1>1 DEF Init, SerialInv, OneStarts, LockIsMine, StopIsAlone, SeenIsUpOrGone, Up,
              Stopping, Starting, NoCommand

(* A step of the daemons that changes no lock file and no command and in   *)
(* which those whose name is in their lock file go on, or any daemon ends. *)
LEMMA SerialFrame ==
  ASSUME SerialInv, TypeOK', UNCHANGED <<port, lock, cli>>,
         \A d \in Pid : pc'[d] # pc[d] =>
           \/ pc'[d] = "gone"
           \/ pc[d] = "serving" /\ pc'[d] = "draining"
           \/ pc[d] = "load" /\ pc'[d] = "migrate"
           \/ pc[d] = "migrate" /\ pc'[d] = "serving"
  PROVE  SerialInv'
<1>0. /\ TypeOK /\ OneStarts /\ LockIsMine /\ StopIsAlone /\ SeenIsUpOrGone
  BY DEF SerialInv
<1> USE DEF Up, Stopping, Starting
<1>1. OneStarts'
  BY <1>0 DEF OneStarts
<1>2. LockIsMine'
  BY <1>0 DEF LockIsMine, OneStarts
<1>3. StopIsAlone'
  <2> SUFFICES ASSUME NEW c \in Cli, Stopping(c), NEW d \in Pid, port[d] = cli[c].port
               PROVE  pc'[d] \notin Starting /\ (Up(d)' => d = cli[c].pid)
    BY DEF StopIsAlone
  <2>1. pc[d] \notin Starting /\ (Up(d) => d = cli[c].pid)
    BY <1>0 DEF StopIsAlone
  <2> QED
    BY <2>1
<1>4. SeenIsUpOrGone'
  <2> SUFFICES ASSUME NEW c \in Cli, NEW d \in cli[c].seen
               PROVE  /\ Stopping(c) => port[d] = cli[c].port /\ (Up(d)' \/ pc'[d] = "gone")
                      /\ cli[c].report = "stopped" => pc'[d] = "gone"
    BY DEF SeenIsUpOrGone
  <2>1. d \in Pid
    BY <1>0 DEF TypeOK, Command
  <2>2. /\ Stopping(c) => port[d] = cli[c].port /\ (Up(d) \/ pc[d] = "gone")
        /\ cli[c].report = "stopped" => pc[d] = "gone"
    BY <1>0 DEF SeenIsUpOrGone
  <2> QED
    BY <2>1, <2>2
<1> QED
  BY <1>1, <1>2, <1>3, <1>4 DEF SerialInv

LEMMA DaemonStepSerial ==
  ASSUME SerialInv, TypeOK', NEW d \in Pid, DaemonStep(d) \/ Shutdown(d) \/ Fail(d)
  PROVE  SerialInv'
<1> DEFINE p == port[d]
<1>0. /\ TypeOK /\ OneStarts /\ LockIsMine /\ StopIsAlone /\ SeenIsUpOrGone
      /\ p \in Port /\ Absent \notin Pid /\ Empty \notin Pid
  BY DaemonAssumption DEF SerialInv, TypeOK
<1>1. CASE CheckLock(d)
  <2>1. pc' = [pc EXCEPT ![d] = IF AlreadyRunning(d) THEN "gone" ELSE "open"]
        /\ pc[d] = "check" /\ UNCHANGED <<port, lock, cli>>
    BY <1>1 DEF CheckLock, config
  <2>2. CASE AlreadyRunning(d)
    <3>1. \A e \in Pid : pc'[e] # pc[e] => pc'[e] = "gone"
      BY <1>0, <2>1, <2>2 DEF TypeOK
    <3> QED
      BY <2>1, <3>1, SerialFrame
  <2>3. CASE ~AlreadyRunning(d)
    <3>1. \A e \in Pid : Up(e) => port[e] # p
      BY <1>0, <2>3 DEF AlreadyRunning, LockIsMine, Up, Alive
    <3>2. pc' = [pc EXCEPT ![d] = "open"] /\ pc \in [Pid -> PC]
      BY <1>0, <2>1, <2>3 DEF TypeOK
    <3> USE <1>0, <2>1, <3>2 DEF Up, Stopping, Starting
    <3>3. OneStarts'
      BY DEF OneStarts
    <3>4. LockIsMine'
      BY <3>1 DEF LockIsMine
    <3>5. StopIsAlone'
      BY DEF StopIsAlone
    <3>6. SeenIsUpOrGone'
      BY DEF SeenIsUpOrGone, StopIsAlone
    <3> QED
      BY <3>3, <3>4, <3>5, <3>6 DEF SerialInv
  <2> QED
    BY <2>2, <2>3
<1>2. CASE OpenLock(d)
  <2>1. /\ pc[d] = "open" /\ pc' = [pc EXCEPT ![d] = "content"] /\ pc \in [Pid -> PC]
        /\ lock' = [lock EXCEPT ![p] = Empty] /\ UNCHANGED <<port, cli>>
        /\ lock \in [Port -> Pid \cup {Absent, Empty}] /\ port \in [Pid -> Port]
    BY <1>0, <1>2 DEF OpenLock, config, TypeOK
  <2> USE <1>0, <2>1 DEF Up, Stopping, Starting
  <2>2. OneStarts'
    BY DEF OneStarts
  <2>3. LockIsMine'
    BY DEF LockIsMine, OneStarts
  <2>4. StopIsAlone'
    BY DEF StopIsAlone
  <2>5. SeenIsUpOrGone'
    BY DEF SeenIsUpOrGone, StopIsAlone
  <2> QED
    BY <2>2, <2>3, <2>4, <2>5 DEF SerialInv
<1>3. CASE WriteLock(d)
  <2>1. /\ pc[d] = "content" /\ pc' = [pc EXCEPT ![d] = "load"] /\ pc \in [Pid -> PC]
        /\ lock' = [lock EXCEPT ![p] = d] /\ UNCHANGED <<port, cli>>
        /\ lock \in [Port -> Pid \cup {Absent, Empty}] /\ port \in [Pid -> Port]
    BY <1>0, <1>3 DEF WriteLock, LockContent, config, TypeOK, OneStarts
  <2> USE <1>0, <2>1 DEF Up, Stopping, Starting
  <2>2. OneStarts'
    BY DEF OneStarts
  <2>3. LockIsMine'
    BY DEF LockIsMine, OneStarts
  <2>4. StopIsAlone'
    BY DEF StopIsAlone
  <2>5. SeenIsUpOrGone'
    BY DEF SeenIsUpOrGone, StopIsAlone
  <2> QED
    BY <2>2, <2>3, <2>4, <2>5 DEF SerialInv
<1>4. CASE LoadApplied(d) \/ SkipMigration(d) \/ RunMigration(d) \/ Bind(d)
           \/ Shutdown(d) \/ Fail(d)
  <2>1. UNCHANGED <<port, lock, cli>>
    BY <1>4 DEF LoadApplied, SkipMigration, RunMigration, Bind, Shutdown, Fail, config
  <2>2. \A e \in Pid : pc'[e] # pc[e] =>
           \/ pc'[e] = "gone"
           \/ pc[e] = "serving" /\ pc'[e] = "draining"
           \/ pc[e] = "load" /\ pc'[e] = "migrate"
           \/ pc[e] = "migrate" /\ pc'[e] = "serving"
    BY <1>0, <1>4 DEF LoadApplied, SkipMigration, RunMigration, Bind, Shutdown, Fail,
                      Signalled, TypeOK
  <2> QED
    BY <2>1, <2>2, SerialFrame
<1>5. CASE RemoveLock(d)
  <2>1. /\ pc[d] = "draining" /\ pc \in [Pid -> PC] /\ UNCHANGED <<port, cli>>
        /\ lock' = [lock EXCEPT ![p] = Absent]
        /\ lock \in [Port -> Pid \cup {Absent, Empty}] /\ port \in [Pid -> Port]
    BY <1>0, <1>5 DEF RemoveLock, config, TypeOK
  <2>2. \A e \in Pid : ~(pc[e] = "content" /\ port[e] = p)
    BY <1>0, <2>1 DEF LockIsMine, Up
  <2>3. pc' = [pc EXCEPT ![d] = "gone"]
    BY <1>5, <2>1, <2>2 DEF RemoveLock, Orphaned
  <2>4. \A e \in Pid : e # d /\ (pc[e] \in {"load", "migrate"} \/ Up(e)) => port[e] # p
    BY <1>0, <2>1 DEF LockIsMine, Up
  <2> USE <1>0, <2>1, <2>3 DEF Up, Stopping, Starting
  <2>5. OneStarts'
    BY DEF OneStarts
  <2>6. LockIsMine'
    BY <2>4 DEF LockIsMine
  <2>7. StopIsAlone'
    BY DEF StopIsAlone
  <2>8. SeenIsUpOrGone'
    BY DEF SeenIsUpOrGone, StopIsAlone
  <2> QED
    BY <2>5, <2>6, <2>7, <2>8 DEF SerialInv
<1> QED
  BY <1>1, <1>2, <1>3, <1>4, <1>5 DEF DaemonStep

LEMMA CommandSerial ==
  ASSUME SerialInv, TypeOK'
  PROVE  /\ \A d \in Pid : Calm(port[d]) /\ Spawn(d) => SerialInv'
         /\ \A c \in Cli, d \in Pid : Calm(port[d]) /\ StartCommand(c, d) => SerialInv'
         /\ \A c \in Cli, p \in Port : Calm(p) /\ StopCommand(c, p) => SerialInv'
         /\ \A c \in Cli : StartEnds(c) \/ Kill(c) \/ SeesRemoval(c) \/ GivesUp(c) => SerialInv'
<1>0. /\ TypeOK /\ OneStarts /\ LockIsMine /\ StopIsAlone /\ SeenIsUpOrGone
      /\ Absent \notin Pid /\ Empty \notin Pid /\ Absent # Empty
      /\ pc \in [Pid -> PC] /\ port \in [Pid -> Port] /\ cli \in [Cli -> Command]
      /\ lock \in [Port -> Pid \cup {Absent, Empty}]
      /\ \A c \in Cli : cli[c].seen \subseteq Pid
  BY DaemonAssumption DEF SerialInv, TypeOK, Command
<1> DEFINE Spawned(d) ==
             /\ pc[d] = "off" /\ pc' = [pc EXCEPT ![d] = "check"]
             /\ \A e \in Pid : port[e] = port[d] => pc[e] \notin Starting
             /\ \A c \in Cli : cli[c].port = port[d] => ~Stopping(c)
             /\ UNCHANGED <<port, lock>>
             /\ \A c \in Cli : \/ cli'[c] = cli[c]
                               \/ cli'[c].at \in {"idle", "wait"} /\ cli'[c].report # "stopped"
<1>1. ASSUME NEW d \in Pid, Spawned(d) PROVE SerialInv'
  <2> USE <1>0, <1>1 DEF Up, Stopping, Starting
  <2>1. OneStarts'
    BY DEF OneStarts
  <2>2. LockIsMine'
    BY DEF LockIsMine
  <2>3. StopIsAlone'
    BY DEF StopIsAlone
  <2>4. SeenIsUpOrGone'
    BY DEF SeenIsUpOrGone
  <2> QED
    BY <2>1, <2>2, <2>3, <2>4 DEF SerialInv
<1>2. ASSUME NEW d \in Pid, Calm(port[d]), Spawn(d) PROVE SerialInv'
  <2>0. /\ pc[d] = "off" /\ pc' = [pc EXCEPT ![d] = "check"]
        /\ UNCHANGED <<port, lock, cli>>
    BY <1>2 DEF Spawn, SpawnDaemon, config
  <2>1. Spawned(d)
    BY <1>2, <2>0 DEF Calm, Stopping
  <2> QED
    BY <1>1, <2>1
<1>3. ASSUME NEW c \in Cli, NEW d \in Pid, Calm(port[d]), StartCommand(c, d) PROVE SerialInv'
  <2>1. CASE Healthy(port[d])
    <3>1. UNCHANGED <<pc, port, lock>> /\ cli' = [cli EXCEPT ![c] = Reported(port[d], "running")]
      BY <1>3, <2>1 DEF StartCommand, config
    <3> QED
      BY <1>0, <3>1 DEF SerialInv, OneStarts, LockIsMine, StopIsAlone, SeenIsUpOrGone, Up,
                        Stopping, Reported, NoCommand
  <2>2. CASE ~Healthy(port[d])
    <3>1. cli' = [cli EXCEPT ![c] = [NoCommand EXCEPT !.at = "wait", !.port = port[d]]]
      BY <1>3, <2>2 DEF StartCommand
    <3>2. /\ pc[d] = "off" /\ pc' = [pc EXCEPT ![d] = "check"]
          /\ UNCHANGED <<port, lock>>
      BY <1>3, <2>2 DEF StartCommand, SpawnDaemon, config
    <3>3. \A b \in Cli : \/ cli'[b] = cli[b]
                         \/ cli'[b].at \in {"idle", "wait"} /\ cli'[b].report # "stopped"
      BY <1>0, <3>1 DEF NoCommand
    <3>4. Spawned(d)
      BY <1>3, <3>2, <3>3 DEF Calm, Stopping
    <3> QED
      BY <1>1, <3>4
  <2> QED
    BY <2>1, <2>2
<1>4. ASSUME NEW c \in Cli, NEW p \in Port, Calm(p), StopCommand(c, p) PROVE SerialInv'
  <2> DEFINE served == {d \in Pid : pc[d] = "serving" /\ port[d] = p}
  <2>1. CASE /\ lock[p] \in Pid /\ UNCHANGED <<pc, lock>>
             /\ cli' = [cli EXCEPT ![c] = [NoCommand EXCEPT !.at = "kill", !.port = p,
                                             !.pid = lock[p], !.seen = served]]
    <3>1. UNCHANGED port
      BY <1>4 DEF StopCommand, config
    <3> USE <1>0, <1>4, <2>1, <3>1 DEF Up, Stopping, NoCommand
    <3>2. OneStarts' /\ LockIsMine'
      BY DEF OneStarts, LockIsMine
    <3>3. StopIsAlone'
      BY DEF StopIsAlone, Calm, LockIsMine
    <3>4. SeenIsUpOrGone'
      BY DEF SeenIsUpOrGone
    <3> QED
      BY <3>2, <3>3, <3>4 DEF SerialInv
  <2>2. CASE /\ lock[p] = Absent /\ cli' = [cli EXCEPT ![c] = Reported(p, "not running")]
             /\ UNCHANGED <<pc, lock>>
    <3>1. UNCHANGED port
      BY <1>4 DEF StopCommand, config
    <3> QED
      BY <1>0, <2>2, <3>1 DEF SerialInv, OneStarts, LockIsMine, StopIsAlone, SeenIsUpOrGone,
                              Up, Stopping, Reported, NoCommand
  <2>3. CASE /\ lock[p] = Empty /\ cli' = [cli EXCEPT ![c] = Reported(p, "unknown")]
             /\ lock' = [lock EXCEPT ![p] = Absent] /\ pc' = Orphaned(pc, p)
    <3>1. UNCHANGED port
      BY <1>4 DEF StopCommand, config
    <3>2. \A d \in Pid : port[d] = p => pc[d] \notin Starting
      BY <1>4 DEF Calm
    <3>3. pc' = pc
      BY <1>0, <2>3, <3>2 DEF Orphaned, Starting
    <3>4. \A d \in Pid : pc[d] \in {"load", "migrate"} \/ Up(d) => port[d] # p
      BY <1>0, <2>3 DEF LockIsMine
    <3>5. LockIsMine'
      BY <1>0, <2>3, <3>1, <3>3, <3>4 DEF LockIsMine, Up
    <3> QED
      BY <1>0, <2>3, <3>1, <3>3, <3>5 DEF SerialInv, OneStarts, StopIsAlone, SeenIsUpOrGone,
                                          Up, Stopping, Reported, NoCommand
  <2> QED
    BY <1>4, <2>1, <2>2, <2>3 DEF StopCommand
<1>5. ASSUME NEW c \in Cli, StartEnds(c) PROVE SerialInv'
  <2>1. /\ UNCHANGED <<pc, port, lock>>
        /\ \E t \in {"running", "failed"} : cli' = [cli EXCEPT ![c] = Reported(cli[c].port, t)]
    BY <1>0, <1>5 DEF StartEnds, config
  <2> QED
    BY <1>0, <2>1 DEF SerialInv, OneStarts, LockIsMine, StopIsAlone, SeenIsUpOrGone, Up,
                      Stopping, Reported, NoCommand
<1>6. ASSUME NEW c \in Cli, Kill(c) PROVE SerialInv'
  <2>1. /\ pc' = Signalled(pc, cli[c].pid) /\ UNCHANGED <<port, lock>>
        /\ cli[c].at = "kill" /\ cli' = [cli EXCEPT ![c].at = "poll"]
    BY <1>6 DEF Kill, config
  <2>2. \A d \in Pid : \/ pc'[d] = pc[d]
                       \/ Up(d) /\ pc'[d] = "draining"
                       \/ ~Up(d) /\ pc[d] # "gone" /\ pc'[d] = "gone"
    BY <1>0, <2>1 DEF Signalled, Up, Starting
  <2>3. \A b \in Cli : /\ Stopping(b)' => Stopping(b)
                       /\ cli'[b].port = cli[b].port /\ cli'[b].pid = cli[b].pid
                       /\ cli'[b].seen = cli[b].seen /\ cli'[b].report = cli[b].report
    BY <1>0, <2>1 DEF Command, Stopping
  <2>4. \A d \in Pid : /\ pc'[d] \in Starting => pc[d] = pc'[d]
                       /\ Up(d)' <=> Up(d)
                       /\ pc[d] = "gone" => pc'[d] = "gone"
    BY <2>2 DEF Up, Starting
  <2>5. OneStarts'
    BY <1>0, <2>1, <2>4 DEF OneStarts, Starting
  <2>6. LockIsMine'
    BY <1>0, <2>1, <2>4 DEF LockIsMine, Starting
  <2>7. StopIsAlone'
    BY <1>0, <2>1, <2>3, <2>4 DEF StopIsAlone
  <2>8. SeenIsUpOrGone'
    BY <1>0, <2>1, <2>3, <2>4 DEF SeenIsUpOrGone
  <2> QED
    BY <2>5, <2>6, <2>7, <2>8 DEF SerialInv
<1>7. ASSUME NEW c \in Cli, SeesRemoval(c) PROVE SerialInv'
  <2>1. /\ UNCHANGED <<pc, port, lock>> /\ cli' = [cli EXCEPT ![c] = Stopped(c)]
        /\ cli[c].at = "poll" /\ lock[cli[c].port] = Absent
    BY <1>7 DEF SeesRemoval, config
  <2>2. \A d \in cli[c].seen : pc[d] = "gone"
    BY <1>0, <2>1 DEF SeenIsUpOrGone, LockIsMine, Stopping
  <2>3. \A b \in Cli : b # c => cli'[b] = cli[b]
    BY <1>0, <2>1
  <2>4. cli'[c].seen = cli[c].seen /\ ~Stopping(c)'
    BY <1>0, <2>1 DEF Stopped, Stopping, Command
  <2>5. StopIsAlone'
    BY <1>0, <2>1, <2>3, <2>4 DEF StopIsAlone, Up, Stopping
  <2>6. SeenIsUpOrGone'
    BY <1>0, <2>1, <2>2, <2>3, <2>4 DEF SeenIsUpOrGone, Up, Stopping
  <2> QED
    BY <1>0, <2>1, <2>5, <2>6 DEF SerialInv, OneStarts, LockIsMine, Up
<1>8. ASSUME NEW c \in Cli, GivesUp(c) PROVE SerialInv'
  <2> DEFINE p == cli[c].port
  <2>0. cli[c].at = "poll" /\ lock[p] # Absent /\ UNCHANGED port
    BY <1>8 DEF GivesUp, config
  <2>1. CASE ProcessGone(c)
    <3>1. /\ cli' = [cli EXCEPT ![c] = Stopped(c)] /\ lock' = [lock EXCEPT ![p] = Absent]
          /\ pc' = Orphaned(pc, p)
      BY <1>8, <2>1 DEF GivesUp
    <3>2. \A d \in Pid : port[d] = p => pc[d] \notin Starting /\ ~Up(d)
      BY <1>0, <2>0, <2>1 DEF StopIsAlone, Stopping, ProcessGone, Alive, Up
    <3>3. pc' = pc
      BY <1>0, <3>1, <3>2 DEF Orphaned, Starting
    <3>4. \A d \in cli[c].seen : pc[d] = "gone"
      BY <1>0, <2>0, <3>2 DEF SeenIsUpOrGone, Stopping
    <3>5. LockIsMine'
      BY <1>0, <2>0, <3>1, <3>2, <3>3 DEF LockIsMine, Up, Starting
    <3>6. \A b \in Cli : b # c => cli'[b] = cli[b]
      BY <1>0, <3>1
    <3>7. cli'[c].seen = cli[c].seen /\ ~Stopping(c)'
      BY <1>0, <3>1 DEF Stopped, Stopping, Command
    <3>8. StopIsAlone'
      BY <1>0, <2>0, <3>3, <3>6, <3>7 DEF StopIsAlone, Up, Stopping
    <3>9. SeenIsUpOrGone'
      BY <1>0, <2>0, <3>3, <3>4, <3>6, <3>7 DEF SeenIsUpOrGone, Up, Stopping
    <3> QED
      BY <1>0, <2>0, <3>3, <3>5, <3>8, <3>9 DEF SerialInv, OneStarts
  <2>2. CASE ~ProcessGone(c)
    <3>1. cli' = [cli EXCEPT ![c] = Reported(p, "warning")] /\ UNCHANGED <<pc, lock>>
      BY <1>8, <2>2 DEF GivesUp
    <3> QED
      BY <1>0, <2>0, <3>1 DEF SerialInv, OneStarts, LockIsMine, StopIsAlone, SeenIsUpOrGone,
                              Up, Stopping, Reported, NoCommand
  <2> QED
    BY <2>1, <2>2
<1> QED
  BY <1>2, <1>3, <1>4, <1>5, <1>6, <1>7, <1>8

LEMMA SerialStep ==
  ASSUME SerialInv, [(\E p \in Port : Calm(p) /\ Begin(p)) \/ Continue]_vars
  PROVE  SerialInv'
<1>1. TypeOK'
  BY TypeStep, SerialIsNext DEF SerialInv
<1>2. CASE \E p \in Port : Calm(p) /\ Begin(p)
  <2>1. \/ \E d \in Pid : Calm(port[d]) /\ Spawn(d)
        \/ \E c \in Cli, d \in Pid : Calm(port[d]) /\ StartCommand(c, d)
        \/ \E c \in Cli, p \in Port : Calm(p) /\ StopCommand(c, p)
    BY <1>2, Zenon DEF Begin
  <2> QED
    BY <1>1, <2>1, CommandSerial
<1>3. CASE Continue
  BY <1>1, <1>3, DaemonStepSerial, CommandSerial DEF Continue
<1>4. CASE UNCHANGED vars
  <2>1. UNCHANGED <<port, lock, cli, pc>>
    BY <1>4 DEF vars, config
  <2> QED
    BY <1>1, <2>1, SerialFrame
<1> QED
  BY <1>2, <1>3, <1>4

(* While nobody starts or stops a daemon on a port before the last start   *)
(* or stop there is over, the lock file, the daemons and the stop commands *)
(* of a port agree (main.rs 24-42, 71; daemon.rs 17-50).                   *)
THEOREM SerialCommandsAgree == SerialSpec => []SerialInv
<1>1. Init => SerialInv
  BY SerialInit
<1>2. SerialInv /\ [(\E p \in Port : Calm(p) /\ Begin(p)) \/ Continue]_vars => SerialInv'
  BY SerialStep
<1> QED
  BY <1>1, <1>2, PTL DEF SerialSpec

(* The lock file of a port names the daemon that serves it (main.rs 24-42, *)
(* 71; daemon.rs 17-50).                                                   *)
THEOREM LockFileNamesServer == SerialSpec => []LockNamesServer
<1>1. SerialInv => LockNamesServer
  BY DEF SerialInv, LockIsMine, LockNamesServer, Up
<1> QED
  BY <1>1, SerialCommandsAgree, PTL

(* A stop command that reports success has stopped every daemon that       *)
(* served the port when it began (daemon.rs 33-46).                        *)
THEOREM StopCommandStops == SerialSpec => []StopStops
<1>1. SerialInv => StopStops
  BY DEF SerialInv, SeenIsUpOrGone, StopStops
<1> QED
  BY <1>1, SerialCommandsAgree, PTL
=============================================================================
