------------------------------- MODULE Daemon -------------------------------
(***************************************************************************)
(* The life of daemons (forged main.rs, lifecycle.rs, shutdown.rs) on one  *)
(* database: the lock file of a port, the migrations of the schema         *)
(* (forge-store migrate.rs), the listening socket, and the start and stop  *)
(* commands of forge-cli that spawn, signal and clean up after them.       *)
(* Every file operation, database transaction and signal is a step of its  *)
(* own; a daemon may fail or be killed between any two.                    *)
(***************************************************************************)
EXTENDS Naturals, Sequences

CONSTANTS
  Pid,         \* process ids; each is used by one daemon, once
  Port,
  Build,       \* builds of forged, which may embed different migrations
  Sql,         \* the checksums of the migrations of a build, in order
  MaxVersion,  \* the longest of them
  NoSql,       \* no row in schema_migrations
  Absent,      \* no lock file
  Empty,       \* a lock file that is created but not written yet
  Cli,         \* slots for start and stop commands
  NoPort, NoPid

Version == 1..MaxVersion

ASSUME DaemonAssumption ==
  /\ Absent \notin Pid /\ Empty \notin Pid /\ Absent # Empty
  /\ MaxVersion \in Nat
  /\ \A b \in Build : /\ DOMAIN Sql[b] = 1..Len(Sql[b])
                      /\ Len(Sql[b]) \in 0..MaxVersion
                      /\ \A v \in 1..Len(Sql[b]) : Sql[b][v] # NoSql

VARIABLES
  pc, port, build,  \* of every daemon
  applied,    \* the schema_migrations rows it has read
  next,       \* the migration it is at
  schema,     \* table schema_migrations: the checksum of every version
  lock,       \* the lock file of every port
  cli,        \* the commands
  disturbed   \* history: the daemons that had started when one last failed
              \* or stopped, and those that started while one of them still was

config == <<port, build>>
vars == <<pc, port, build, applied, next, schema, lock, cli, disturbed>>

(* "content": the lock file is open and empty; "orphan": the same, but the *)
(* file was removed and what is written to it is never seen.               *)
Starting == {"check", "open", "content", "orphan", "load", "migrate"}
PC == {"off", "gone", "serving", "draining"} \cup Starting

(* at: where a command is; report: what the last one printed; seen: the    *)
(* daemons that served the port when a stop command began.                 *)
Command == [at : {"idle", "kill", "poll", "wait"}, port : Port \cup {NoPort},
            pid : Pid \cup {NoPid}, seen : SUBSET Pid,
            report : {"", "running", "failed", "stopped", "not running", "unknown", "warning"}]

NoCommand == [at |-> "idle", port |-> NoPort, pid |-> NoPid, seen |-> {}, report |-> ""]

Init ==
  /\ pc = [d \in Pid |-> "off"]
  /\ port \in [Pid -> Port] /\ build \in [Pid -> Build]
  /\ applied = [d \in Pid |-> [v \in Version |-> NoSql]]
  /\ next = [d \in Pid |-> 1]
  /\ schema = [v \in Version |-> NoSql]
  /\ lock = [p \in Port |-> Absent]
  /\ cli = [c \in Cli |-> NoCommand]
  /\ disturbed = {}

(* kill(pid, 0) = 0                                                        *)
Alive(d) == pc[d] \notin {"off", "gone"}

(* A request to the port is answered: GET /health.                         *)
Healthy(p) == \E d \in Pid : pc[d] = "serving" /\ port[d] = p

Started == {d \in Pid : pc[d] # "off"}

(* Removing the file of port p makes an orphan of every open handle to it. *)
Orphaned(f, p) ==
  [d \in Pid |-> IF f[d] = "content" /\ port[d] = p THEN "orphan" ELSE f[d]]

-----------------------------------------------------------------------------
(* main of forged.                                                         *)

MutAnyLock(d) == lock[port[d]] \in Pid
MutNoCheck(d) == FALSE

(* The lock names a live process; an unreadable lock is no obstacle.       *)
AlreadyRunning(d) == lock[port[d]] \in Pid /\ Alive(lock[port[d]])

CheckLock(d) ==
  /\ pc[d] = "check"
  /\ pc' = [pc EXCEPT ![d] = IF AlreadyRunning(d) THEN "gone" ELSE "open"]
  /\ UNCHANGED <<config, applied, next, schema, lock, cli, disturbed>>

OpenLock(d) ==
  /\ pc[d] = "open"
  /\ lock' = [lock EXCEPT ![port[d]] = Empty]
  /\ pc' = [pc EXCEPT ![d] = "content"]
  /\ UNCHANGED <<config, applied, next, schema, cli, disturbed>>

LockContent(d) == d

WriteLock(d) ==
  /\ pc[d] \in {"content", "orphan"}
  /\ lock' = IF pc[d] = "content" THEN [lock EXCEPT ![port[d]] = LockContent(d)] ELSE lock
  /\ pc' = [pc EXCEPT ![d] = "load"]
  /\ UNCHANGED <<config, applied, next, schema, cli, disturbed>>

LoadApplied(d) ==
  /\ pc[d] = "load"
  /\ applied' = [applied EXCEPT ![d] = schema]
  /\ pc' = [pc EXCEPT ![d] = "migrate"]
  /\ UNCHANGED <<config, next, schema, lock, cli, disturbed>>

MutNeverMismatch(d) == FALSE
Mismatch(d) == applied[d][next[d]] # Sql[build[d]][next[d]]

Recorded(d) == applied[d][next[d]] # NoSql

SkipMigration(d) ==
  /\ pc[d] = "migrate" /\ next[d] <= Len(Sql[build[d]]) /\ Recorded(d)
  /\ IF Mismatch(d) THEN pc' = [pc EXCEPT ![d] = "gone"] /\ disturbed' = Started /\ UNCHANGED next
     ELSE next' = [next EXCEPT ![d] = @ + 1] /\ UNCHANGED <<pc, disturbed>>
  /\ UNCHANGED <<config, applied, schema, lock, cli>>

MutReplace(d) == TRUE

(* The PRIMARY KEY of schema_migrations lets the INSERT through.           *)
NotYetRun(d) == schema[next[d]] = NoSql

(* One transaction: the SQL, which is idempotent, and the INSERT.          *)
RunMigration(d) ==
  /\ pc[d] = "migrate" /\ next[d] <= Len(Sql[build[d]]) /\ ~Recorded(d)
  /\ IF NotYetRun(d)
     THEN /\ schema' = [schema EXCEPT ![next[d]] = Sql[build[d]][next[d]]]
          /\ next' = [next EXCEPT ![d] = @ + 1]
          /\ UNCHANGED pc
     ELSE /\ pc' = [pc EXCEPT ![d] = "gone"]
          /\ UNCHANGED <<schema, next>>
  /\ UNCHANGED <<config, applied, lock, cli, disturbed>>

(* bind fails while another process listens on the port.                   *)
Bind(d) ==
  /\ pc[d] = "migrate" /\ next[d] > Len(Sql[build[d]])
  /\ pc' = [pc EXCEPT ![d] = IF Healthy(port[d]) THEN "gone" ELSE "serving"]
  /\ UNCHANGED <<config, applied, next, schema, lock, cli, disturbed>>

(* What a signal does: the handler is installed when the daemon serves.    *)
Signalled(f, d) ==
  [f EXCEPT ![d] = IF @ \in {"serving", "draining"} THEN "draining"
                   ELSE IF @ \in Starting THEN "gone" ELSE @]

(* Ctrl-C, or SIGTERM from elsewhere.                                      *)
Shutdown(d) ==
  /\ pc[d] = "serving"
  /\ pc' = Signalled(pc, d) /\ disturbed' = Started
  /\ UNCHANGED <<config, applied, next, schema, lock, cli>>

(* The last connection is gone: the lock is removed, whoever it names.     *)
RemoveLock(d) ==
  /\ pc[d] = "draining"
  /\ lock' = [lock EXCEPT ![port[d]] = Absent]
  /\ pc' = Orphaned([pc EXCEPT ![d] = "gone"], port[d])
  /\ disturbed' = Started
  /\ UNCHANGED <<config, applied, next, schema, cli>>

(* An error on the way up (file, database), or a kill: the lock stays.     *)
Fail(d) ==
  /\ Alive(d)
  /\ pc' = [pc EXCEPT ![d] = "gone"] /\ disturbed' = Started
  /\ UNCHANGED <<config, applied, next, schema, lock, cli>>

DaemonStep(d) ==
  \/ CheckLock(d) \/ OpenLock(d) \/ WriteLock(d) \/ LoadApplied(d)
  \/ SkipMigration(d) \/ RunMigration(d) \/ Bind(d) \/ RemoveLock(d)

-----------------------------------------------------------------------------
(* forge-cli: start (ensure_daemon_running), stop; restart is both.        *)

SpawnDaemon(d) ==
  /\ pc' = [pc EXCEPT ![d] = "check"]
  /\ disturbed' = IF \E e \in disturbed : pc[e] \in Starting
                  THEN disturbed \cup {d} ELSE disturbed

(* forged is started by hand.                                              *)
Spawn(d) ==
  /\ pc[d] = "off"
  /\ SpawnDaemon(d)
  /\ UNCHANGED <<config, applied, next, schema, lock, cli>>

Reported(p, text) == [NoCommand EXCEPT !.port = p, !.report = text]

StartCommand(c, d) ==
  /\ cli[c].at = "idle" /\ pc[d] = "off"
  /\ IF Healthy(port[d])
     THEN cli' = [cli EXCEPT ![c] = Reported(port[d], "running")]
          /\ UNCHANGED <<pc, disturbed>>
     ELSE /\ cli' = [cli EXCEPT ![c] = [NoCommand EXCEPT !.at = "wait", !.port = port[d]]]
          /\ SpawnDaemon(d)
  /\ UNCHANGED <<config, applied, next, schema, lock>>

(* A poll finds the daemon healthy, or the deadline passes.                *)
StartEnds(c) ==
  /\ cli[c].at = "wait"
  /\ \/ Healthy(cli[c].port) /\ cli' = [cli EXCEPT ![c] = Reported(@.port, "running")]
     \/ ~Healthy(cli[c].port) /\ cli' = [cli EXCEPT ![c] = Reported(@.port, "failed")]
  /\ UNCHANGED <<pc, config, applied, next, schema, lock, disturbed>>

StopCommand(c, p) ==
  /\ cli[c].at = "idle"
  /\ LET seen == {d \in Pid : pc[d] = "serving" /\ port[d] = p} IN
     \/ /\ lock[p] \in Pid
        /\ cli' = [cli EXCEPT ![c] = [NoCommand EXCEPT !.at = "kill", !.port = p,
                                        !.pid = lock[p], !.seen = seen]]
        /\ UNCHANGED <<pc, lock>>
     \/ /\ lock[p] = Absent
        /\ cli' = [cli EXCEPT ![c] = Reported(p, "not running")]
        /\ UNCHANGED <<pc, lock>>
     \/ /\ lock[p] = Empty
        /\ cli' = [cli EXCEPT ![c] = Reported(p, "unknown")]
        /\ lock' = [lock EXCEPT ![p] = Absent]
        /\ pc' = Orphaned(pc, p)
  /\ UNCHANGED <<config, applied, next, schema, disturbed>>

Kill(c) ==
  /\ cli[c].at = "kill"
  /\ pc' = Signalled(pc, cli[c].pid)
  /\ cli' = [cli EXCEPT ![c].at = "poll"]
  /\ disturbed' = Started
  /\ UNCHANGED <<config, applied, next, schema, lock>>

MutAlwaysGone(c) == TRUE
ProcessGone(c) == ~Alive(cli[c].pid)

Stopped(c) == [cli[c] EXCEPT !.at = "idle", !.report = "stopped"]

SeesRemoval(c) ==
  /\ cli[c].at = "poll" /\ lock[cli[c].port] = Absent
  /\ cli' = [cli EXCEPT ![c] = Stopped(c)]
  /\ UNCHANGED <<pc, config, applied, next, schema, lock, disturbed>>

(* After twenty polls the file is removed if the process is gone.          *)
GivesUp(c) ==
  /\ cli[c].at = "poll" /\ lock[cli[c].port] # Absent
  /\ IF ProcessGone(c)
     THEN /\ cli' = [cli EXCEPT ![c] = Stopped(c)]
          /\ lock' = [lock EXCEPT ![cli[c].port] = Absent]
          /\ pc' = Orphaned(pc, cli[c].port)
     ELSE /\ cli' = [cli EXCEPT ![c] = Reported(@.port, "warning")]
          /\ UNCHANGED <<pc, lock>>
  /\ UNCHANGED <<config, applied, next, schema, disturbed>>

-----------------------------------------------------------------------------
Begin(p) ==
  \/ \E d \in Pid : port[d] = p /\ Spawn(d)
  \/ \E c \in Cli, d \in Pid : port[d] = p /\ StartCommand(c, d)
  \/ \E c \in Cli : StopCommand(c, p)

Continue ==
  \/ \E d \in Pid : DaemonStep(d) \/ Shutdown(d) \/ Fail(d)
  \/ \E c \in Cli : StartEnds(c) \/ Kill(c) \/ SeesRemoval(c) \/ GivesUp(c)

Next == (\E p \in Port : Begin(p)) \/ Continue

Spec == Init /\ [][Next]_vars

(* A daemon that is up keeps going: nothing it waits for on the way up     *)
(* depends on another process, and connections end.                        *)
Fairness == \A d \in Pid : WF_vars(DaemonStep(d))

FairSpec == Spec /\ Fairness

(* What an administrator who waits does: no start and no stop on a port    *)
(* before the last one there is over.                                      *)
Calm(p) ==
  /\ \A d \in Pid : port[d] = p => pc[d] \notin Starting
  /\ \A c \in Cli : cli[c].port = p => cli[c].at \notin {"kill", "poll"}

SerialSpec == Init /\ [][(\E p \in Port : Calm(p) /\ Begin(p)) \/ Continue]_vars
=============================================================================
