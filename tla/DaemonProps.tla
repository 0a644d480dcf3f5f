----------------------------- MODULE DaemonProps -----------------------------
(***************************************************************************)
(* What daemons on one database, and the commands that manage them, must   *)
(* guarantee.                                                              *)
(***************************************************************************)
EXTENDS Daemon

(* The values of the daemons' local state, the lock files, the table       *)
(* schema_migrations and the commands (main.rs, migrate.rs, daemon.rs).    *)
Checksum == {NoSql} \cup UNION {{Sql[b][v] : v \in DOMAIN Sql[b]} : b \in Build}

TypeOK ==
  /\ pc \in [Pid -> PC] /\ port \in [Pid -> Port] /\ build \in [Pid -> Build]
  /\ applied \in [Pid -> [Version -> Checksum]]
  /\ next \in [Pid -> 1..(MaxVersion + 1)]
  /\ schema \in [Version -> Checksum]
  /\ lock \in [Port -> Pid \cup {Absent, Empty}]
  /\ cli \in [Cli -> Command]
  /\ disturbed \subseteq Pid

(* The inductive invariant: what a daemon has read of the table is still   *)
(* there, the migrations before the one it is at are those of its build,   *)
(* and when it serves it is past the last one (migrate.rs 31-75).          *)
SchemaInv ==
  /\ TypeOK
  /\ \A d \in Pid :
       /\ \A v \in Version : applied[d][v] # NoSql => schema[v] = applied[d][v]
       /\ \A v \in 1..Len(Sql[build[d]]) : v < next[d] => schema[v] = Sql[build[d]][v]
       /\ pc[d] \in {"serving", "draining"} => next[d] > Len(Sql[build[d]])

(* A daemon that serves finds in the database every migration of its       *)
(* build, as its build has it, however many daemons of other builds        *)
(* migrate the database at the same time (migrate.rs 31-75).               *)
ServesOwnSchema ==
  \A d \in Pid : pc[d] \in {"serving", "draining"} =>
    \A v \in 1..Len(Sql[build[d]]) : schema[v] = Sql[build[d]][v]

(* A migration that is recorded is never run over or taken back: the table *)
(* only grows (migrate.rs 51-72).                                          *)
MigratedOnce ==
  [][\A v \in Version : schema[v] # NoSql => schema'[v] = schema[v]]_vars

(* Starting a daemon works: there is one that serves in the end, whatever  *)
(* locks and half migrated schemas earlier daemons left behind, and        *)
(* although daemons that start together make each other fail; unless one   *)
(* fails or stops after this start, or did so before it while a daemon was *)
(* starting that still is (main.rs 24-68, migrate.rs 40-75).               *)
SomeoneServes ==
  \A d \in Pid : pc[d] = "check" ~> d \in disturbed \/ \E e \in Pid : pc[e] = "serving"

-----------------------------------------------------------------------------
(* For commands that do not overlap (SerialSpec).                          *)

Up(d) == pc[d] \in {"serving", "draining"}
Stopping(c) == cli[c].at \in {"kill", "poll"}

(* One daemon at a time is on its way up to a port, and none loses its     *)
(* lock file while it writes it (main.rs 24-42).                           *)
OneStarts ==
  /\ \A d, e \in Pid : port[d] = port[e] /\ pc[d] \in Starting /\ pc[e] \in Starting => d = e
  /\ \A d \in Pid : pc[d] # "orphan"

(* Who has written the lock file still finds its name there, and who is    *)
(* past the check of the lock shares the port with no server.              *)
LockIsMine ==
  \A d \in Pid : /\ pc[d] \in {"load", "migrate"} \/ Up(d) => lock[port[d]] = d
                 /\ pc[d] \in {"open", "content"} =>
                      \A e \in Pid : Up(e) => port[e] # port[d]

(* While a stop command signals and polls, the port has no daemon but the  *)
(* one it read from the lock file (daemon.rs 17-50).                       *)
StopIsAlone ==
  \A c \in Cli : Stopping(c) =>
    \A d \in Pid : port[d] = cli[c].port =>
      pc[d] \notin Starting /\ (Up(d) => d = cli[c].pid)

(* Those a stop command saw serving still do or have ended; once it has    *)
(* reported success they have ended.                                       *)
SeenIsUpOrGone ==
  \A c \in Cli : \A d \in cli[c].seen :
    /\ Stopping(c) => port[d] = cli[c].port /\ (Up(d) \/ pc[d] = "gone")
    /\ cli[c].report = "stopped" => pc[d] = "gone"

SerialInv == TypeOK /\ OneStarts /\ LockIsMine /\ StopIsAlone /\ SeenIsUpOrGone

(* The lock file names the daemon that serves its port, so that stop and   *)
(* status find it, whichever daemons failed before (main.rs 24-42, 71;     *)
(* daemon.rs 17-50).                                                       *)
LockNamesServer ==
  \A d \in Pid : pc[d] \in {"serving", "draining"} => lock[port[d]] = d

(* "`forge daemon stop` — stop a running daemon" (daemon.rs 16): a stop    *)
(* command that reports success leaves none of the daemons running that    *)
(* served the port when it began (daemon.rs 33-46).                        *)
StopStops ==
  \A c \in Cli : cli[c].report = "stopped" =>
    \A d \in cli[c].seen : pc[d] = "gone"
=============================================================================
