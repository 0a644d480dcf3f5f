# A verification of oxidium-forge-core

`forged` is a workflow engine: it deploys BPMN processes, starts instances of
them, hands their service tasks to workers as jobs and their manual tasks to
users, and keeps everything in one SQLite database behind a REST API. This
directory models it in TLA+, checks the models with TLC and proves theorems about
them with TLAPS. Paths below are relative to `src/crates/`.

## 1. The system

| Component | State | Operations | Talks to |
|---|---|---|---|
| Step engine `forge-engine/src/engine`, `handlers`, `instance.rs` | the execution (token) of an instance, inside one transaction | `start_instance`, `run_step`, one handler per node kind, `resolve_instance_status` | all tables |
| Jobs `forge-engine/src/jobs.rs`, `forge-store/src/jobs.rs` | `jobs`: activatable, activated (worker, lock), completed, dead | `activate_jobs`, `complete_job`, `fail_job` | calls `run_step` after a completion, `create_incident` when retries run out |
| Manual tasks `manual_tasks.rs` | `manual_tasks`: open, completed, cancelled | complete, cancel | calls `run_step`, or archives the instance |
| Incidents `incidents.rs` | `incidents`: active, resolved | `create_incident`, `resolve_incident` | resets the dead job |
| History `forge-store/src/history.rs`, `engine/archive.rs` | `..._history` tables | `archive_instance` | called by the end event and by a cancellation, in their transaction |
| Audit `forge-store/src/events.rs` | `process_events` | `append_event` | every operation |
| Gateway routing and mappings `handlers/gateway.rs`, `mapping.rs` | none | choose a flow, apply inputs and outputs | expressions |
| Definition registry `forge-store/src/definitions.rs`, `deployment.rs` | `process_definitions`: versions, one active | deploy, activate, `get_active` | `start_instance` reads it |
| BPMN `forge-bpmn` | none | parse, validate, compile | deployment |
| Expressions `forge-engine/src/expr` | none | tokenize, parse, eval | gateways, mappings |
| Store `pool.rs`, `migrate.rs` | the WAL database, `schema_migrations` | connect, migrate | all |
| Daemon `forged`, `forge-cli/src/ensure.rs`, `commands/daemon.rs` | lock file, process, socket | start, stop, restart, probe | store, CLI |
| REST API `forge-api` | none | one handler per route; the instance query reads three tables in turn | engine, store |
| CLI `forge-cli`, configuration `forge-model` | none | thin client, data | REST API |

What makes it hard:

* **Interleaving.** Every request is a future; between two `await`s any other
  request may run. `complete_job`, `fail_job`, `resolve_incident` and the manual
  task operations read their row, the instance and the execution *outside* the
  transaction that acts on them, and their `UPDATE ... WHERE key = ?` repeat none
  of the conditions. Activation is a `SELECT` and one autocommitted `UPDATE` per job.
* **Two transactions per completion.** The first completes the job and moves the
  token, the second (`run_step`) executes the nodes that follow. A crash, a closed
  connection (axum drops the future) or an error between them is never repaired:
  nothing is recovered at start-up.
* **SQLite.** One writer at a time; a transaction that has read cannot upgrade to a
  write when somebody committed since its snapshot or holds the lock; others wait
  until `busy_timeout`. `jobs`, `manual_tasks` and `executions` have foreign keys to
  `process_instances`, `incidents` and `variables` have none.
* **Time.** Locks expire and backoffs elapse; a worker that lost its lock may still
  answer, and its name is not compared.
* **Reads in pieces.** `GET /process-instances/{key}` is up to four reads outside a
  transaction, while the instance moves or is archived.
* **Processes.** Daemons check, write and remove a lock file without excluding each other,
  load the applied migrations before they run the missing ones, and may be killed anywhere.
* **Documents.** The parser keeps a stack over an event stream that it may have to skip parts
  of and that may end anywhere; what it decides depends on the order of the document.

The properties that make each part correct, and the hazards behind them with their
lines, are in `PROJECT.json` ("hazards") and section 4.

## 2. The modules

| Module | What it is |
|---|---|
| `RuntimeGraph` | the compiled graph as constants; gateway routing and mappings as operators |
| `Engine` | the engine over its tables, driven by concurrent requests |
| `EngineProps` | types, the inductive invariant, safety and liveness properties of `Engine` |
| `EngineProofs` | the theorems about `Engine` under every interleaving |
| `Workflow` | abstract: every instance is a token that moves, waits and ends |
| `EngineRefinement` | how the tables show that token, the clients that do not overlap, and the inductive invariants for them |
| `SerialProofs` | the theorems about those clients; the last one is the refinement of `Workflow` |
| `MCEngine`, `MCRouting` | instances for TLC |
| `InstanceQuery`, `QueryProofs`, `MCInstanceQuery` | the instance query beside a running `Engine`, its theorem, its instance |
| `DefinitionTable` | the rows of `process_definitions`, shared by the next two |
| `DefinitionRegistry` | abstract: deployments and activations are atomic |
| `Definitions` | the same, one action per SQL statement; implements `DefinitionRegistry` |
| `DefinitionsProofs` | the theorems about `Definitions` |
| `MCDefinitions` | its instance for TLC |
| `BpmnProcess` | the parsed process and, abstractly, how it is built: append only |
| `BpmnParser` | the parser, one action per event of the XML reader |
| `BpmnParserProps` | what the document means, the inductive invariant of the parser, the refinement of `BpmnProcess` |
| `BpmnProofs` | the theorems about the parser and about what a deployment makes of a document |
| `BpmnCompiler` | the validator and the compiler as operators on a parsed process; the compiled graph is an instance of `RuntimeGraph` |
| `CompilerProofs` | the theorems about validator and compiler on any process |
| `BpmnDeployment`, `MCBpmn` | composes parser, validator and compiler as `deploy` does; three sets of documents for TLC |
| `Daemon` | daemons on one database: lock, migrations, socket; start and stop commands |
| `DaemonProps`, `DaemonProofs`, `MCDaemon` | their properties, theorems and instances |
| `FeelLexer`, `FeelParser`, `FeelEval` | the expression language, each stage with a reference definition |
| `FeelProofs`, `MCFeel` | the theorems about all inputs of each stage, and the inputs up to a bound for TLC |

### Engine

A request is a record of `req`: `pc` names its next statement, `inst`, `key` and `at`
are what it read first (instance, row, element), `steps` counts the handlers of its
`run_step`. Every operation is a chain of actions:

| Operation | Actions |
|---|---|
| start | `StartInstance`, then run_step |
| complete a job | `CompleteJob` (read the row) , `CompleteJobLoad` (instance and flow), `CompleteJobFind` (execution), `CompleteJobTx`, then run_step |
| complete a manual task | `CompleteTask`, `CompleteTaskLoad`, `CompleteTaskFind`, `CompleteTaskTx`, then run_step |
| cancel a manual task | `CancelTask`, `CancelTaskLoad`, `CancelTaskTx` |
| fail a job | `FailJob`, `FailJobLoad`, then `FailJobRetry` or `FailJobDead` |
| resolve an incident | `ResolveIncident`, `ResolveIncidentTx` |
| activate jobs | `ActivateJobs` (SELECT), one `LockJob` per key |
| run_step | `BeginStep`, one `Handle...` per node, `InputMappingFails`, `MaxStepsReached` |
| answer | `ReadStatus`, `ReadStatusAgain` |

A transaction with a fixed list of statements is one action. SQLite makes that sound:
it holds the write lock from its first write, and a snapshot that went stale before
that is refused, which is the action `Abort`. `run_step` loops, so it is not one
action: it takes `writer` at `BeginStep` and gives it back when it commits; its effects
appear at the commit. `Busy`, `KeysExhausted`, `Abort` (statement error, stale
snapshot, disconnect) and `Crash` end requests and roll their transaction back.
`LockExpires` and `RetryDue` are time. `lost` is a history variable: the instances for
which a request ended inside `run_step`.

Abstractions:

* A row in a history table keeps its place with `archived` set; a statement on the
  runtime table does not see it (`Live`, `Updated`).
* The retry counter is the choice between `FailJobRetry` and `FailJobDead`, the backoff
  the flag `due`, the lock duration `live` or `expired`. The payload of a job is not
  kept: nothing reads it back.
* Element instances are the flag `left` of their job or task. Of the audit events only
  the terminal ones and those of gateway incidents are kept.
* A condition is absent, a test of one variable, or malformed; its evaluation is true,
  false (also for a value that is not Boolean) or an error. A malformed mapping is a
  mapping that reads an unknown variable. The targets of an output mapping are distinct.
* A request the code rejects at its first read changes nothing and is a stuttering step.
* One graph per instance of the module: `get_active` and `get_by_key` always find it.
* Branches no execution can reach are left out (a node missing from the graph, a second
  active execution).

### Definitions

A request is a record of `tx` with its own `view` of the table, taken at its first read
and published by `Commit`; `stale` says that somebody committed since. A write statement
needs `MayWrite`; otherwise the request is `Refused`. Parsing, validation and compilation
happen before `Deploy` and touch no shared state; they are the subject of the BPMN modules.

### Workflow

`Workflow` has the state a client sees: `phase`, `at` (the node of the token) and `data` (the
variables) of each instance. A token moves in one step from where it is to where it rests: at the
end of a route (`Leads`) of at most `MaxSteps` nodes, each the one its predecessor sends it `Onward`
to. A route is a function, not a recursive walk, so that the refinement can be proved.
`PhaseOf` in `EngineRefinement` reads the phase from the tables: `stuck` if the gateway of
the token raised an incident event, `waiting` if it has open work (dead jobs included), else
`moving`: between the two transactions of a completion, or stranded there. So a job, a lock,
a retry, an incident, an abort and a crash are all stuttering steps.

### InstanceQuery

Composes `Engine` with one query: `query` is the handler and its answer, with a field for each
list. Two history variables: `seen`, the snapshots of the asked instance at every moment since the
query began, and `failed`, the lists that could not be read. Elements are those of tasks (the engine
model keeps no others). `ListFails` is the `unwrap_or_default` of a list; what the answer says then is
not excused by a value, only by `failed`. A failed read of a row (an answer 500) changes nothing.

### BPMN

`BpmnParser` holds `stack`, `nodes`, `flows` and `process` as `ParseContext` does; `doc` and
`open` are history variables, the document so far. Start tags come from a set of records
(tag and attributes); `CanContain` restricts them to documents that follow the BPMN and Zeebe
schemas, and the end of the input may come at any time. An absent attribute is the same as
an empty one; names, the number of retries, namespaces (a tag stands for one), CDATA and
the reader's own errors are left out. `BpmnCompiler` is stated for any parsed process;
`BpmnDeployment` gives it the one of the parser, with the texts of conditions as conditions.
`From`, `Visited` and the rules give positions of offending elements, not messages; what
the compiler does with I/O mappings (a copy) is left out.

### Daemon

`pc` of a daemon follows `main`: `check`, `open` (the lock is about to be created), `content`
(created and empty), `load`, `migrate`, `serving`, `draining`. `orphan` is a lock file that was
removed while its writer still had it open. A build is a sequence of migration checksums;
`applied` is the map a daemon has loaded and `schema` the table. The INSERT is refused when
the version is already recorded (primary key). A process id is used once, and a process that
exits is gone at once (`Alive`): `kill(pid, 0)` also succeeds on a zombie, which a daemon is after its
exit as long as the command line client that spawned it (`ensure.rs`, which drops the `Child`) runs on
without reaping it; `forge` ends with its command, so that is a short time. Migration scripts
are idempotent (`IF NOT EXISTS`). Two daemons on two ports share the database, two on one
port also the lock. Commands are slots: a stop remembers the pid it read and, as history,
which daemons served when it began. Restart is a stop followed by a start.

### Expressions

Lexer and parser are functions of their input, so the state is the input alone; `MCFeel`
appends to it, and TLC visits every input of each stage up to the bound. Characters and tokens are classes (one
member stands for all that the code treats alike). The letters `n`, `r` and `t` are classes of their
own, for behind a backslash in a string they become a newline, a return and a tab (`Unescaped`); the
text of a string is the set of the characters pushed, each with its position. Trees are flat: an expression (`expr`) is the
sequence of its nodes, operands first, each with the positions of its operands, and a parse tree the
sequence of the nodes in the order in which `parser.rs` builds them, each with the tokens it is built
of. What the functions of the parser return is one function of the call (`Parser`): `parse_<level>`
at a position, or the rest of its loop. `FeelEval` compares the evaluations of an expression in every
scope; numbers are fractions, so rounding and overflow of f64 are outside the model, `EPSILON`
(`1 / Small`) is not.

## 3. The runs

| Run | Instance | What it shows |
|---|---|---|
| `MCEngineRaces` | review loop (manual, service, gateway with a default flow); 2 requests, 1 instance, 2 jobs, 2 tasks, 1 incident | what holds under every overlap of two requests |
| `MCEngineSerial` | review loop, 2 workers, 2 instances, 2 of everything; requests for one instance do not overlap | what the code keeps only then, the refinement of `Workflow` included |
| `MCRouting` | a graph with default, malformed, unmatched and looping gateways and mappings; fairness | types, the inductive invariant, liveness |
| `MCInstanceQuery` | review loop, one request, one query, reads that fail | what an answer can be relied on for |
| `MCDefinitions` | 2 processes, 4 definitions, 2 requests | the registry implements its abstract specification |
| `MCBpmn` | documents of 7 elements over 11 start tags; of 6 over 8 start tags, 2 texts each; every part of a process of 14 elements | the parsed process is the document; valid ones run and route |
| `MCDaemonStarts` | 3 daemons, 2 ports, 3 builds (one longer, one edited); fairness | migrations under every interleaving; a start leads to a daemon that serves |
| `MCDaemonSerial` | 4 daemons, 1 port, 2 builds, 2 commands that do not overlap | lock and stop |
| `MCFeel` | 14 character classes, up to 5; 12 token classes up to 5 tokens, 6 of operators up to 7; expressions of 3 nodes, of 4 logical ones, 2 variables | longest tokens, unescaped strings, the grammar, laws of the evaluator |
| `MCStolenLock` | loop over one service task, one job, two unrestricted requests | counterexample, section 5 |
| `MCDefaultBeforeGateway` | the documents of `MCBpmn` | counterexample, section 5 |
| `MCLostLock` | 2 daemons, 1 port, one stop command | counterexample, section 5 |

Bounds. Every key bound (`MaxInstances`, `MaxJobs`, `MaxTasks`, `MaxIncidents`,
`MaxDefinitions`) stands for the largest AUTOINCREMENT key: when it is reached the
`INSERT` fails and the request ends, which `KeysExhausted` or an abort models, so no
behaviour is cut. Two jobs and two tasks let a loop create a second item while a late
request still holds the key of the first; two incidents let a job die twice
(`MCEngineSerial`; `MCEngineRaces` has one, and that `DeadJobHasIncident` holds for any number is
proved). Two requests
are every pair of overlapping handlers, and no handler looks at more than one other.
`MaxSteps` is 3 instead of 1000: the loop of `MCRouting` exceeds it. Sets of requests and
processes are symmetric in runs without liveness only; `MCDaemonStarts` checks liveness, so it
orders the daemons of an initial state by port and build instead (`McInit`). Deadlock is not checked for the engine:
when all keys are used up and every instance has ended there is nothing left to request.

Seven elements are enough for a task with both kinds of extension, or with a nested foreign
subtree of two levels; six for two processes, or a gateway before and after its flow with a
condition in two pieces. Four daemons are one that serves, one that fails beside it, and two
more starts; two of each kind of migration let a daemon stop between them. Seven tokens hold
three binary operators, the least that shows precedence and associativity together; five
characters hold a string with an escaped quote or backslash, and a number with two points. The
whole processes of `MCBpmn` have a default flow before and after its gateway, a gateway with one to
four flows, malformed and missing conditions, a task without a type, two start events or none, and
flows that lead nowhere.

Overlap. `SerialSpec` of `EngineRefinement` restricts the *clients*: no two requests for one
instance in flight. It restricts nothing else: aborts, crashes, expired locks, late answers
of a worker that lost its lock, and requests for other instances interleave freely.

Fairness. `FairSpec` asks for weak fairness of `Proceed(r)`, the steps of a request that
was received. Tokio polls every ready future; a statement that waits for the write lock
proceeds or ends with `Busy` when `busy_timeout` runs out. Nothing is assumed of
clients, of crashes or of time. `FairSpec` of `Daemon` asks for weak fairness of
`DaemonStep(d)`: a daemon that is up runs `main` to the socket without waiting for
another process, and drains. It assumes nothing of signals, failures or commands.
`SerialSpec` of `Daemon` is an administrator who waits: no start or stop on a port while a daemon
is starting or a stop is under way there; failures happen at any time.

## 4. Properties

Under every interleaving (`MCEngineRaces`, `MCRouting`):

* `RuntimeRowsHaveInstance`: jobs, tasks and executions belong to a runtime instance.
* `DeadJobHasIncident`: a job without retries always has an active incident.
* `StrandedOnlyByLostStep`: an active instance waits for somebody, is parked at a gateway
  incident, or is about to be resumed, unless a `run_step` of it was cut off. So the gap
  between the two transactions is the *only* way to strand an instance.
* `AuditTellsTheEnd`, `StatusAlwaysFound`, `ArchiveIsFinal`: the terminal event agrees with
  the outcome, the status is always found, history never changes.
* `EveryRequestAnswered`, `EveryInstanceSettles`: no request hangs, and an instance comes
  to rest.

Only while requests for one instance do not overlap (`MCEngineSerial`): `OneOpenItem`,
`NoRowsLeftBehind`, `ActiveIncidentMeansDeadJob`, `FinishedStaysFinished`,
`LockIsExclusive`, `WorkCompletedOnce`, `CancelMeansCancelled`.

Of the registry (`MCDefinitions`): its inductive invariant `IInv`, `OneActive`, `VersionsCountDeployments`,
`StaysStartable`, and the refinement `RefinesRegistry`: whatever statements interleave,
the committed table changes as if deployments and activations were atomic.

Of the engine as a whole (`MCEngineSerial`): `RefinesWorkflow`, every step on an instance is a step
of its token game: it goes where its variables send it and only finished work moves it.

Of the instance query (`MCInstanceQuery`): `AnswerWasTrue`, the status and every list that could be read
was true, as a whole, at some moment of the query (the history of an instance that ended at one when it
had ended with that status), an existing instance is found, and a reported end is final. It says nothing
of a list that could not be read (section 5).

Of documents: `NodesMatch` and `FlowsMatch` (the process is what the document says, nothing leaks
from skipped or nested subtrees), `FindsTheProcess`, `RefinesBuilder`; `ValidDocumentIsRunnable` and
`DocumentRoutesByConditions` (a document without diagnostics meets what the engine assumes of its graph).

Of daemons: `ServesOwnSchema`, `MigratedOnce` under every interleaving; `SomeoneServes`, a start
leads to some daemon that serves unless one fails or stops after it, or had failed before it
while one that is still starting was. Without overlap: `LockNamesServer`, `StopStops`.

Of expressions: `LexesTheText` (longest tokens; a string holds its characters without the escaping
backslashes, with escaped `n`, `r`, `t` as control characters), `ParsesTheGrammar`; `ScopeMonotone` (a
condition that had an answer keeps it when variables are added), `DeMorgan`, `Trichotomy`.

Each property comes with a mutation of the code (definitions named `Mut...`) under which
TLC finds it violated.

## 5. Where the code and its words differ

| Run | Says | Does |
|---|---|---|
| `MCStolenLock` | `forge-store/src/jobs.rs:70` "Atomically select ... and lock them" | two overlapping activations both get the job |
| `MCDefaultBeforeGateway` | `forge-bpmn/src/parse.rs:391` "A flow is the default of a gateway if a gateway lists it as `default`. We mark is_default during the closing pass below" | there is no closing pass: a flow before its gateway is never its default |
| `MCLostLock` | `forge-cli/src/commands/daemon.rs:16` "stop a running daemon" | after two overlapping starts the lock may name the dead one: stop reports success and the other serves on |

Other differences met while modelling, which no run is kept for. Each follows from a definition named
here. TLC refutes the properties in brackets: those of the engine under `Spec`, the others as an
additional invariant of the run that is named.

* `forge-api/tests/it_manual_task.rs:222` "Second completion should fail ...": overlapping completions
  both commit (`CompleteTaskTx`; `WorkCompletedOnce` under `Spec`).
* `forge-engine/src/engine/archive.rs:5` "move all its rows into history": a late failure leaves an
  active incident of an ended instance (`FailJobDead`; `NoRowsLeftBehind` under `Spec`).
* `forge-engine/src/manual_tasks.rs:115` "Cancel an open manual task and move the instance to
  cancelled": a cancellation that was overtaken succeeds without doing so (`CancelTaskTx`;
  `CancelMeansCancelled` under `Spec`).
* `forge-engine/src/engine/step.rs:15` "the engine recorded an incident": a gateway writes an audit
  event only, nothing can be resolved (the phase `stuck` of `Workflow`, which has no way out).
* `forge-engine/src/handlers/events.rs:48` "Start events always have exactly one outgoing flow
  (validated by forge-bpmn)": no rule counts them, of two the engine only ever takes the first
  (`Diagnostics`, `FirstTarget`; `StartEventHasOneFlow` in `MCBpmn`).
* `forge-api/src/instances.rs:80` "return live state": a list that cannot be read is answered as an empty
  one, and so are both if the instance is archived after its row was read; the answer is then the state
  of no moment (`ListFails`; `ReturnsLiveState` in `MCInstanceQuery`).
* `forge-cli/src/commands/instance.rs:102` "Active elements:": the query
  (`forge-store/src/runtime.rs:284`) ignores the state, elements that were left are printed among them
  (`ElementsOf`; `ActiveElementsAreActive` in `MCInstanceQuery`).

## 6. Proofs

`EngineProofs` proves, for every graph, every number of requests, workers and keys, from
`GraphAssumption` and `EngineAssumption` (constants are of the right kind) alone:

| Theorem | States |
|---|---|
| `InductiveInvariant` | `Spec => []IInv` |
| `TypeCorrect` | `Spec => []TypeOK` |
| `NoOrphans` | `Spec => []RuntimeRowsHaveInstance` |
| `DeadJobsAreVisible` | `Spec => []DeadJobHasIncident` |
| `HistoryIsFinal` | `Spec => ArchiveIsFinal` |
| `AuditIsRight` | `Spec => []AuditTellsTheEnd` |
| `StatusIsFound` | `Spec => []StatusAlwaysFound` |
| `OnlyLostStepsStrand` | `Spec => []StrandedOnlyByLostStep` |

`IInv` is `TypeOK`, `Consistent`, `RuntimeRowsHaveInstance` and `DeadJobHasIncident`.
`Consistent` is the strengthening: what a request remembers still names the row it read
(`RequestOK`; a row never disappears and never changes its instance or element), rows name
existing rows (`RowsOK`), and whoever is inside `run_step` is the only writer and its
instance is active (`WriterOK`). Without `WriterOK` a handler could park a job for an
instance that was archived under it; without `RequestOK` a stale failure could attach its
incident to the wrong instance, and `DeadJobHasIncident` would not survive archiving.
The proof has one lemma for types per action, then three lemmas that say what any step does
to the rows of jobs, tasks and incidents (`JobsEffect`, `TasksEffect`, `IncidentsEffect`),
from which the four parts follow. The other theorems use `IInv`. `AuditIsRight` and
`StatusIsFound` add that jobs, tasks and resuming requests belong to instances that were
started (`WorkHasInstance`, `AnswerOK`): an instance that is not in the runtime table at the
first read has therefore ended, and nothing leaves the history. `OnlyLostStepsStrand` follows
an active instance across one step: its pending work disappears only with a completion that
resumes it (`JobStaysPending`, `TaskStaysOpen`), its token is moved only by a request that
goes on with it or leaves it waiting (`TokenMoves`), and a request that resumes it stops only
by leaving it waiting, ending it, or being cut off (`ResumedStep`). It is here that
`DeadJobHasIncident` is needed: a dead job is work only as long as an operator can find it.

`DefinitionsProofs` proves, for any number of processes, handlers and definitions, from
`RegistryAssumption` and `DefinitionsAssumption` (the sentinels are not values):

| Theorem | States |
|---|---|
| `InductiveInvariant` | `Spec => []IInv` |
| `AtMostOneActive` | `Spec => []OneActive` |
| `Refinement` | `Spec => RefinesRegistry` |
| `ProcessesStayStartable` | `Spec => StaysStartable` |
| `VersionsNumberDeployments` | `Spec => []VersionsCountDeployments` |

Here `IInv` is `TypeOK`, `TableOK`, `OneActive` and `TxOK` of every request. A commit
publishes a view, so `OneActive` alone is not inductive: `ViewOK` says what the view of a
transaction whose snapshot is the latest looks like after each statement, in terms of the
committed table, and `TxOK` that only such a transaction holds the write lock. `TableOK`
(versions without a gap, none above its key) makes `MAX(version) + 1` the version the
registry wants. `Commit` is then a deployment (`DeploymentPublished`) or an activation
(`ActivationPublished`) of the registry, and every other action leaves the table alone.
`VersionsNumberDeployments` is proved from the registry: its steps keep versions in the order
of their keys (`VersionsRise`), and rising versions without a gap are a bijection with `1..n`.

`DaemonProofs` proves, for any number of daemons, ports, commands, builds and migrations, from
`DaemonAssumption` (sentinels are not values, builds are no longer than `MaxVersion`):

| Theorem | States |
|---|---|
| `TypeCorrect` | `Spec => []TypeOK` |
| `SchemaInductive` | `Spec => []SchemaInv` |
| `ServingDaemonsKnowTheirSchema` | `Spec => []ServesOwnSchema` |
| `MigrationsStayRecorded` | `Spec => MigratedOnce` |

`ServesOwnSchema` is not inductive: it says nothing of a daemon half way through its
migrations. `SchemaInv` adds what such a daemon knows: the rows it has loaded are still in the
table, unchanged, and every migration before the one it is at is recorded with the checksum of its build.
Only `RunMigration` writes the table, and only a row that was not there, so what one daemon
knows survives the others.

Without overlap of commands (`Daemon!SerialSpec`), from the inductive invariant `SerialInv`
(TLC: 419,885 states of `MCDaemonSerial`):

| Theorem | States |
|---|---|
| `SerialCommandsAgree` | `SerialSpec => []SerialInv` |
| `LockFileNamesServer` | `SerialSpec => []LockNamesServer` |
| `StopCommandStops` | `SerialSpec => []StopStops` |

`LockNamesServer` survives a start only if nobody else is between its check of the lock and its
write (`OneStarts`) and the port of such a daemon has no server (`LockIsMine`); it survives a stop
only if the daemon that a stop signals is the only one of the port (`StopIsAlone`). `StopStops` needs
that the daemons seen when a stop began are the one it polls or are gone (`SeenIsUpOrGone`).

`SerialProofs` proves what the engine keeps only while requests for one instance do not overlap
(`SerialSpec` of `EngineRefinement`), for every graph and any number of clients, instances and rows:

| Theorem | States |
|---|---|
| `SerialInvariant` | `SerialSpec => []SerialInv` |
| `OneThingIsOpen` | `SerialSpec => []OneOpenItem` |
| `NothingLeftBehind` | `SerialSpec => []NoRowsLeftBehind` |
| `IncidentsAreForDeadJobs` | `SerialSpec => []ActiveIncidentMeansDeadJob` |
| `FinishedForGood` | `SerialSpec => FinishedStaysFinished` |
| `LocksAreExclusive` | `SerialSpec => LockIsExclusive` |
| `WorkIsCompletedOnce` | `SerialSpec => WorkCompletedOnce` |
| `CancelledMeansCancelled` | `SerialSpec => CancelMeansCancelled` |

`SerialInv` (TLC: 710,923 states of `MCEngineSerial`) is `IInv` and six parts. `ReadStillHolds` is
the heart: what a handler read before its transaction is still so when the transaction runs,
although its statements do not check it, because `NoOverlap` keeps everybody else away from the
instance (`OthersKeepMyRows`). The one exception is time: a lock expires in between, and completing
or failing a job does not care. Completions therefore act on work that is open, and
`OneThingToDo` and `ResumedIsDone` (what is not done of an instance is one row, at its token, and
nothing while `run_step` is to follow) survive: a completion finishes the only item and resumes,
a handler parks one item where there was none. `NoRowsLeftBehind` survives because no request
can still write rows of an instance that another one archives, and `ActiveIncidentMeansDeadJob`
because only `ResolveIncidentTx` revives a dead job, with its incident. The action properties
read off the guards that `ReadStillHolds` gives each transaction.

The last section of `SerialProofs` proves that the engine implements the token game:

| Theorem | States |
|---|---|
| `ImplementsWorkflow` | `SerialSpec => RefinesWorkflow` |

Five kinds of steps change anything the token game can see, each of one instance (`MovingSteps`,
`MovesAlone`, `Bystanders`): a start is `Start`, the first transaction of a completion is `FinishWork`,
the commit of `run_step` is `Arrive`, a cancellation is `Cancel`; every other step is invisible
(`Unseen`), among them aborts, crashes, locks, retries and incidents. `RefinementInv` (TLC: the same
710,923 states, and the graph of `MCRouting` without overlap) adds to `SerialInv` what the mapping
needs. `OnItsWay`: the loop of `run_step` has come along the route of the token, and has counted its
nodes, so that what it stops at is where the token comes to rest and the bound of both is the same.
`RaisedIsStuck`: nobody moves an instance on from a gateway that raised, else a stuck token would move.
`UsersGetManualTasks`: what a user may cancel waits at a manual task.

`QueryProofs` proves for the instance query, beside any number of overlapping requests, crashes
included (`QuerySpec`):

| Theorem | States |
|---|---|
| `AnswersAreTrue` | `QuerySpec => []AnswerWasTrue` |

`QueryInv` (TLC: 1,040,832 states of `MCInstanceQuery`) says of an answer in the making, for each point
between two reads, that each list read so far is that of a snapshot of the query, unless it is in
`failed`. It rests on `IInv` three times: rows name instances, so that an instance with elements exists;
they name an instance of the runtime table, so that elements read after the instance was archived are
none (`RuntimeElements`); and history is final, so that a status found there still holds when its elements
are read. The whole answer need not be of one moment: that is `ReturnsLiveState`, which fails.

`BpmnProofs` proves that the parser reads every document right, for any start tags and texts, any
length and any nesting, from `ParserAssumption` (the sentinel is not a value, start tags are tags, the
bounds are numbers):

| Theorem | States |
|---|---|
| `ParserInvariant` | `Spec => []ParserInv` |
| `NodesAreRight` | `Spec => []NodesMatch` |
| `FlowsAreRight` | `Spec => []FlowsMatch` |
| `ProcessIsFound` | `Spec => []FindsTheProcess` |
| `ParserBuilds` | `Spec => RefinesBuilder` |

What a document means is a count: an appended node is at the place its element has among the children
of the process (`Place`), and its entries at theirs, so that no induction over the document is needed.
`NodesMatch` alone is not inductive, for it says nothing of an element that is still open. `ParserInv`
(TLC: 3,882,445 states of `MCBpmn`) adds that the open elements are a path of the document (`DocOK`) and that
the item on the stack for each says what has been read of it (`StackOK`): its start tag unless it is
skipped, the text of its condition, its type, its entries so far. A start tag, a text or an end tag
writes one item, the right one because at most one task is on the stack, at a depth that is known
(`Depths`); `apply_task_definition` and `apply_io_mapping`, which search the stack downwards, can meet no
other. This is where the proof needs that documents nest as BPMN and Zeebe say (`CanContain`): the parser
would take a `taskDefinition` outside the extension elements for one of the task all the same. What a closed element
means never changes again, and the children of the process close in document order (`EndElements`), so
what has been appended stays right and in place.
`ParserBuilds` follows: a step appends one node or one flow that the builder may add, or none
(`StepAppends`), and a condition has no more texts than its element.

`CompilerProofs` proves of every process, whatever the number of its nodes and flows, from `CompilerOK`
(conditions are tests or malformed, the sentinels are not values, there are names and values) and
`TypeOK` of `BpmnProcess`; `BpmnProofs` applies it to what the parser returned, from
`ParserAssumption` and `DeploymentAssumption` (the same of the conditions a document may have):

| Theorem | States |
|---|---|
| `SearchIsComplete` | `Step(fs, Visited(fs, start)) = Visited(fs, start)` |
| `ValidCompiles` | `ValidGraphIsRunnable` |
| `ValidRoutes` | `RoutesByConditions` |
| `ValidDocumentsRun` | `Spec => []ValidDocumentIsRunnable` |
| `DocumentsRoute` | `Spec => []DocumentRoutesByConditions` |

The search of the seventh rule is a recursive function of the number of levels, defined only up to the
number of flows. The library's induction takes an operator, so facts about it are proved by the least
number that a *set* lacks (`UpTo`). A level that is not closed has an id more than the one before, and
there are no more ids than flows, besides the start; so the last level is closed, and every closed set
with the start contains it (`VisitedInClosed`). The flows of a node are numbered in document order by
counting (`NthCounts`), and `Leaving` says that they are all there and nothing else is. The parts of
`GraphOK` then follow from one rule each: the flows stay inside the graph by `INVALID_FLOW_REF`, the
start can be left because the end event is reached from it (`StartCanBeLeft`). Ids are assumed to be
distinct, as in a valid XML document: of several nodes with one id the compiler keeps the last, and no
rule reports it. For routing, a flow without condition at a gateway with several is a default flow by
`MISSING_CONDITION`, so the scan (`Scan`, `NoFirstStop`) stops at a
condition or not at all, unless there is one flow only. The theorems
about documents need that what the parser returned is a process (`ParsedIsProcess`), and that the
compiler of a deployment is the one the theorems are about (`SameCompiler`, operator by operator).

`FeelProofs` proves of the expression language, for texts, token sequences and expressions of any length,
any names and any numbers, from the types of the inputs (`IsText`, `IsTokens`, `IsExpression`) and
`EvalAssumption` (values are FEEL values, the tolerance is positive):

| Theorem | States |
|---|---|
| `EveryTextIsLexed` | `IsText => LexesTheText` |
| `EverySentenceIsParsed` | `IsTokens => ParsesTheGrammar` |
| `AnswersAreKept` | `IsExpression => ScopeMonotone` |
| `DeMorgansLaw` | `IsExpression => DeMorgan` |
| `NumbersCompare` | `IsExpression => Trichotomy` |

Lexer, parser and evaluator are recursive functions, and so is the grammar. A function defined by
itself is a `CHOOSE`, of which nothing is known until some function satisfies the equation. Each of
these refers to itself only at arguments of a smaller rank, a natural number, and `RankRecursion`
constructs it from the approximations up to a rank. `RankInduction` then takes the place of induction:
the arguments for which a statement fails are a *set*, and a non-empty one has a member of least rank.
Both rest on the library's `NatLessThanWellFounded`, and no operator is a parameter.

* Texts: a string ends at the first quote that is not escaped, and whether a character is escaped
  is the parity of the backslashes before it (`EscapedFurtherOn`), where the code looks one character
  ahead. What it pushes for each is what the escape means (`Pushed` against `Meant`). What a scan from a position returns is what the rest of the text says (`ScannedFurtherOn`,
  `StringScans`), the longest run is where the class changes (`LongestRun`), and `Lexes` puts tokens together.
* Sentences: what the parser accepts is in the grammar (`Sound`): a call that succeeds returns a
  derivation of what it has consumed, and the loop of a level extends *any* derivation before it. What is
  in the grammar is accepted, with its tree (`Complete`), and needs the look-ahead: no derivation of a
  higher level starts with a prefix operator (`SentencesStart`), an operator of a level continues no
  operand of a higher one (`ContinuesShape`). A call reads a derivation to its end if what follows does
  not continue it (`ReadsAlone`). For a left-associative level that alone is not inductive, for in
  `a - b - c` the derivation of `a - b` is followed by an operator of its level; `ReadsOn` says that the call
  then has the derivation and goes on as its loop does there. Unambiguity follows, as a call has one result.
* Values: an operand that was an error becomes a value in the larger scope, and a binary operator that
  answered anyway, by short circuit, gives the same answer (`BinaryMonotone`).

Only model-checked: liveness (`EveryRequestAnswered`, `EveryInstanceSettles`, `SomeoneServes`), which is out
of the prover's reach, as it needs ENABLED. Every other property of a passing run is a theorem.

## 7. Not modelled, and the plan

Not modelled: the CLI except its daemon commands, and logging (no state); configuration (a chain of
overrides read once; note that `forged` takes its file from the environment, and the
`--config` argument that `ensure.rs` could pass is not read); list endpoints and the event log (single
reads); reuse of process ids; f64 rounding; SQLite's date arithmetic for locks and backoffs; names,
retries and CDATA of a document; the choice of a version by a start (its read is the moment it takes effect).

Next: numeric edges of locks and backoffs as values instead of flags.
