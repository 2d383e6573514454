# DC4C: a verification development

DC4C runs command lines ("tasks") on a cluster. A **register server**
(`dc4c_rserver`) knows which workers exist and which are busy. A **worker
server** (`dc4c_wserver`) runs one program at a time for one master. A
**master** is a program linked with the API (`dc4c_api`): it asks the register
server for workers, hands tasks to them and collects the answers. On top of the
API a DAG engine (`tfc/dag`) runs batches that depend on each other, and `hzbat`
runs the schedules of a business day with it, recording what it does in a
database. Every server is one process with one epoll loop; the API is single-threaded and uses
`select`. Concurrency is between processes: messages over TCP, connections that
are cut, processes that end and are forked again.

Paths below are relative to the repository root, which is `src/` in
`PROJECT.json` (so `src/src/rserver/app.c` is the register server's `app.c`).

## 1. Inventory

| Component | State it keeps | Operations | Interacts with |
|---|---|---|---|
| API, batch (`src/api/dc4c_api.c`) | `Dc4cApiEnv`: a session with `progress` per task, `prepare_count`, `running_count`, `finished_count`, `interrupt_code`, the unused nodes of the last query, connection to a register server | `DC4CDoBatchTasks`, `DC4CBeginBatchTasks`, `DC4CPerformBatchTasks`, `DC4CQueryWorkers`, `DC4CSetTasksFds`, `DC4CSelectTasksFds`, `DC4CProcessTasks`, `DC4CResetFinishedTasksWithError` | QWQ/QWP with a register server; EPQ, DPQ/DPP, EPP with workers |
| API, several batches | an array of environments | `DC4CDoMultiBatchTasks`, `DC4CPerformMultiBatchTasks`, `DC4CSelectMultiTasksFds` | as above, each environment with its own query |
| Register server (`src/rserver`) | sessions; three nested lists: operating systems, hosts, workers; per host `idler_count`, `working_count`; per worker `is_working`, `access_timestamp` | accept, close, WRQ, WNQ, QWQ, HBQ/HBP, output; the parent's fork | all others |
| Linked lists (`src/util/ListX.c`) | nodes with `prev`/`next` | add, insert, delete, detach, attach, swap | called by the register server |
| Worker server (`src/wserver`) | connect sessions (one for each register server, `WorkerLink`), accepted session (a master), executing session (a child process and its info pipe), `pid`, `epq`, deployed programs | connect, WRQ/WRP, WNQ, heartbeats both ways, accept, EPQ, DPQ/DPP, fork and wait, EPP | register server, masters, the child, other worker servers of the host through the file system |
| Socket sessions (`src/util/dc4c_util.c`) | receive and send buffer, lengths, flags, timestamps | open, set, reset, close; receive and send by length or by line, synchronous and asynchronous | used by all |
| DAG engine (`src/tfc/dag`) | batches with their predecessors and successors, `progress`, `executing_batches_tree`, `interrupt_code` | load, begin, perform, `MovedownExecutingTree`, unload | calls `DC4CPerformMultiBatchTasks` with callbacks |
| `hzbat` (`src/hzbat/hzbat.c`) | the tables: progress of schedules, batches, pretasks and tasks | all schedules, pretasks, load, callbacks that record, unload | the DAG engine, the batch API (pretasks), the database |
| Serializers, logging, tools, scripts, tests | none a property is about | | |

What is hard, by component, and what makes it correct:

* **Batch.** The scheduler never looks at the sessions to decide whether it is
  done or may start a task: it trusts three counters that every outcome of a
  task moves at a different place. Workers answer between any two of its steps;
  they refuse, eject, ask for the program, fail, or answer late. After an
  interrupt running tasks are to be waited for and nothing is to be started.
  Correct means: counters and sessions agree, at most `workers_count` tasks run,
  an outcome is final, 0 is returned only for a batch that was answered
  completely, and the call returns.
* **Register server.** `p1`, `p2` and `p3` of a session point into lists other
  sessions change and free. Counters are kept by differences. A worker that
  reconnects competes with its own old session. A query reorders the lists it
  walks. A broken message ends the process and every registration with it.
  Correct means: pointers and lists agree both ways, counters count, an answer
  names idle workers of the right system, once, and all there are; after faults
  every worker is registered again.
* **Worker server.** Three sessions and a child process that end in any order;
  a send buffer that notices overwrite; receive buffers that survive from one
  master to the next. Correct means: one program at a time, the answer goes to
  the master that asked, the register server is told the truth.
* **Sessions.** The length is read in pieces and any cut is possible; a session
  is used again for another connection. Correct means: whole messages, in order,
  none read with bytes of another.
* **Several batches, DAG.** One call carries on many environments and reports one
  event; a batch begins when the last of its predecessors was reported, whichever
  that is. Correct means: never before, and the call returns.
* **`hzbat`.** The process can die or lose a record between any two steps, and is
  then started again. Correct means: what is recorded is true, and what was
  finished is not executed again.

The list of hazards, each at its line and with the properties that would catch
it, is in `PROJECT.json`.

## 2. Modules and how they correspond to the code

### A batch of tasks

* **`TaskEnv`**: `struct Dc4cApiEnv` as a record `x`, and one operator for each
  place of `dc4c_api.c` that changes it (`BegunBatch`, `Started`,
  `FailedTask`, `EjectedTask`, `FinishedTask`, `ResetEnv`, ...). The operators
  are pure, so that the scheduler of several batches can apply them to one
  environment of an array. `Executing`, `Pending`, `Requeued` and `Done` are the
  tasks as the sessions show them; the counters are supposed to count them.
* **`BatchTasks`**: `DC4CDoBatchTasks` and the functions below it as a process.
  `pc` is the place in the loop of `DC4CPerformBatchTasks` (`perform`: its
  entry; `query`, `fill`, `select`, `timeouts`, `process`: the calls it makes).
  The loops of `DC4CSetTasksFds` and of `DC4CProcessTasks` take one step per
  task, because workers answer meanwhile. A worker is a value in `reply[t]`: the
  answer it has sent for task `t` and the master has not read. The registry is
  nondeterministic: any number of nodes up to the number asked for, or no answer.
  `Return` is the end of `DC4CPerformBatchTasks` together with what
  `DC4CDoBatchTasks` does with the code. `interrupt_code` and the unused nodes
  survive from one batch to the next, as in the code.
* **`BatchPromise`**: the abstract specification, without sessions, counters,
  nodes and messages: each task waits, runs, is done or failed; at most `width`
  run; none is given out while a failed one is there. `BatchTasks` implements it
  under the mapping `StatusOf` (`KeepsPromise`).

### The register server

* **`ListX`**: the list operations as functions of the sequence of nodes.
* **`Registry`**: the lists and counters as a record `r` and an operator per
  handler (`Registered`, `Noticed`, `Unregistered`) or per round of a loop
  (`Given` for one worker found by a query).
* **`RegisterServer`**: the server's sessions, and its clients as environment.
  A session is an index; `accepted[s]` is the client at the other end, `node[s]`
  the pointer `p3` (`None` also says that the session has no type yet),
  `inbox[s]` what the server has not read, `send_buffer[s]` what it has not
  sent. One event of the epoll loop is one step, with everything the handler
  changes; a query takes a step per worker found, and `query` keeps every other
  event out meanwhile. As in the code, a session with something to send is not
  read (the event mask is switched to output). `Ends` is the end of the process:
  registry, sessions and connections are gone, and `ForkAgain` is the parent's
  next `fork`. `link` and `progress` are what the clients know. A worker server
  registers when connected, closes on a refusal, and while it is `REGISTED` it has a
  notice to send whenever it turns busy or idle (`Turns`), beside heartbeats
  (`BeatsHeart`) and answers to them (`Hears`). All these go through its one
  `send_buffer`, `unsent[w]`: whatever it says or hears next takes the place of what
  it has not sent yet (`Replaces`), and `WorkerSends` sends what is there. Which
  workers turn, are asked for heartbeats and ask for them is chosen for each run
  (`Turning`, `Watched`, `Beating`).
* **`RegisterTurns`**: `RegisterServer` with the history variable the property
  about turns needs.
* **`RegisterNotices`**: `RegisterServer` with the history variable the property
  about notices needs, the workers whose last notice was replaced before it was sent.

### The worker server

* **`WorkerLink`**: the session to one register server as a record, and an
  operator for each function of `comm.c`, `app.c` and `proto.c` that changes it:
  `Connected` (`comm_AsyncConnectToRegisterServer`), `Output`, `Input`,
  `Noticed` (`app_SendWorkerNotice`), `HeartBeatRequest`, `Closed`. `Replaces`
  says when a message takes the place of a notice in `send_buffer`.
* **`WorkerServer`**: the process with all its sessions. `Round` is the top of
  the loop of `server()` up to `epoll_wait`: connecting, heartbeats, and the events
  the kernel has ready. `Handle` takes one of them, in any order, and has one
  disjunct per callback of `server()`. `accepted` is `accepted_session` with what
  is in its buffers, `executing` the info pipe's session with its `p1`, `pid` and
  `epq` what the code keeps of the child, `child[m]` the process itself. `at[m]`
  is the master's end: queued in the backlog, served, turned away, closed;
  `accepted.recv` says what its receive buffer holds between two messages: nothing,
  the part of a message that was cut off (`ReceivePart`), or a whole message that
  `proto` refused (`ProtoFails`: the pipe or the fork of `app_ExecuteProgram` failed,
  or a DPP came out of turn). Closing keeps it for the next master;
  `ReceiveAfterPart` is what it does to that one. `late` remembers masters accepted
  while an earlier program had not been waited for.

### Sessions

* **`SocketSession`**: one direction of a connection. A byte is the pair of its
  message and its place in it. `Wanted` is what the code asks `recv` for,
  `Pieces` what the kernel gives of it; `Reused` is what is left in the buffers
  when a connection ends, by program: the register server frees them, the API
  cleans them before it reads, the worker server keeps them.
* **`MessageChannel`**: the abstract specification, a queue of whole messages of
  which one waits to be sent and may be replaced. `SocketSession` implements it
  (`KeepsChannel`) unless the stream is broken, after which nothing is promised.

### Several batches, schedules and `hzbat`

* **`MultiBatchTasks`**: `DC4CPerformMultiBatchTasks` over the records and
  operators of `TaskEnv`, one record per environment. A step is the turn of one
  environment in one of the two loops: `OfferTasks` (`DC4CQueryWorkers` and
  `DC4CSetTasksFds`) and `GoOn`, `TaskFinishes`, `TaskFails` (`DC4CProcessTasks`),
  by what its workers answer.
* **`DagSchedule`**: loading (with the duplicate links the recursive loader makes
  behind a join), beginning, performing and unloading a schedule.
  `MovedownExecutingTree` is the function of that name with its callback-free part;
  `PerformedBatch` is the loop of `DC4CPerformDagSchedule` over what the call
  returned.
* **`Hzbat`**: the process with its database. `db` outlives it, everything else is
  lost in `Crash`. The tasks of a batch with a pretask are in the table only after
  its program has inserted them (`PretaskInserts`, `db.inserted`). Each callback
  writes and commits its own record, in the step of the API that calls it; a record
  may be lost (`Lost`), which the code rolls back and forgets. `answers` is what
  workers have really answered, and `unprepared` the batches that were passed on
  without their tasks.

`MCBatchTasks`, `MCRegisterServer`, `MCRegisterTurns`, `MCRegisterNotices`,
`MCSocketSession`, `MCWorkerServer` and `MCHzbat` hold the constants of the runs.

## 3. Runs

| Run | Configuration | Question and result |
|---|---|---|
| `batch_tasks` | one batch of 2 or 3 tasks, 2 workers, a query finds at most one node, one ejection, both settings of `DC4C_OPTIONS_INTERRUPT_BY_APP`, the second task of a batch of two has no program, the user may perform step by step and may reset a batch of two that was interrupted | Types, `CountersMatch`, `WorkersBound`, `RequeuedMeansInterrupted`, `ZeroMeansAllAnswered`, `DrainedOnInterrupt`, `OutcomeIsFinal`, and `KeepsPromise` hold (about 632 000 states) |
| `batch_returns` | two batches one after the other, of no task or two, one worker or as many as wanted, one ejection, `select` may fail, fairness | A call returns unless it is in one of the two states `Stuck` names; the meaning of 0 survives failing selects (226 348) |
| `batch_hang` | two tasks, failures interrupt, one ejection | Violation: the call may never return |
| `register` | two workers of one host that turn busy and idle, one of them with heartbeats both ways, a master that asks for one worker, three sessions, one fault | Types, `CountsMatch`, `PointersMatch` hold (2 286 574) |
| `register_queries` | two workers on one host and one on another, a master, four sessions, so that all can be registered when it queries; one of the workers turns; one fault, which may unregister any of them and free its host | `RegistryInShape`, `PointersMatch`, `AnswerIsUsable`, `AnswerIsComplete`, `WorkersTakeTurns` hold (684 176) |
| `register_comes_back` | one worker that turns, heartbeats both ways, two messages under way, two sessions, two faults, fairness | `NoticesTellTruth` and `WorkerStaysRegistered` hold (312 032) |
| `register_core` | two workers of one host that are asked for heartbeats, no master | Violation: lost heartbeats make the server dump core |
| `socket` | two messages at a time, of the shortest kind and with text, every program as the receiver, connections that break and are made again, fairness | Types, `NeverOverruns`, `CleanBetweenMessages`, `KeepsChannel`, `AllReceived` hold (28 157) |
| `worker` | three masters, which may go away inside a message; pipes and forks that may fail; no register server; fairness | `ProgramHasItsMaster`, `KillsItsProgram`, `ResultUnlessLate`, `WaitsOnlyIfLate`, `MasterAnswered` hold (132 039) |
| `worker_link` | one master, one register server, two faults of its connection, fairness | Types, `TruthUnlessReplaced`, `RegistersAgain` hold (101 901) |
| `schedule` | a join of three batches with a fourth behind it, one of them filtered out, two with pretasks that insert their tasks, one interrupting; a second schedule of one batch; one failure of any kind; two runs, of which each may be killed at any step | Types, `RecordsTellTruth`, `PredecessorsFirst`, `NeverAgain`, `SchedulesInOrder` hold (1 671 999) |
| `schedule_ends` | the same, one run, fairness | `NothingLeftExecuting`, `RunEndsUnlessStuck` hold (155 360) |

### Bounds, and why they are enough

* *Tasks and workers.* Three tasks on two workers let one task fail while
  another runs and a third waits, the case every branch on counters is about; a
  third and fourth task repeat a role. `CountersMatch`, `WorkersBound` and
  `RequeuedMeansInterrupted` are proved for every number.
* *`MaxBatches` = 2*, in `batch_returns`, shows what a batch inherits from the
  one before; *`MaxNodes`* is 1 in `batch_tasks`, so that a batch has to query
  again, and 2 in `batch_returns`, so that nodes are left over;
  *`MaxEjects` = 1* is one ejection, which is enough to put a task back after
  every kind of event; without a bound a task could be ejected for ever, which
  is behaviour of the environment and not of this code.
* *Sessions.* Three for two workers: the old session of one, its new one, and the
  other's. Two for the one worker of `register_comes_back`. Four in
  `register_queries`: three workers registered at once, and the master. *`MaxInbox`*
  bounds messages under way; two are enough for notices to queue behind each other.
  *`MaxFaults`* bounds connections lost, broken or closed, failing accepts, and
  answers to heartbeats that are replaced before they are sent: with two a worker can
  lose its connection, be refused as a duplicate and lose the next one.
* *`Turning`, `Watched`, `Beating`* leave out of a run what its properties do not
  need: heartbeats do not touch the registry but by closing a session, which a fault
  of `register_queries` does too; in `register` one of two workers has them.
* *`NodesSize`* = 2 is the size of the answer's array (the code's is larger): with
  three workers a query of all meets one more than it can hold. There is one
  operating system, so that a query for another one than a worker has is left to
  the proof of `AnswerIsUsable`.
* *`Masters` = 3*: the master whose program is late, the one that gets its
  answer, and one turned away meanwhile. `worker` has no register server and
  `worker_link` one master, since the connections touch the rest of the process
  only by notices.
* *`Pieces`* = {5, 9}: 5 bytes end inside the length, so that the code reads the
  length again and beyond it; 9 end inside the type; `recv` may also give all it
  was asked for. *`MaxMessages` = 2* is the least with a next message to be read
  into.
* *`TheDirections`* is the smallest graph with a join and a batch behind it, which
  the loader links twice. *`MaxFaults` = 1* in the runs of `hzbat`: one failed
  query, missing or unsent program, ejected task or lost record; each is followed
  by everything the rest of both runs can do. *`MaxRuns` = 2*: a run, and one that
  finds what it left.
* *Symmetry* is used in safety runs only. Sessions are interchangeable (the code
  takes any free one and no property names one); the two workers of a host
  are where both may do the same.

### Fairness, and why the code justifies it

* `BatchTasks`: weak fairness of `Api`, since the process only computes or waits
  in `select`, whose timeout ends; weak fairness of each worker's answer, since a
  worker that took a task answers or its connection is lost; strong fairness of a
  query that finds workers and of a node that accepts, since without them a
  batch rightly waits for ever. Nothing makes the user call again and nothing
  makes time run out, so the results do not lean on timeouts.
* `RegisterServer`: weak fairness of handling input and output of each session,
  of `app_HeartBeatRequest`, which runs in every round, of the loop of a query,
  of the parent's `fork`, and of a worker server's connect, which
  `app_HeartBeatRequest` of the worker server repeats for every closed
  connection, and of its sending what it has to send. Socket errors
  (`AcceptedSocketError`) are *not* fair: nobody is told of a connection that was cut,
  and only heartbeats find out. That the network loses an answer to a heartbeat again
  and again, or a worker replaces it each time, is excluded by `MaxFaults`.
* `SocketSession`: weak fairness of sending and of receiving what is there, as
  `epoll` reports it until it is done.
* `WorkerServer`: weak fairness of `Round` and of `Handle` (the process never
  stops), of the end of programs, of masters that deploy what they are asked for and leave
  with their answer, and of the time between heartbeats. Connections fall silent
  at most `MaxFaults` times, and nobody is told.
* `Hzbat`: weak fairness of the process (`Work`), strong fairness
  of starting some task of any batch and of ending one, since workers are found and
  answer again and again; nothing makes the user start `hzbat` again.

## 4. What the violations show

1. `batch_hang`. After an interrupt, `DC4CPerformBatchTasks` leaves its loop
   only when a task finishes; `running_count = 0` is tested at its entry only. If
   the last running task is ejected inside the loop
   (`DC4C_INFO_ALREADY_EXECUTING`), it waits, nothing runs, nothing may be
   started, and the loop sleeps and polls for ever.
2. `register_core`. `app_HeartBeatRequest` closes a session whose heartbeats were
   lost and goes on with it: closing frees `send_buffer`, and the heartbeat is
   written there. `Ends("core")` models the outcome; `WorkerStaysRegistered`
   nevertheless holds, because the parent forks the server again.

The model holds more that a reader of the code should know, and the properties say
it with an exception ("unless ..."), so that each run shows there is no other way:

* *A failing `select`.* `dc4c_api.c:973` assigns `nret` and not
  `select_return_count` to `interrupt_code`. `nret` is 0 there, so a failing
  `select` clears an interrupt, and a task that failed waits for a reset nobody
  asks for. `RequeuedMeansInterrupted` is false with `SelectMayFail`. In
  `DC4CPerformMultiBatchTasks` (1151) it clears the code of the last environment.
* *A reset without the option.* `DC4CResetFinishedTasksWithError` does not touch
  the counters. That is right for failures that interrupt, which stay counted as
  waiting; without the option the failed task was counted as finished, and the
  batch ends without executing it. `CountersMatch` is false when `MayReset` admits
  a batch without the option.
* *A result for the wrong master* (`ResultUnlessLate`). A master that goes away has
  its program killed, but the pipe is handled later; if the next master's EPQ is
  handled first, `app_ExecuteProgram` overwrites `executing_session` and `epq`,
  the old pipe stays in `epoll`, and its event reports the new task's result or
  blocks in `waitpid` until the new program ends (`WaitsOnlyIfLate`).
* *A message read behind an old one* (`CleanBetweenMessages`, `MasterAnswered`). The
  worker server cleans the receive buffer of the accepted session only after a whole
  message that `proto` accepted. A master cut off inside a message leaves its bytes to
  the next. When `proto` fails, because a pipe or a fork failed or a DPP came out of
  turn, `comm_OnAcceptedSocketInput` returns before `AfterDoProtocol`
  (`wserver/comm.c:345`), the whole message stays, and every later master is turned
  away with it: nothing cleans the buffer any more.
* *A notice replaced* (`TruthUnlessReplaced` of the worker server,
  `NoticesTellTruth` of the register server). There is one `send_buffer`; HBP, HBQ
  or an input handled before a notice is written take its place, and the register
  server keeps a worker as busy that is idle until it turns again.
* *A lost record of a pretask* (`RecordsTellTruth`, `PredecessorsFirst`). It ends the
  loop over the pretasks without an error (`hzbat.c:776`): the others are abandoned,
  their batches are loaded without the tasks they were to insert, finish at once, let
  their successors begin, and the schedule is recorded as finished. So does a worker
  that answers that it could not run the pretask.
* *A connection in progress* (`RegistersAgain`). `comm_AsyncConnectToRegisterServer`
  leaves it opened, not established; when the register server is silent then, no
  heartbeat watches it.
* *An interrupted environment of a schedule* whose last running task is ejected is
  the defect of `batch_hang` in `DC4CPerformMultiBatchTasks` (`RunEndsUnlessStuck`).

Two more came out of the proofs, as hypotheses that could not be spared, and TLC
finds both on a graph of three batches that the instances of section 3 leave out:

* *A link to the end before others* (`EndsLast`). The walk over the successors of a
  batch stops at a link to the end of the schedule (`dc4c_tfc_dag.c:549`). If another
  direction from that batch is configured behind it, the batch it leads to never
  begins, and the schedule is recorded as finished: `RecordsTellTruth` is false.
* *A begin that is not alone* (`BeginsAlone`). `DC4CBeginDagSchedule` begins every
  batch that a direction from the begin leads to and does not look at its other
  predecessors (636): `PredecessorsFirst` is false for a batch that has both.

Read while modelling, and outside what the instances reach: the loader of a schedule
leaves holes in `tasks_array` when the configuration marks tasks as finished
(`dc4c_tfc_dag.c:144`); an environment whose waiting tasks are all empty programs is
offered for ever without a node (`dc4c_api.c:1098`); a failing query returns with
the tasks of every batch still running (1106), which `hzbat` drains because it calls
again, and a user who does not call again leaves running; `hzbat` takes a batch
with a program that could not be run for finished, so that its successors start.

## 5. Proofs

TLAPS checks the following for every value of the constants that satisfies the
assumptions named in the modules: `BatchConstants`, `RegistryConstants` (every
worker has a host, every host an operating system), `ServerConstants`,
`WorkerConstants`, `SocketConstants`, `MultiConstants`, `DagConstants`,
`HzbatConstants`, that the value which stands for "no query" or "no answer" is
neither (`NoneIsNothing`), and that the directions of a schedule make no cycle
(`NoCycle`: the recursive loader would not end). They fix what the constants are
(sets, sequences, numbers, switches) and nothing about how many there are.

| Module | Theorem | States | Assumes besides |
|---|---|---|---|
| `BatchTasksProofs` | `TypeCorrect` | `[]TypeOK` | |
| | `CountersAlwaysMatch` | `[]CountersMatch` | R |
| | `WorkersAlwaysBounded` | `[]WorkersBound` | R |
| | `RequeuedAlwaysInterrupts` | `[]RequeuedMeansInterrupted` | S |
| | `ZeroAlwaysMeansAnswered` | `[]ZeroMeansAllAnswered` | R |
| | `InterruptsAlwaysDrain` | `[]DrainedOnInterrupt` | R |
| | `OutcomesAreFinal` | `OutcomeIsFinal` | |
| | `SchedulerKeepsPromise` | `KeepsPromise` (refines `BatchPromise`) | R, S |
| `RegisterServerProofs` | `RegisterTypeCorrect` | `[]TypeOK` | |
| | `RegistryAlwaysInShape` | `[]RegistryInShape` | |
| | `CountsAlwaysMatch` | `[]CountsMatch` | |
| | `PointersAlwaysMatch` | `[]PointersMatch` | |
| | `AnswersAlwaysUsable` | `[]AnswerIsUsable` | |
| | `AnswersAlwaysComplete` | `AnswerIsComplete` | |
| | `NoticesAlwaysTrue` | `[]NoticesTellTruth` (of `NoticesSpec`) | |
| | `WorkersAlwaysTakeTurns` | `WorkersTakeTurns` | |
| `WorkerServerProofs` | `WorkerTypeCorrect` | `[]TypeOK` | |
| | `ProgramAlwaysHasItsMaster` | `[]ProgramHasItsMaster` | |
| | `KillAlwaysHitsItsProgram` | `[]KillsItsProgram` | |
| | `ResultsAreOwnUnlessLate` | `[]ResultUnlessLate` | |
| | `NeverWaitsUnlessLate` | `[]WaitsOnlyIfLate` | |
| | `TruthAlwaysUnlessReplaced` | `[]TruthUnlessReplaced` | |
| `SocketSessionProofs` | `SessionTypeCorrect` | `[]TypeOK` | |
| | `AlwaysCleanBetween` | `[]CleanBetweenMessages` | |
| | `ReceiverNeverOverruns` | `[]NeverOverruns` | |
| | `SessionsKeepTheChannel` | `KeepsChannel` (refines `MessageChannel`) | |
| `HzbatProofs` | `HzbatTypeCorrect` | `[]TypeOK` | |
| | `SchedulesAlwaysInOrder` | `SchedulesInOrder` | |
| | `PredecessorsAlwaysFirst` | `PredecessorsFirst` | B |
| | `FinishedNeverAgain` | `NeverAgain` | |
| | `RecordsAlwaysTellTruth` | `[]RecordsTellTruth` | E |
| | `NothingIsLeftExecuting` | `[]NothingLeftExecuting` | |

R: failed tasks are reset only in batches whose failures interrupt. S: `select`
does not fail. Both are necessary: without them TLC finds the behaviours of
section 4 (a reset without the option, a failing `select`). B (`BeginsAlone`): to a
batch that a direction from the begin of its schedule leads to, no other leads. E
(`EndsLast`): of the directions from a batch the one to the end of the schedule is
the last. These are about what a user configures; the loader does not look at
either, and section 4 says what happens without them.

### The batch

* `TaskEnvTheorems` says of each operator of `TaskEnv` that it *keeps* the
  environment: `Kept(x, y)` is that `y` is well typed, has the tasks of `x`, and
  has right counters, a bounded `running_count` and (where failures interrupt)
  no ignored failure if `x` has. The argument for counters is the same each
  time: the three sets are finite and disjoint, a task leaves one of them and
  enters another (or none does), and the two counters move with it.
* `BatchTasksProofs` lifts this to steps: each action composes operators
  (`KeptTwice`), so `ApiKeeps`; a step of the user begins another batch, whose
  counters are right whatever was before, or resets failed tasks.
  `CountersMatch` alone is not inductive: `WorkersBound` needs that the counter
  `MayStart` compares is the number of running tasks, and a reset keeps the
  counters only if no failure was ignored. `CountersInv` is the conjunction.
* `RequeuedMeansInterrupted` needs only types: `Marked` is preserved because
  each operator that puts a failed task back is followed, in the same step, by
  `Interrupted` (`FailTaskMarks`), and the only place that clears the code
  resets every failed task (or is the failing `select`).
* What a call returns is about the tasks, but it is decided by the counters:
  `RetOK` says what `ret` means while no call is performed, and each of the
  returns keeps it because of `CountersInv` (no task is counted as waiting or as
  running, so none waits or runs).
* `OutcomeIsFinal` and the refinement rest on one lemma about the scheduler,
  `ApiLives`: a step gives one waiting task to a worker, takes one back, ends one,
  or moves none. A step of that kind is a step of `BatchPromise` or stutters,
  given that a requeued task has interrupted the batch (`LivesKeepsPromise`).

### The register server

* `ListXTheorems`: what each list operation does to the set of nodes, that it
  keeps a list free of duplicates, and which nodes stay in order.
* `RegistryTheorems` says of each operator of `Registry` that it keeps
  `RegistryOK`, that is types, `RegistryShape` and `CountsRight`, which
  workers are listed afterwards, and which of them stay in order (`LinedUp`).
  Registering, unregistering, a notice and a
  worker handed out all change one host: `HostChanged` is the argument they
  share, that a registry stays in order when the list of one host does and its
  counters change by as much as its idle and working workers.
* `RegisterServerProofs` has the inductive invariant `RegisterInv`: types,
  `RegistryOK`, `PointersMatch` and `SessionsOK`. The properties are not
  inductive alone. `Unregistered` keeps the registry only for a worker that is
  listed, which `PointersMatch` says of the pointer a closing session has;
  `Registered` and `Noticed` only for a worker, and `SessionsOK` says that only a
  worker's session carries WRQ or WNQ; and a session may be closed on its end of
  file because no client is connected to it any more. Each part has a lemma that
  every step keeps it (`RegistryStep`, `PointersStep`, `TypeStep`,
  `SessionsStep`); `KeepsSessions` names what a step must do to keep
  `SessionsOK` while no session is taken or closed, which is nearly all steps.
* `AnswerIsUsable` becomes inductive with `NamedOK`: a worker that is named was
  stamped with the second of the query, which is why it is not named again, and
  no event is handled in between that could make it busy. `AnswerIsComplete`
  follows from the shape of the registry when `FindNone` ends a query.
* `NoticesTellTruth` relates the registry, an inbox, an answer not yet sent, the
  worker and its `send_buffer`. `Told` says of a session that a registration is the
  first message of it and comes before every notice, that notices follow only on the
  session the registry points to, and that an answer "registered" finds the worker
  noted idle and no notice under way; and of a registered worker that it is the one
  its session points to, and that unless `replaced` has it the notice it still has to
  send, or else the last one under way, or else the registry, is right. A notice
  read is never the last word of a later one; that a notice cannot reach the
  registry through another session is `PointersMatch`. Without `replaced` the
  property is false, and TLC shows it.
* `WorkersTakeTurns`: `PassedOK` says that who was handed out while a worker
  waited stands behind it in the list. A worker handed out goes to the tail,
  every other operation keeps the others in order (`OrderStep`), and a query
  takes the first free worker of a host (`FoundFirst`).

### The worker server

`WorkerInv` is types, `ResultUnlessLate`, `TruthUnlessReplaced` and five parts.
`QueuesOK`: a master asks once and first. `ReadyOK`: an event that waits in the round
of `epoll` can still be handled when its turn comes, though an earlier event of the
round may have closed or turned sessions. `SessionsOK`: `p1` links the session of the
master and the one of the program from the start of the program until one of the
three ends, and while it does `pid` and `epq` are those of that master;
`ProgramHasItsMaster` and `KillsItsProgram` follow. `LateOK`: a program not
linked to the master that is there is an earlier one, and its master or the next is
in `late`; without such a one only the pipe of the present program is watched
(`WaitsOnlyIfLate`). `LinksOK`: a register server hears of work only on a
connection the worker is registered on.

### Sessions

`SessionInv` describes the bytes. `StreamOK`: what was received and not taken,
followed by what is on the way, is the whole messages that are in flight one after
the other, followed by the part of the buffer that is sent: there is a function
`pos` of the places where they begin (`Framed`). It says where messages begin
without a recursive function, so that a step gives the new witness: a byte sent
extends the last part, a message taken drops the first place. `ReceiverOK`: the
receiver knows a length as soon as it has a header and never holds a whole message.
`CleanBetweenMessages` is then that with nothing on the way no part of a message is
left (a whole one would have been taken), `NeverOverruns` that the receiver's length is that of the first message in
flight, and `KeepsChannel` that a message is received exactly when the receiver has
all of the first one.

### `hzbat`

Batches run through one another here, so the proof goes by *kinds* of steps and not
by actions. A turn of one environment keeps its counters and moves each of its tasks
in one of six ways (`Turned`); `TurnStep` is what the turns of the call have in
common, with what their callbacks record; `PerformedStep` is a call that has returned
with a batch, and the set of batches that begin after it. `EveryStep` says that each
step is of one of six such kinds, and the parts of `IInv` are proved for the kinds.

* What a batch does after a join depends on the data: which batches the recursive
  loader linked to which, how often, and in which order; which of them the walk over
  the links reaches; what the list of executing batches is after insertions and a
  deletion. `PostdependElements`, `Links`, `MovedToOK` and `MovedTree` say it for
  every graph, from `SelectedElements` (what a selection from a sequence has, in
  what order), which is proved by the least counterexample.
* `BatchOK` ties the progress of a batch to the list, to `finished_flag`, to the
  environment and to what the call has returned but nobody has looked at yet.
  `OrderOK`: the schedules passed over are recorded as finished, and the present one
  is not, so that it is the first that is not. `TasksOK`: a task recorded as
  finished is not one that waits or runs, which a lost record cannot break, since
  only the callback of its end records it. `AnswersOK`: what is done, recorded as
  finished, or left out by the loader has an answer. `PreparedOK`: the batches of a
  schedule that is loaded have their tasks inserted, or are in `Filtered` or
  `unprepared`, so that a batch loaded without its tasks is one of these. `RecordedOK`: in a first run
  that has lost nothing, what is recorded as executing executes.
* `PredecessorsFirst` speaks of all batches that lead to one, `BatchOK` of those
  that lead to it at once; the finished batches are a set that contains, with each
  of its members, what leads to it, and so contain all (no induction along paths).
* `RecordsTellTruth` needs that an end without an interrupt is the end of all
  batches. `WaitingOK`: a batch that has not begun waits for another one that is not
  finished; when nothing executes, the batches that are not finished would each have
  another before them, against `NoCycle` (`AllFinished`). This is where E is needed:
  without it a batch waits for nothing and never begins.

### What TLC checked of the invariants

The inductive invariants were checked as invariants before they were proved, on the
instances of the runs: `Told` on those of `register` and `register_comes_back`,
`NamedOK` on that of `register_queries`, `WorkerInv` on those of `worker` and
`worker_link` and on one of both together (two masters, a register server, a fault:
3 162 890 states), `SessionInv` on that of `socket`, and the parts of `IInv` and
`WaitingOK` on that of `schedule` and on a graph with double links, against which B
and E were tried as well.

### Only model-checked

* Liveness (`ReturnsUnlessStuck`, `WorkerStaysRegistered`, `AllReceived`,
  `MasterAnswered`, `RegistersAgain`, `RunEndsUnlessStuck`): fairness and `ENABLED`
  are out of the prover's reach.
* That the loader visits every batch (`Visits`, the second part of `NoCycle`), which
  follows from the first part by an induction over data: TLC evaluates it on the
  instance.

## 6. What is not modelled, and why

* `DC4CDoTask` (a batch of one), `DC4CDoMultiBatchTasks` (called only by a test),
  the getters (they change nothing), user callbacks other than those of the DAG
  engine, a `select` that fails for several batches, tasks without a program in a
  schedule, and allocations that fail.
* The register server's command line and HTML pages: they read the registry and
  change no state but their own session. `SIGTERM`.
* Of the worker server: the reuse of descriptors, `accept` and `epoll` that fail,
  its own restart, children of the program, the text of the info pipe, a
  send to a master that is cut into parts, the line protocol, and the directory of
  programs several servers of a host share under a lock of the file system: its
  race needs the file system's semantics, which are not in this code.
* Of the sessions: framing by line and by HTTP.
* Of `hzbat`: the modes that perform one schedule or one batch (they use
  the same functions without the loop over schedules), a database that cannot be
  read, and tables that anything but the programs of the pretasks changes while it
  runs.
* Message contents: messages are records of the fields the handlers look at;
  the generated JSON code is left out. `SocketSession` has the framing, and the
  other modules take whole messages, as `KeepsChannel` lets them.
* Serializers, logging, tools, scripts and tests keep no state the system's
  behaviour depends on.
* Time: a heartbeat may be sent whenever nothing was received and sent, which
  includes every timing of the 60 seconds; the seconds by which a worker that was
  handed out is reserved are `accessed` and `Tick`; a task's timeout is `overdue`.

## 7. Plan

1. `Cluster`: register server, two workers and two masters composed from the
   modules above at the level of messages: two masters given the same worker, one
   ejected and served elsewhere.
2. Proofs: that one environment of `MultiBatchTasks` implements `BatchPromise`, as
   the single batch does; what a run leaves to the next one, beyond the first run
   (`RecordedOK` says nothing of a run that was killed).

## 8. Running

    tlc -config BatchTasks.cfg MCBatchTasks      # likewise the other Batch*.cfg
    tlc -config Register.cfg MCRegisterServer    # likewise RegisterCore.cfg
    tlc -config RegisterQueries.cfg MCRegisterTurns
    tlc -config RegisterComesBack.cfg MCRegisterNotices
    tlc -config SocketSession.cfg MCSocketSession
    tlc -config WorkerServer.cfg MCWorkerServer  # likewise WorkerLink.cfg
    tlc -config Hzbat.cfg MCHzbat                # likewise HzbatEnds.cfg
    tlapm BatchTasksProofs.tla                   # and TaskEnvTheorems, ListXTheorems
    tlapm RegisterServerProofs.tla               # and RegistryTheorems
    tlapm WorkerServerProofs.tla
    tlapm SocketSessionProofs.tla
    tlapm HzbatProofs.tla

Mutants named in comments ("Mutant: ...") are plausible mistakes in the code;
`PROJECT.json` says for each property which mutant it detects.
