---------------------------- MODULE BatchTasks ----------------------------
(***************************************************************************)
(* DC4CDoBatchTasks: one master process that runs a batch of tasks on the  *)
(* workers a registry offers it (src/src/api/dc4c_api.c).                  *)
(*                                                                         *)
(* DC4CDoBatchTasks begins the batch and calls DC4CPerformBatchTasks until *)
(* that reports the batch finished or an error that is neither TIMEOUT nor *)
(* APP.  DC4CPerformBatchTasks loops over DC4CQueryWorkers,                *)
(* DC4CSetTasksFds, DC4CSelectTasksFds and DC4CProcessTasks; pc says where *)
(* in that loop the process is, and the two loops over the tasks take one  *)
(* step per task (cursor), because workers answer in between.  The workers *)
(* and the registry are the environment: a worker that got a task answers  *)
(* into reply[t], the registry answers a query with any number of nodes.   *)
(***************************************************************************)
EXTENDS TaskEnv

CONSTANTS
    TasksCounts,    \* the numbers of tasks a batch may have
    WorkersCounts,  \* the workers_count arguments, 0 is UNLIMITED
    ByApp,          \* the values of DC4C_OPTIONS_INTERRUPT_BY_APP explored
    EmptyTasks,     \* EmptyTasks[n]: the tasks without a program in a batch
                    \* of n tasks
    MaxNodes,       \* the nodes a registry returns when asked for all
    StepByStep,     \* whether the user calls DC4CPerformBatchTasks again
    MayReset,       \* the batches, <<by_app, tasks_count>>, whose failed
                    \* tasks the user resets in between
    SelectMayFail,  \* whether select may be interrupted
    MaxBatches,     \* bound: the calls of DC4CDoBatchTasks
    MaxEjects       \* bound: the times workers answer ALREADY_EXECUTING

ASSUME BatchConstants ==
    /\ TasksCounts \subseteq Nat
    /\ WorkersCounts \subseteq Nat
    /\ ByApp \subseteq BOOLEAN
    /\ MaxNodes \in Nat
    /\ StepByStep \in BOOLEAN
    /\ MayReset \subseteq BOOLEAN \X Nat
    /\ SelectMayFail \in BOOLEAN
    /\ MaxBatches \in Nat
    /\ MaxEjects \in Nat

VARIABLES
    env,        \* the Dc4cApiEnv
    pc,         \* where the process is
    cursor,     \* task_index of the loop the process is in
    read_fds,   \* the tasks whose sessions select found readable
    ret,        \* what the last DC4CDoBatchTasks returned
    reply,      \* what each executing task's worker has sent, not yet read
    deployed,   \* the tasks whose worker has already asked for the program
    overdue,    \* the executing tasks whose alive_timeout has run out
    batches,    \* the DC4CDoBatchTasks calls so far
    ejects      \* the ALREADY_EXECUTING answers so far

vars == <<env, pc, cursor, read_fds, ret, reply, deployed, overdue,
          batches, ejects>>

workerVars == <<reply, deployed, overdue, ejects>>
userVars == <<ret, batches>>

Task == TasksOf(env)

Pcs == {"idle", "perform", "query", "fill", "select", "timeouts", "process"}

\* NO_REPLY: nothing to read; LOST: end of file or a broken message.
Replies == {"NO_REPLY", "DPQ", "OK", "STATUS", "NOT_RUN",
            "ALREADY_EXECUTING", "LOST"}

Init ==
    /\ \E byApp \in ByApp : env = NewEnv(byApp)
    /\ pc = "idle"
    /\ cursor = 1
    /\ read_fds = {}
    /\ ret = NoInterrupt
    /\ reply = [t \in 1..0 |-> "NO_REPLY"]
    /\ deployed = {}
    /\ overdue = {}
    /\ batches = 0
    /\ ejects = 0

-----------------------------------------------------------------------------
(* The user of the API.                                                     *)

\* DC4CDoBatchTasks up to its loop.
DoBatchTasks(n, w) ==
    /\ pc = "idle"
    /\ batches < MaxBatches
    /\ batches' = batches + 1
    /\ env' = BegunBatch(env, n, w)
    /\ pc' = "perform"
    /\ IF n = 0 THEN UNCHANGED <<reply, deployed, overdue>>
       ELSE /\ reply' = [t \in 1..n |-> "NO_REPLY"]
            /\ deployed' = {}
            /\ overdue' = {}
    /\ UNCHANGED <<cursor, read_fds, ret, ejects>>

\* DC4CQueryWorkers called for all workers before the first batch, the way
\* the test programs do to learn how many there are.
QueryAllWorkers(k) ==
    /\ pc = "idle"
    /\ env.prepare_count = 0
    /\ env.running_count = 0
    /\ env.finished_count = 0
    /\ env.interrupt_code = NoInterrupt
    /\ env' = GotWorkers(env, k)
    /\ UNCHANGED <<pc, cursor, read_fds, userVars, workerVars>>

\* A user of the step-by-step functions may call DC4CPerformBatchTasks again
\* whatever it returned.
PerformAgain ==
    /\ StepByStep
    /\ pc = "idle"
    /\ batches > 0
    /\ pc' = "perform"
    /\ UNCHANGED <<env, cursor, read_fds, userVars, workerVars>>

\* DC4CResetFinishedTasksWithError, to try the failed tasks again.
ResetFinishedTasksWithError ==
    /\ <<env.by_app, env.tasks_count>> \in MayReset
    /\ pc = "idle"
    /\ env' = ResetEnv(env)
    /\ UNCHANGED <<pc, cursor, read_fds, userVars, workerVars>>

\* Mutant: DC4CDoBatchTasks does not look at interrupt_code at the end.
ReturnZero(code, x) ==
    /\ cursor' = 1
    /\ read_fds' = {}
    /\ IF code \in {"TASK_FINISHED", "TIMEOUT", "APP"}
       THEN pc' = "perform" /\ UNCHANGED ret
       ELSE /\ pc' = "idle"
            /\ ret' = IF code = "BATCH_FINISHED" THEN NoInterrupt ELSE code

\* DC4CPerformBatchTasks returns code, and its locals end: DC4CDoBatchTasks
\* calls it again after a finished task, a timeout or a failed program, and
\* returns otherwise.
Return(code, x) ==
    /\ cursor' = 1
    /\ read_fds' = {}
    /\ IF code \in {"TASK_FINISHED", "TIMEOUT", "APP"}
       THEN pc' = "perform" /\ UNCHANGED ret
       ELSE /\ pc' = "idle"
            /\ ret' = IF code = "BATCH_FINISHED" THEN x.interrupt_code ELSE code

-----------------------------------------------------------------------------
(* DC4CPerformBatchTasks.                                                   *)

\* Mutant: an interrupted batch returns without waiting for running tasks.
PerformWithoutDrain ==
    /\ pc = "perform"
    /\ IF \/ env.prepare_count = 0 /\ env.running_count = 0
          \/ env.interrupt_code # NoInterrupt
       THEN Return("BATCH_FINISHED", env)
       ELSE pc' = "query" /\ UNCHANGED <<cursor, read_fds, ret>>
    /\ UNCHANGED <<env, batches, workerVars>>

\* The checks before the loop.
Perform ==
    /\ pc = "perform"
    /\ IF \/ env.prepare_count = 0 /\ env.running_count = 0
          \/ env.interrupt_code # NoInterrupt /\ env.running_count = 0
       THEN Return("BATCH_FINISHED", env)
       ELSE pc' = "query" /\ UNCHANGED <<cursor, read_fds, ret>>
    /\ UNCHANGED <<env, batches, workerVars>>

NoQueryNeeded ==
    /\ pc = "query"
    /\ ~WantsWorkers(env)
    /\ pc' = "fill"
    /\ UNCHANGED <<env, cursor, read_fds, userVars, workerVars>>

\* DC4CQueryWorkers that only makes sure of the connection: the batch is
\* interrupted or there are nodes left.
QueryNotSent ==
    /\ pc = "query"
    /\ WantsWorkers(env)
    /\ env.interrupt_code # NoInterrupt \/ env.unused > 0
    /\ env' = RServerConnected(env)
    /\ pc' = "fill"
    /\ UNCHANGED <<cursor, read_fds, userVars, workerVars>>

\* DC4CQueryWorkers that gets k nodes.
QueryAnswered(k) ==
    /\ pc = "query"
    /\ WantsWorkers(env)
    /\ env.interrupt_code = NoInterrupt
    /\ env.unused = 0
    /\ k <= QueryCount(env)
    /\ env' = GotWorkers(env, k)
    /\ pc' = "fill"
    /\ UNCHANGED <<cursor, read_fds, userVars, workerVars>>

\* No registry can be connected, or the connected one does not answer.
QueryFails ==
    /\ pc = "query"
    /\ WantsWorkers(env)
    /\ ~env.rserver \/ (env.interrupt_code = NoInterrupt /\ env.unused = 0)
    /\ env' = RServerClosed(Interrupted(env, "CONNECT"))
    /\ Return("CONNECT", env')
    /\ UNCHANGED <<batches, workerVars>>

-----------------------------------------------------------------------------
(* DC4CSetTasksFds: the loop that gives waiting tasks to nodes.             *)

\* Mutant: the loop takes every task that is not executing for a waiting one.
NextNotExecuting(t) ==
    /\ t \in cursor..env.tasks_count
    /\ env.progress[t] # EXECUTING
    /\ \A u \in cursor..(t - 1) : env.progress[u] = EXECUTING

NextWaiting(t) ==
    /\ t \in cursor..env.tasks_count
    /\ env.progress[t] = WAITFOR_CONNECTING
    /\ \A u \in cursor..(t - 1) : env.progress[u] # WAITFOR_CONNECTING

Filling(t) ==
    /\ pc = "fill"
    /\ MayStart(env)
    /\ NextWaiting(t)

SkipEmpty(t) ==
    /\ Filling(t)
    /\ t \in EmptyTasks[env.tasks_count]
    /\ env' = SkippedEmpty(env, t)
    /\ cursor' = t + 1
    /\ UNCHANGED <<pc, read_fds, userVars, workerVars>>

\* Every node left refuses the connection: the loop is left.
AllNodesRefuse(t) ==
    /\ Filling(t)
    /\ t \notin EmptyTasks[env.tasks_count]
    /\ env' = NodesRefused(env, env.unused)
    /\ cursor' = env.tasks_count + 1
    /\ UNCHANGED <<pc, read_fds, userVars, workerVars>>

\* k nodes refuse and the next one accepts, for the three steps below.
Reached(t, k) ==
    /\ Filling(t)
    /\ t \notin EmptyTasks[env.tasks_count]
    /\ k < env.unused

\* proto_ExecuteProgramRequest finds no program to compute the MD5 of.
ProgramNotFound(t, k) ==
    /\ Reached(t, k)
    /\ env' = Interrupted(ProgramMissing(NodesRefused(env, k), t),
                          "FILE_NOT_FOUND")
    /\ Return("FILE_NOT_FOUND", env')
    /\ UNCHANGED <<batches, workerVars>>

\* The request cannot be sent: the task stays waiting, and the node is still
\* the next one to be used.
SendFails(t, k) ==
    /\ Reached(t, k)
    /\ env' = NodesRefused(env, k)
    /\ cursor' = t + 1
    /\ UNCHANGED <<pc, read_fds, userVars, workerVars>>

Start(t, k) ==
    /\ Reached(t, k)
    /\ env' = Started(NodesRefused(env, k), t)
    /\ reply' = [reply EXCEPT ![t] = "NO_REPLY"]
    /\ deployed' = deployed \ {t}
    /\ overdue' = overdue \ {t}
    /\ cursor' = t + 1
    /\ UNCHANGED <<pc, read_fds, userVars, ejects>>

\* The end of DC4CSetTasksFds.  With no session to wait for
\* (DC4C_INFO_NO_RUNNING) the caller sleeps a second and selects nothing.
FillDone ==
    /\ pc = "fill"
    /\ ~MayStart(env) \/ \A t \in cursor..env.tasks_count :
                              env.progress[t] # WAITFOR_CONNECTING
    /\ IF Executing(env) = {} THEN pc' = "timeouts" ELSE pc' = "select"
    /\ cursor' = 1
    /\ UNCHANGED <<env, read_fds, userVars, workerVars>>

(* DC4CSelectTasksFds                                                       *)
Select ==
    /\ pc = "select"
    /\ read_fds' = {t \in Executing(env) : reply[t] # "NO_REPLY"}
    /\ pc' = "timeouts"
    /\ UNCHANGED <<env, cursor, userVars, workerVars>>

\* select is interrupted: interrupt_code is set to the 0 that
\* DC4CSetTasksFds returned, not to the error that is returned.
SelectFails ==
    /\ SelectMayFail
    /\ pc = "select"
    /\ env' = Interrupted(env, NoInterrupt)
    /\ Return("SELECT", env')
    /\ UNCHANGED <<batches, workerVars>>

-----------------------------------------------------------------------------
(* DC4CProcessTasks.                                                        *)

NothingToProcess ==
    /\ pc = "timeouts"
    /\ env.prepare_count = 0
    /\ env.running_count = 0
    /\ env' = RServerClosed(env)
    /\ Return("BATCH_FINISHED", env')
    /\ UNCHANGED <<batches, workerVars>>

TimedOut == IF env.by_app THEN Executing(env) \cap overdue ELSE {}

\* CloseSocket on the session of task t: what its worker sends is lost.
SessionClosed(t) ==
    /\ reply' = [reply EXCEPT ![t] = "NO_REPLY"]
    /\ deployed' = deployed \ {t}
    /\ overdue' = overdue \ {t}
    /\ UNCHANGED ejects

\* Task t fails with err: its session is closed, the batch is interrupted and
\* DC4CPerformBatchTasks returns err.
FailTask(t, err) ==
    /\ env' = RServerClosed(Interrupted(FailedTask(env, t, err), err))
    /\ SessionClosed(t)
    /\ Return(err, env')
    /\ UNCHANGED batches

TaskTimeout(t) ==
    /\ pc = "timeouts"
    /\ t \in TimedOut
    /\ \A u \in TimedOut : t <= u
    /\ FailTask(t, "TIMEOUT")

NoTimeout ==
    /\ pc = "timeouts"
    /\ env.prepare_count # 0 \/ env.running_count # 0
    /\ TimedOut = {}
    /\ pc' = "process"
    /\ UNCHANGED <<env, cursor, read_fds, userVars, workerVars>>

Readable == {t \in read_fds \cap Executing(env) : t >= cursor}

\* t is the next task of the loop whose session is readable, with answer r.
Reads(t, r) ==
    /\ pc = "process"
    /\ t \in Readable
    /\ \A u \in Readable : t <= u
    /\ reply[t] = r

ReadFails(t) == Reads(t, "LOST") /\ FailTask(t, "SEND_OR_RECEIVE")

\* The worker has another version of the program, and gets this one.
DeployProgram(t) ==
    /\ Reads(t, "DPQ")
    /\ reply' = [reply EXCEPT ![t] = "NO_REPLY"]
    /\ cursor' = t + 1
    /\ UNCHANGED <<env, pc, read_fds, userVars, deployed, overdue, ejects>>

\* The program cannot be read or cannot be sent.
DeployFails(t) ==
    /\ Reads(t, "DPQ")
    /\ \E err \in {"DEPLOY", "SEND_OR_RECEIVE"} : FailTask(t, err)

\* The worker executes a task of another master.
TaskEjected(t) ==
    /\ Reads(t, "ALREADY_EXECUTING")
    /\ env' = EjectedTask(env, t)
    /\ SessionClosed(t)
    /\ cursor' = t + 1
    /\ UNCHANGED <<pc, read_fds, userVars>>

StatusInterrupts(t) ==
    /\ Reads(t, "STATUS")
    /\ env.by_app
    /\ FailTask(t, "APP")

TaskFinishes(t, r, p, err) ==
    /\ Reads(t, r)
    /\ env' = FinishedTask(env, t, p, err)
    /\ SessionClosed(t)
    /\ Return("TASK_FINISHED", env')
    /\ UNCHANGED batches

StatusIgnored(t) ==
    ~env.by_app /\ TaskFinishes(t, "STATUS", FINISHED_WITH_ERROR, "STATUS")

Answered(t) ==
    \/ TaskFinishes(t, "OK", FINISHED, "NONE")
    \/ TaskFinishes(t, "NOT_RUN", FINISHED, "NOT_RUN")

ProcessDone ==
    /\ pc = "process"
    /\ Readable = {}
    /\ pc' = "query"
    /\ cursor' = 1
    /\ read_fds' = {}
    /\ UNCHANGED <<env, userVars, workerVars>>

-----------------------------------------------------------------------------
(* The workers and the clock.                                               *)

\* A worker asks for the program at most once for a task, stores it before it
\* can fail to, and turns a master away before anything else.
WorkerAnswers(t, r) ==
    /\ t \in Executing(env)
    /\ reply[t] = "NO_REPLY"
    /\ r \in {"OK", "STATUS", "LOST"}
             \cup (IF t \in deployed THEN {"NOT_RUN"}
                   ELSE IF ejects < MaxEjects THEN {"DPQ", "ALREADY_EXECUTING"}
                                              ELSE {"DPQ"})
    /\ reply' = [reply EXCEPT ![t] = r]
    /\ deployed' = IF r = "DPQ" THEN deployed \cup {t} ELSE deployed
    /\ ejects' = IF r = "ALREADY_EXECUTING" THEN ejects + 1 ELSE ejects
    /\ UNCHANGED <<env, pc, cursor, read_fds, userVars, overdue>>

TimeRunsOut(t) ==
    /\ env.by_app
    /\ t \in Executing(env) \ overdue
    /\ overdue' = overdue \cup {t}
    /\ UNCHANGED <<env, pc, cursor, read_fds, userVars, reply, deployed, ejects>>

-----------------------------------------------------------------------------
User ==
    \/ \E n \in TasksCounts, w \in WorkersCounts : DoBatchTasks(n, w)
    \/ \E k \in 0..MaxNodes : QueryAllWorkers(k)
    \/ PerformAgain
    \/ ResetFinishedTasksWithError

Query ==
    \/ NoQueryNeeded
    \/ QueryNotSent
    \/ \E k \in 0..QueryCount(env) : QueryAnswered(k)
    \/ QueryFails

Fill ==
    \/ \E t \in Task :
         \/ SkipEmpty(t)
         \/ AllNodesRefuse(t)
         \/ \E k \in 0..env.unused :
              ProgramNotFound(t, k) \/ SendFails(t, k) \/ Start(t, k)
    \/ FillDone

Process ==
    \/ NothingToProcess
    \/ NoTimeout
    \/ ProcessDone
    \/ \E t \in Task :
         \/ TaskTimeout(t)
         \/ ReadFails(t)
         \/ DeployProgram(t)
         \/ DeployFails(t)
         \/ TaskEjected(t)
         \/ StatusInterrupts(t)
         \/ StatusIgnored(t)
         \/ Answered(t)

Api == Perform \/ Query \/ Fill \/ Select \/ SelectFails \/ Process

Workers ==
    \E t \in Task :
        \/ \E r \in Replies : WorkerAnswers(t, r)
        \/ TimeRunsOut(t)

Next == User \/ Api \/ Workers

Spec == Init /\ [][Next]_vars

(***************************************************************************)
(* The process runs, a worker that has a task answers in the end, the      *)
(* registry does not refuse workers for ever, and the workers it names do  *)
(* not refuse connections for ever.  Nothing makes the user call again.    *)
(***************************************************************************)
GetsWorkers == \E k \in 1..QueryCount(env) : QueryAnswered(k)
GetsStarted(t) == \E k \in 0..env.unused : Start(t, k)
Answers(t) == \E r \in Replies : WorkerAnswers(t, r)

Fairness ==
    /\ WF_vars(Api)
    /\ SF_vars(GetsWorkers)
    /\ \A t \in UNION {1..n : n \in TasksCounts} :
         /\ SF_vars(t \in Task /\ GetsStarted(t))
         /\ WF_vars(t \in Task /\ Answers(t))

FairSpec == Spec /\ Fairness

-----------------------------------------------------------------------------
(* Properties.                                                              *)

TypeOK ==
    /\ env.tasks_count \in Nat
    /\ env \in Env(env.tasks_count)
    /\ pc \in Pcs
    /\ cursor \in Nat
    /\ read_fds \subseteq Nat
    /\ ret \in InterruptCodes \cup {"SELECT"}
    /\ reply \in [Task -> Replies]
    /\ deployed \subseteq Nat
    /\ overdue \subseteq Nat
    /\ batches \in Nat
    /\ ejects \in Nat

\* The three counters DC4CPerformBatchTasks steers by are the numbers of tasks
\* the sessions show: over every order of starts, ejections, failures, answers
\* and aborted calls, no task is counted twice or forgotten.
CountersMatch ==
    /\ env.running_count = Cardinality(Executing(env))
    /\ env.prepare_count = Cardinality(Pending(env))
    /\ env.finished_count = Cardinality(Done(env))

\* No more workers are occupied than the user asked for, whatever the number
\* of nodes an earlier query left over.
WorkersBound == Cardinality(Executing(env)) <= env.workers_count

\* A task that failed and is counted as still to be done cannot be picked
\* again, so the scheduler must know that the batch is interrupted: otherwise
\* it would wait for ever for a prepare_count that nothing decreases.
RequeuedMeansInterrupted ==
    Requeued(env) # {} => env.interrupt_code # NoInterrupt

\* DC4CDoBatchTasks returns 0 only when no task waits or runs: each one got an
\* answer, with DC4C_OPTIONS_INTERRUPT_BY_APP one whose status is 0, which a
\* worker that could not run the program sends too, or it has no program.
ZeroMeansAllAnswered ==
    pc = "idle" /\ ret = NoInterrupt =>
        \A t \in Task :
            \/ env.progress[t] = FINISHED
            \/ ~env.by_app /\ env.progress[t] = FINISHED_WITH_ERROR
                           /\ env.error[t] = "STATUS"

\* When DC4CDoBatchTasks gives up because a task failed or timed out, it has
\* first waited for every other task it had started.
DrainedOnInterrupt ==
    pc = "idle" /\ ret \in {"TIMEOUT", "APP"} => Executing(env) = {}

\* The outcome of a task is final: the scheduler never starts a finished task
\* again, and a failed one only after the user has reset it.
OutcomeIsFinal ==
    [][pc # "idle" =>
         \A t \in Task :
            env.progress[t] \in {FINISHED, FINISHED_WITH_ERROR} =>
                env'.progress[t] = env.progress[t]]_vars

\* Every DC4CDoBatchTasks call returns, if workers answer and the registry
\* goes on offering some.
BatchReturns == pc # "idle" ~> pc = "idle"

\* The loop can neither start nor await a task: one was ejected after an
\* interrupt, or an interrupt was forgotten with its failed task.
Stuck ==
    /\ pc \in Pcs \ {"idle", "perform"}
    /\ env.prepare_count > 0
    /\ env.running_count = 0
    /\ \/ env.interrupt_code # NoInterrupt
       \/ \A t \in Task : env.progress[t] # WAITFOR_CONNECTING

\* Nothing else keeps a call from returning: neither failures, time-outs and
\* refusals nor the interrupts they cause.
ReturnsUnlessStuck == pc # "idle" ~> pc = "idle" \/ Stuck

(***************************************************************************)
(* The scheduler implements BatchPromise: a requeued task is a failed one, *)
(* and one whose exit status is not to interrupt the batch is done.        *)
(***************************************************************************)
StatusOf(x) ==
    [t \in TasksOf(x) |->
        IF t \in Executing(x) THEN "running"
        ELSE IF t \in Requeued(x) THEN "failed"
        ELSE IF t \in Done(x) THEN "done" ELSE "waiting"]

Promise == INSTANCE BatchPromise
           WITH Sizes <- TasksCounts,
                status <- StatusOf(env),
                width <- env.workers_count

\* Every step of the scheduler is one BatchPromise allows, or none of its own.
KeepsPromise == Promise!Spec
=============================================================================
