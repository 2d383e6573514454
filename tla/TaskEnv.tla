------------------------------ MODULE TaskEnv ------------------------------
(***************************************************************************)
(* The task bookkeeping of the master's API (src/src/api/dc4c_api.c).      *)
(*                                                                         *)
(* A Dc4cApiEnv holds one batch of tasks: for every task a session with a  *)
(* progress, and three counters that the scheduler steers by instead of    *)
(* looking at the sessions again.  This module has the environment as a    *)
(* record and, for every place of the API that changes it, the operator    *)
(* that gives the environment after that place.  The modules that schedule *)
(* one batch (BatchTasks) or several apply these operators step by step.   *)
(***************************************************************************)
EXTENDS Integers, FiniteSets

WAITFOR_CONNECTING  == "WAITFOR_CONNECTING"
EXECUTING           == "EXECUTING"
FINISHED            == "FINISHED"
FINISHED_WITH_ERROR == "FINISHED_WITH_ERROR"

\* WSERVER_SESSION_PROGRESS_*, the progress of a task's session.
Progress ==
    {WAITFOR_CONNECTING, EXECUTING, FINISHED, FINISHED_WITH_ERROR}

(***************************************************************************)
(* What tasks_response_array[t].error and .status say of a task.  "STATUS" *)
(* is an answer with a non-zero exit status; "NOT_RUN" is an answer whose  *)
(* error is set and whose status is 0 (the worker could not store the      *)
(* program); "PARAMETER" marks a task without a program; the others are    *)
(* the error codes the API itself writes.                                  *)
(***************************************************************************)
TaskErrors ==
    {"NONE", "STATUS", "NOT_RUN", "ALREADY_EXECUTING", "PARAMETER", "APP",
     "TIMEOUT", "SEND_OR_RECEIVE", "DEPLOY"}

NoInterrupt == "0"

\* The values of interrupt_code: 0 or the code the scheduler returned.
InterruptCodes ==
    {NoInterrupt, "TIMEOUT", "APP", "SEND_OR_RECEIVE", "CONNECT", "DEPLOY",
     "FILE_NOT_FOUND"}

\* struct Dc4cApiEnv with n tasks; unused stands for qwp._nodes_count -
\* query_count_used and rserver for IsSocketEstablished( rserver_session ).
Env(n) ==
    [tasks_count    : {n},
     workers_count  : Nat,
     progress       : [1..n -> Progress],
     error          : [1..n -> TaskErrors],
     prepare_count  : Int,
     running_count  : Int,
     finished_count : Int,
     unused         : Nat,
     interrupt_code : InterruptCodes,
     by_app         : BOOLEAN,
     rserver        : BOOLEAN]

TasksOf(x) == 1..x.tasks_count

-----------------------------------------------------------------------------
(* The tasks as the sessions show them.                                     *)

Executing(x) == {t \in TasksOf(x) : x.progress[t] = EXECUTING}

\* A task that failed in a way that interrupts the batch: the API counts it as
\* one that is still to be done.
Requeued(x) ==
    {t \in TasksOf(x) : /\ x.progress[t] = FINISHED_WITH_ERROR
                        /\ x.error[t] # "STATUS"}

Pending(x) ==
    {t \in TasksOf(x) : x.progress[t] = WAITFOR_CONNECTING} \cup Requeued(x)

Done(x) == TasksOf(x) \ (Pending(x) \cup Executing(x))

-----------------------------------------------------------------------------
(* DC4CInitEnv and DC4CSetOptions.                                          *)
NewEnv(byApp) ==
    [tasks_count |-> 0, workers_count |-> 0,
     progress |-> [t \in 1..0 |-> WAITFOR_CONNECTING],
     error |-> [t \in 1..0 |-> "NONE"],
     prepare_count |-> 0, running_count |-> 0, finished_count |-> 0,
     unused |-> 0, interrupt_code |-> NoInterrupt,
     by_app |-> byApp, rserver |-> FALSE]

(***************************************************************************)
(* DC4CBeginBatchTasks, ReformingTasksArray included: without tasks it     *)
(* returns before it touches anything.  The worker nodes left from an      *)
(* earlier query and interrupt_code are kept.                              *)
(***************************************************************************)
BegunBatch(x, n, w) ==
    IF n = 0 THEN x
    ELSE [x EXCEPT !.tasks_count = n,
                   !.workers_count = IF w = 0 \/ w > n THEN n ELSE w,
                   !.progress = [t \in 1..n |-> WAITFOR_CONNECTING],
                   !.error = [t \in 1..n |-> "NONE"],
                   !.prepare_count = n,
                   !.running_count = 0,
                   !.finished_count = 0]

(* DC4CQueryWorkers                                                         *)
WantsWorkers(x) == x.running_count < x.workers_count /\ x.prepare_count > 0

QueryCount(x) ==
    IF x.prepare_count > x.workers_count THEN x.workers_count
                                         ELSE x.prepare_count

RServerConnected(x) == [x EXCEPT !.rserver = TRUE]

RServerClosed(x) == [x EXCEPT !.rserver = FALSE]

GotWorkers(x, k) == [x EXCEPT !.rserver = TRUE, !.unused = k]

\* Mutant: the code is returned and forgotten.
InterruptForgotten(x, code) == x

\* A code the scheduler returns for a failure stays in the environment.
Interrupted(x, code) == [x EXCEPT !.interrupt_code = code]

\* Mutant: as many tasks are started as there are nodes left over.
StartWhileNodes(x) == x.unused > 0 /\ x.interrupt_code = NoInterrupt

\* Mutant: an interrupted batch goes on starting tasks.
StartAnyway(x) == x.unused > 0 /\ x.running_count < x.workers_count

(* DC4CSetTasksFds: what one waiting task can come to.                      *)
MayStart(x) ==
    /\ x.unused > 0
    /\ x.running_count < x.workers_count
    /\ x.interrupt_code = NoInterrupt

SkippedEmpty(x, t) ==
    [x EXCEPT !.prepare_count = @ - 1,
              !.finished_count = @ + 1,
              !.progress[t] = FINISHED,
              !.error[t] = "PARAMETER"]

\* Mutant: the node that is tried next is skipped as well.
OneNodeTooMany(x, k) == [x EXCEPT !.unused = @ - k - 1]

\* The first k nodes refuse the connection.
NodesRefused(x, k) == [x EXCEPT !.unused = @ - k]

ProgramMissing(x, t) ==
    [x EXCEPT !.progress[t] = FINISHED_WITH_ERROR, !.error[t] = "APP"]

Started(x, t) ==
    [x EXCEPT !.unused = @ - 1,
              !.prepare_count = @ - 1,
              !.running_count = @ + 1,
              !.progress[t] = EXECUTING]

(* DC4CProcessTasks: what a running task can come to.                       *)
FailedTask(x, t, err) ==
    [x EXCEPT !.running_count = @ - 1,
              !.prepare_count = @ + 1,
              !.progress[t] = FINISHED_WITH_ERROR,
              !.error[t] = err]

\* Mutant: the ejected task is not counted as one to be done.
EjectedUncounted(x, t) ==
    [x EXCEPT !.running_count = @ - 1,
              !.progress[t] = WAITFOR_CONNECTING,
              !.error[t] = "ALREADY_EXECUTING"]

EjectedTask(x, t) ==
    [x EXCEPT !.running_count = @ - 1,
              !.prepare_count = @ + 1,
              !.progress[t] = WAITFOR_CONNECTING,
              !.error[t] = "ALREADY_EXECUTING"]

\* Mutant: the finished task is still counted as running.
FinishedStillRunning(x, t, p, err) ==
    [x EXCEPT !.finished_count = @ + 1,
              !.progress[t] = p,
              !.error[t] = err]

FinishedTask(x, t, p, err) ==
    [x EXCEPT !.running_count = @ - 1,
              !.finished_count = @ + 1,
              !.progress[t] = p,
              !.error[t] = err]

(* DC4CResetFinishedTasksWithError                                          *)
ResetEnv(x) ==
    LET failed == {t \in TasksOf(x) : x.progress[t] = FINISHED_WITH_ERROR}
    IN  [x EXCEPT
           !.progress = [t \in TasksOf(x) |->
                            IF t \in failed THEN WAITFOR_CONNECTING
                                            ELSE x.progress[t]],
           !.interrupt_code = IF failed = {} THEN @ ELSE NoInterrupt]
=============================================================================
