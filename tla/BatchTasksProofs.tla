------------------------- MODULE BatchTasksProofs -------------------------
(***************************************************************************)
(* Proofs that the scheduler keeps its bookkeeping right for every batch:  *)
(* any number of tasks, workers, calls, nodes and ejections; what that     *)
(* bookkeeping is for, the meaning of what a call returns; and that every  *)
(* step is one that BatchPromise allows.                                   *)
(***************************************************************************)
EXTENDS BatchTasks, TaskEnvTheorems

USE BatchConstants

-----------------------------------------------------------------------------
(* What one step does to the environment.                                   *)

\* The environment after a failed task: its error is one that interrupts.
LEMMA FailTaskKeeps ==
    ASSUME NEW x, EnvOK(x), NEW t \in Executing(x),
           NEW err \in TaskErrors \cap InterruptCodes
    PROVE  Kept(x, RServerClosed(Interrupted(FailedTask(x, t, err), err)))
<1>1. Kept(x, FailedTask(x, t, err))
  BY FailedTaskOK DEF InterruptCodes, NoInterrupt
<1>2. Kept(FailedTask(x, t, err), Interrupted(FailedTask(x, t, err), err))
  BY <1>1, InterruptedOK DEF Kept, Maintains
<1>3. Kept(x, Interrupted(FailedTask(x, t, err), err))
  BY <1>1, <1>2, KeptTwice
<1>4. Kept(Interrupted(FailedTask(x, t, err), err),
           RServerClosed(Interrupted(FailedTask(x, t, err), err)))
  BY <1>3, RServerClosedOK DEF Kept, Maintains
<1> QED BY <1>3, <1>4, KeptTwice

\* No step of DC4CSetTasksFds disturbs what the counters count.
LEMMA FillKeeps ==
    ASSUME TypeOK, Fill PROVE Kept(env, env')
<1>1. EnvOK(env) BY DEF TypeOK, EnvOK
<1>2. ASSUME NEW t \in Task, NEW k \in 0..env.unused, Reached(t, k)
      PROVE  LET x == NodesRefused(env, k)
             IN  /\ Kept(env, x)
                 /\ MayStart(x)
                 /\ t \in TasksOf(x)
                 /\ x.progress[t] = WAITFOR_CONNECTING
  <2>1. SameTasks(env, NodesRefused(env, k)) /\ Kept(env, NodesRefused(env, k))
    BY <1>1, NodesRefusedOK
  <2>2. MayStart(NodesRefused(env, k))
    BY <1>1, <1>2 DEF Reached, Filling, MayStart, NodesRefused, EnvOK, Env
  <2> QED BY <1>2, <2>1, <2>2 DEF Reached, Filling, NextWaiting, SameTasks,
                                  Task, TasksOf
<1>3. ASSUME NEW t \in Task, SkipEmpty(t) PROVE Kept(env, env')
  BY <1>1, <1>3, SkippedEmptyOK DEF SkipEmpty, Filling, NextWaiting, Task
<1>4. ASSUME NEW t \in Task, AllNodesRefuse(t) PROVE Kept(env, env')
  <2>1. env.unused \in 0..env.unused BY <1>1 DEF EnvOK, Env
  <2> QED BY <1>1, <1>4, <2>1, NodesRefusedOK DEF AllNodesRefuse
<1>5. ASSUME NEW t \in Task, NEW k \in 0..env.unused, ProgramNotFound(t, k)
      PROVE  Kept(env, env')
  <2> DEFINE x == NodesRefused(env, k)
             y == ProgramMissing(x, t)
  <2>1. Reached(t, k) /\ env' = Interrupted(y, "FILE_NOT_FOUND")
    BY <1>5 DEF ProgramNotFound
  <2>2. Kept(env, x) /\ Kept(x, y)
    BY <1>2, <2>1, ProgramMissingOK DEF Kept, Maintains
  <2>3. Kept(y, env')
    BY <2>1, <2>2, InterruptedOK DEF Kept, Maintains, InterruptCodes
  <2> HIDE DEF x, y
  <2> QED BY <2>2, <2>3, KeptTwice
<1>6. ASSUME NEW t \in Task, NEW k \in 0..env.unused, SendFails(t, k)
      PROVE  Kept(env, env')
  BY <1>1, <1>6, NodesRefusedOK DEF SendFails
<1>7. ASSUME NEW t \in Task, NEW k \in 0..env.unused, Start(t, k)
      PROVE  Kept(env, env')
  <2> DEFINE x == NodesRefused(env, k)
  <2>1. Reached(t, k) /\ env' = Started(x, t)
    BY <1>7 DEF Start
  <2>2. Kept(env, x) /\ Kept(x, env')
    BY <1>2, <2>1, StartedOK DEF Kept, Maintains
  <2> HIDE DEF x
  <2> QED BY <2>2, KeptTwice
<1>8. CASE FillDone
  BY <1>1, <1>8 DEF FillDone, Kept, Maintains
<1> QED BY <1>3, <1>4, <1>5, <1>6, <1>7, <1>8 DEF Fill

\* No step of DC4CProcessTasks does.
LEMMA ProcessKeeps ==
    ASSUME TypeOK, Process PROVE Kept(env, env')
<1>1. EnvOK(env) BY DEF TypeOK, EnvOK
<1>2. ASSUME NEW t \in Task, NEW err \in TaskErrors \cap InterruptCodes,
             t \in Executing(env), FailTask(t, err)
      PROVE  Kept(env, env')
  BY <1>1, <1>2, FailTaskKeeps DEF FailTask
<1>3. ASSUME NEW t, NEW r, Reads(t, r) PROVE t \in Executing(env)
  BY <1>3 DEF Reads, Readable
<1>4. CASE NothingToProcess
  BY <1>1, <1>4, RServerClosedOK DEF NothingToProcess
<1>5. CASE NoTimeout \/ ProcessDone
  BY <1>1, <1>5 DEF NoTimeout, ProcessDone, Kept, Maintains
<1>6. ASSUME NEW t \in Task, TaskTimeout(t) PROVE Kept(env, env')
  BY <1>2, <1>6 DEF TaskTimeout, TimedOut, TaskErrors, InterruptCodes
<1>7. ASSUME NEW t \in Task, ReadFails(t) PROVE Kept(env, env')
  BY <1>2, <1>3, <1>7 DEF ReadFails, TaskErrors, InterruptCodes
<1>8. ASSUME NEW t \in Task, DeployProgram(t) PROVE Kept(env, env')
  BY <1>1, <1>8 DEF DeployProgram, Kept, Maintains
<1>9. ASSUME NEW t \in Task, DeployFails(t) PROVE Kept(env, env')
  BY <1>2, <1>3, <1>9 DEF DeployFails, TaskErrors, InterruptCodes
<1>10. ASSUME NEW t \in Task, TaskEjected(t) PROVE Kept(env, env')
  BY <1>1, <1>3, <1>10, EjectedTaskOK DEF TaskEjected
<1>11. ASSUME NEW t \in Task, StatusInterrupts(t) PROVE Kept(env, env')
  BY <1>2, <1>3, <1>11 DEF StatusInterrupts, TaskErrors, InterruptCodes
<1>12. ASSUME NEW t \in Task, StatusIgnored(t) PROVE Kept(env, env')
  BY <1>1, <1>3, <1>12, FinishedTaskOK
     DEF StatusIgnored, TaskFinishes, Progress, TaskErrors
<1>13. ASSUME NEW t \in Task, Answered(t) PROVE Kept(env, env')
  BY <1>1, <1>3, <1>13, FinishedTaskOK
     DEF Answered, TaskFinishes, Progress, TaskErrors
<1> QED BY <1>4, <1>5, <1>6, <1>7, <1>8, <1>9, <1>10, <1>11, <1>12, <1>13
        DEF Process

\* Nor does one of DC4CQueryWorkers.
LEMMA QueryKeeps ==
    ASSUME TypeOK, Query PROVE Kept(env, env')
<1>1. EnvOK(env) BY DEF TypeOK, EnvOK
<1>2. CASE NoQueryNeeded
  BY <1>1, <1>2 DEF NoQueryNeeded, Kept, Maintains
<1>3. CASE QueryNotSent
  BY <1>1, <1>3, RServerConnectedOK DEF QueryNotSent
<1>4. ASSUME NEW k \in 0..QueryCount(env), QueryAnswered(k)
      PROVE  Kept(env, env')
  <2>1. k \in Nat OBVIOUS
  <2> QED BY <1>1, <1>4, <2>1, GotWorkersOK DEF QueryAnswered
<1>5. CASE QueryFails
  <2> DEFINE x == Interrupted(env, "CONNECT")
  <2>1. Kept(env, x)
    BY <1>1, InterruptedOK DEF InterruptCodes
  <2>2. Kept(x, env')
    BY <1>5, <2>1, RServerClosedOK DEF QueryFails, Kept, Maintains
  <2> HIDE DEF x
  <2> QED BY <2>1, <2>2, KeptTwice
<1> QED BY <1>2, <1>3, <1>4, <1>5 DEF Query

\* The steps of the API and of the workers stay within the batch.
LEMMA ApiKeeps ==
    ASSUME TypeOK, Api \/ Workers \/ UNCHANGED vars PROVE Kept(env, env')
<1>1. EnvOK(env) BY DEF TypeOK, EnvOK
<1>2. CASE Perform \/ Select
  BY <1>1, <1>2 DEF Perform, Select, Kept, Maintains
<1>3. CASE SelectFails
  BY <1>1, <1>3, InterruptedOK DEF SelectFails, InterruptCodes, NoInterrupt
<1>4. CASE Workers
  BY <1>1, <1>4 DEF Workers, WorkerAnswers, TimeRunsOut, Kept, Maintains
<1>5. CASE UNCHANGED vars
  BY <1>1, <1>5 DEF vars, Kept, Maintains
<1> QED BY <1>2, <1>3, <1>4, <1>5, QueryKeeps, FillKeeps, ProcessKeeps
        DEF Api

\* Every step maintains the environment, except that resetting failures may
\* put the counters wrong.
LEMMA StepMaintains ==
    ASSUME TypeOK, [Next]_vars
    PROVE  \/ Maintains(env, env')
           \/ /\ <<env.by_app, env.tasks_count>> \in MayReset
              /\ env' = ResetEnv(env)
<1>1. EnvOK(env) BY DEF TypeOK, EnvOK
<1>2. ASSUME NEW n \in TasksCounts, NEW w \in WorkersCounts,
             DoBatchTasks(n, w)
      PROVE  Maintains(env, env')
  BY <1>1, <1>2, BegunBatchOK DEF DoBatchTasks
<1>3. ASSUME NEW k \in 0..MaxNodes, QueryAllWorkers(k)
      PROVE  Maintains(env, env')
  BY <1>1, <1>3, GotWorkersOK DEF QueryAllWorkers, Kept
<1>4. CASE PerformAgain
  BY <1>1, <1>4 DEF PerformAgain, Maintains
<1>5. CASE ResetFinishedTasksWithError
  BY <1>5 DEF ResetFinishedTasksWithError
<1> QED BY <1>2, <1>3, <1>4, <1>5, ApiKeeps DEF Next, User, Kept

-----------------------------------------------------------------------------
(* Type correctness.                                                        *)

\* DC4CDoBatchTasks returns into a well typed state.
LEMMA ReturnType ==
    ASSUME NEW code \in InterruptCodes \cup {"SELECT", "TASK_FINISHED",
                                              "BATCH_FINISHED"},
           NEW x, EnvOK(x), TypeOK, Return(code, x)
    PROVE  /\ pc' \in Pcs /\ cursor' \in Nat /\ read_fds' \subseteq Nat
           /\ ret' \in InterruptCodes \cup {"SELECT"}
BY DEF Return, TypeOK, Pcs, EnvOK, Env

\* The environment of DC4CInitEnv satisfies each part of the invariant.
LEMMA InitEnv ==
    ASSUME Init
    PROVE  /\ EnvOK(env) /\ Counted(env) /\ Bounded(env) /\ NoneIgnored(env)
           /\ env.by_app \in ByApp
           /\ env.tasks_count = 0
<1>1. PICK byApp \in ByApp : env = NewEnv(byApp)
  BY DEF Init
<1>2. env.by_app \in ByApp /\ env.tasks_count = 0
  BY <1>1 DEF NewEnv
<1> QED BY <1>1, <1>2, NewEnvOK

\* The initial states are well typed.
LEMMA InitTypeOK == Init => TypeOK
<1> SUFFICES ASSUME Init PROVE TypeOK
  OBVIOUS
<1> QED BY InitEnv DEF TypeOK, EnvOK, Init, Pcs, Replies, InterruptCodes,
                       NoInterrupt, Task, TasksOf

\* DC4CSetTasksFds keeps the state well typed.
LEMMA FillTypeOK ==
    ASSUME TypeOK, Fill PROVE TypeOK'
<1>1. EnvOK(env)' /\ Task' = Task
  BY FillKeeps DEF Kept, Maintains, Task, TasksOf, EnvOK
<1>2. ASSUME NEW t \in Task, NEW k \in 0..env.unused, ProgramNotFound(t, k)
      PROVE  TypeOK'
  <2>1. EnvOK(env') /\ Return("FILE_NOT_FOUND", env')
    BY <1>1, <1>2 DEF ProgramNotFound, EnvOK
  <2>2. UNCHANGED <<batches, workerVars>>
    BY <1>2 DEF ProgramNotFound
  <2> QED BY <1>1, <2>1, <2>2, ReturnType
          DEF TypeOK, EnvOK, InterruptCodes, workerVars
<1>3. ASSUME NEW t \in Task, SkipEmpty(t) \/ AllNodesRefuse(t)
      PROVE  TypeOK'
  <2>1. cursor' \in Nat
    BY <1>3 DEF SkipEmpty, AllNodesRefuse, Task, TasksOf, TypeOK
  <2> QED BY <1>1, <1>3, <2>1
          DEF SkipEmpty, AllNodesRefuse, TypeOK, EnvOK, userVars, workerVars
<1>4. ASSUME NEW t \in Task, NEW k \in 0..env.unused,
             SendFails(t, k) \/ Start(t, k)
      PROVE  TypeOK'
  <2>1. cursor' \in Nat
    BY <1>4 DEF SendFails, Start, Task, TasksOf
  <2>2. reply' \in [Task -> Replies] /\ deployed' \subseteq Nat
        /\ overdue' \subseteq Nat
    BY <1>4 DEF SendFails, Start, TypeOK, Replies, workerVars
  <2> QED BY <1>1, <1>4, <2>1, <2>2
          DEF SendFails, Start, TypeOK, EnvOK, userVars, workerVars
<1>5. CASE FillDone
  BY <1>1, <1>5 DEF FillDone, TypeOK, EnvOK, Pcs, userVars, workerVars
<1> QED BY <1>2, <1>3, <1>4, <1>5 DEF Fill

\* DC4CProcessTasks keeps the state well typed.
LEMMA ProcessTypeOK ==
    ASSUME TypeOK, Process PROVE TypeOK'
<1>1. EnvOK(env)' /\ Task' = Task
  BY ProcessKeeps DEF Kept, Maintains, Task, TasksOf, EnvOK
<1>2. ASSUME NEW t \in Task, SessionClosed(t)
      PROVE  /\ reply' \in [Task -> Replies] /\ deployed' \subseteq Nat
             /\ overdue' \subseteq Nat /\ ejects' \in Nat
  BY <1>2 DEF SessionClosed, TypeOK, Replies
<1>3. ASSUME NEW t \in Task, NEW err \in InterruptCodes, FailTask(t, err)
      PROVE  TypeOK'
  <2>1. EnvOK(env') /\ Return(err, env')
    BY <1>1, <1>3 DEF FailTask, EnvOK
  <2>2. SessionClosed(t) /\ batches' \in Nat
    BY <1>3 DEF FailTask, TypeOK
  <2> QED BY <1>1, <1>2, <2>1, <2>2, ReturnType DEF TypeOK, EnvOK
<1>4. CASE NothingToProcess
  <2>1. EnvOK(env') /\ Return("BATCH_FINISHED", env')
    BY <1>1, <1>4 DEF NothingToProcess, EnvOK
  <2>2. UNCHANGED <<batches, workerVars>>
    BY <1>4 DEF NothingToProcess
  <2> QED BY <1>1, <2>1, <2>2, ReturnType DEF TypeOK, EnvOK, workerVars
<1>5. CASE NoTimeout
  BY <1>1, <1>5 DEF NoTimeout, TypeOK, EnvOK, Pcs, userVars, workerVars
<1>10. CASE ProcessDone
  BY <1>1, <1>10 DEF ProcessDone, TypeOK, EnvOK, Pcs, userVars, workerVars
<1>6. ASSUME NEW t \in Task,
             \/ TaskTimeout(t) \/ ReadFails(t) \/ DeployFails(t)
             \/ StatusInterrupts(t)
      PROVE  TypeOK'
  BY <1>3, <1>6 DEF TaskTimeout, ReadFails, DeployFails, StatusInterrupts,
                    InterruptCodes
<1>7. ASSUME NEW t \in Task, DeployProgram(t) PROVE TypeOK'
  <2>1. cursor' \in Nat /\ reply' \in [Task -> Replies]
    BY <1>7 DEF DeployProgram, Task, TasksOf, TypeOK, Replies
  <2> QED BY <1>1, <1>7, <2>1 DEF DeployProgram, TypeOK, EnvOK, userVars
<1>8. ASSUME NEW t \in Task, TaskEjected(t) PROVE TypeOK'
  <2>1. cursor' \in Nat
    BY <1>8 DEF TaskEjected, Task, TasksOf
  <2>2. SessionClosed(t)
    BY <1>8 DEF TaskEjected
  <2> QED BY <1>1, <1>2, <1>8, <2>1, <2>2
          DEF TaskEjected, TypeOK, EnvOK, userVars
<1>9. ASSUME NEW t \in Task, NEW r, NEW p, NEW err,
             TaskFinishes(t, r, p, err)
      PROVE  TypeOK'
  <2>1. EnvOK(env') /\ Return("TASK_FINISHED", env')
    BY <1>1, <1>9 DEF TaskFinishes, EnvOK
  <2>2. SessionClosed(t) /\ batches' \in Nat
    BY <1>9 DEF TaskFinishes, TypeOK
  <2> QED BY <1>1, <1>2, <2>1, <2>2, ReturnType DEF TypeOK, EnvOK
<1> QED BY <1>4, <1>5, <1>6, <1>7, <1>8, <1>9, <1>10
        DEF Process, StatusIgnored, Answered

\* Every step keeps the state well typed.
LEMMA StepTypeOK ==
    ASSUME TypeOK, [Next]_vars PROVE TypeOK'
<1>1. EnvOK(env)'
  <2>1. EnvOK(env) BY DEF TypeOK, EnvOK
  <2> QED BY <2>1, StepMaintains, ResetEnvOK DEF Maintains, EnvOK
<1>2. ASSUME Kept(env, env') PROVE Task' = Task
  BY <1>2 DEF Kept, Task, TasksOf
<1>3. ASSUME NEW n \in TasksCounts, NEW w \in WorkersCounts,
             DoBatchTasks(n, w)
      PROVE  TypeOK'
  <2>1. Task' = IF n = 0 THEN Task ELSE 1..n
    BY <1>3 DEF DoBatchTasks, BegunBatch, Task, TasksOf, TypeOK, Env
  <2>2. reply' \in [Task' -> Replies]
    BY <1>3, <2>1 DEF DoBatchTasks, TypeOK, Replies
  <2>3. deployed' \subseteq Nat /\ overdue' \subseteq Nat
    BY <1>3 DEF DoBatchTasks, TypeOK
  <2>4. pc' \in Pcs /\ batches' \in Nat /\ UNCHANGED <<cursor, read_fds, ret, ejects>>
    BY <1>3 DEF DoBatchTasks, TypeOK, Pcs
  <2> QED BY <1>1, <2>2, <2>3, <2>4 DEF TypeOK, EnvOK
<1>4. CASE \E k \in 0..MaxNodes : QueryAllWorkers(k)
  <2>1. Task' = Task
    BY <1>4 DEF QueryAllWorkers, GotWorkers, Task, TasksOf, TypeOK, Env
  <2> QED BY <1>1, <1>4, <2>1
          DEF QueryAllWorkers, TypeOK, EnvOK, userVars, workerVars
<1>5. CASE PerformAgain
  BY <1>1, <1>5 DEF PerformAgain, TypeOK, EnvOK, Task, TasksOf, Pcs, userVars,
                    workerVars
<1>6. CASE ResetFinishedTasksWithError
  <2>1. Task' = Task
    BY <1>6 DEF ResetFinishedTasksWithError, ResetEnv, Task, TasksOf, TypeOK, Env
  <2> QED BY <1>1, <1>6, <2>1
          DEF ResetFinishedTasksWithError, TypeOK, EnvOK, userVars, workerVars
<1>7. ASSUME NEW code \in {"BATCH_FINISHED", "CONNECT", "SELECT"},
             Return(code, env'), UNCHANGED <<batches, workerVars>>,
             Task' = Task
      PROVE  TypeOK'
  <2>1. code \in InterruptCodes \cup {"SELECT", "TASK_FINISHED",
                                      "BATCH_FINISHED"}
    BY <1>7 DEF InterruptCodes
  <2>2. EnvOK(env') BY <1>1 DEF EnvOK
  <2> QED BY <1>1, <1>7, <2>1, <2>2, ReturnType DEF TypeOK, EnvOK, workerVars
<1>8. CASE Perform
  <2>1. Task' = Task BY <1>8 DEF Perform, Task
  <2>2. CASE Return("BATCH_FINISHED", env)
    BY <1>7, <1>8, <2>1, <2>2 DEF Perform
  <2>3. CASE pc' = "query" /\ UNCHANGED <<cursor, read_fds, ret>>
    BY <1>1, <1>8, <2>1, <2>3 DEF Perform, TypeOK, EnvOK, Pcs, workerVars
  <2> QED BY <1>8, <2>2, <2>3 DEF Perform
<1>9. CASE Query
  <2>1. Task' = Task BY <1>2, <1>9, QueryKeeps
  <2>2. CASE QueryFails
    BY <1>7, <2>1, <2>2 DEF QueryFails
  <2>3. CASE \/ NoQueryNeeded \/ QueryNotSent
             \/ \E k \in 0..QueryCount(env) : QueryAnswered(k)
    BY <1>1, <2>1, <2>3 DEF NoQueryNeeded, QueryNotSent, QueryAnswered, TypeOK,
                            EnvOK, Pcs, userVars, workerVars
  <2> QED BY <1>9, <2>2, <2>3 DEF Query
<1>10. CASE Select
  BY <1>1, <1>10 DEF Select, TypeOK, EnvOK, Pcs, Task, Executing, TasksOf,
                     userVars, workerVars
<1>11. CASE SelectFails
  <2>1. Task' = Task BY <1>2, <1>11, ApiKeeps DEF Api
  <2> QED BY <1>7, <1>11, <2>1 DEF SelectFails
<1>12. CASE Workers
  <2>1. Task' = Task BY <1>2, <1>12, ApiKeeps
  <2>2. PICK t \in Task : (\E r \in Replies : WorkerAnswers(t, r)) \/ TimeRunsOut(t)
    BY <1>12 DEF Workers
  <2>3. t \in Nat BY DEF Task, TasksOf
  <2>4. ASSUME NEW r \in Replies, WorkerAnswers(t, r) PROVE TypeOK'
    <3>1. reply' \in [Task -> Replies] /\ deployed' \subseteq Nat
          /\ ejects' \in Nat
      BY <2>3, <2>4 DEF WorkerAnswers, TypeOK
    <3> QED BY <1>1, <2>1, <2>4, <3>1
            DEF WorkerAnswers, TypeOK, EnvOK, userVars
  <2>5. CASE TimeRunsOut(t)
    BY <1>1, <2>1, <2>3, <2>5 DEF TimeRunsOut, TypeOK, EnvOK, userVars
  <2> QED BY <2>2, <2>4, <2>5
<1>13. CASE UNCHANGED vars
  BY <1>1, <1>13 DEF vars, TypeOK, Task, TasksOf
<1> QED BY <1>3, <1>4, <1>5, <1>6, <1>8, <1>9, <1>10, <1>11, <1>12, <1>13,
           FillTypeOK, ProcessTypeOK DEF Next, User, Api

\* No step of the scheduler, of its user or of a worker leaves the types.
THEOREM TypeCorrect == Spec => []TypeOK
BY InitTypeOK, StepTypeOK, PTL DEF Spec

-----------------------------------------------------------------------------
(* The counters.                                                            *)

(***************************************************************************)
(* CountersMatch is not inductive: a reset turns ignored failures, which   *)
(* are counted as finished, into waiting tasks.  A batch that failed       *)
(* programs interrupt has none, and only such batches are reset.           *)
(***************************************************************************)
CountersInv ==
    /\ TypeOK
    /\ Counted(env)
    /\ Bounded(env)
    /\ NoneIgnored(env)
    /\ env.by_app \in ByApp

\* The invariant that implies the next two theorems holds for ever.
LEMMA CountersInvHolds ==
    ASSUME MayReset \subseteq {TRUE} \X Nat
    PROVE  Spec => []CountersInv
<1>1. Init => CountersInv
  BY InitTypeOK, InitEnv DEF CountersInv
<1>2. CountersInv /\ [Next]_vars => CountersInv'
  <2> SUFFICES ASSUME CountersInv, [Next]_vars PROVE CountersInv'
    OBVIOUS
  <2>1. TypeOK /\ TypeOK'
    BY StepTypeOK DEF CountersInv
  <2>2. CASE Maintains(env, env')
    BY <2>1, <2>2 DEF CountersInv, Maintains
  <2>3. CASE /\ <<env.by_app, env.tasks_count>> \in MayReset
             /\ env' = ResetEnv(env)
    <3>1. env.by_app = TRUE
      BY <2>3 DEF CountersInv
    <3>2. Maintains(env, env')
      BY <2>1, <2>3, <3>1, ResetEnvOK DEF CountersInv, TypeOK, EnvOK, Kept
    <3> QED BY <2>2, <3>2
  <2> QED BY <2>1, <2>2, <2>3, StepMaintains
<1> QED BY <1>1, <1>2, PTL DEF Spec

\* No order of starts, ejections, failures and answers makes the counters
\* differ from the tasks they count, if the tasks that are reset are ones whose
\* failure interrupts the batch (without that: run BatchResetIgnore).
THEOREM CountersAlwaysMatch ==
    ASSUME MayReset \subseteq {TRUE} \X Nat
    PROVE  Spec => []CountersMatch
<1>1. CountersInv => CountersMatch
  BY DEF CountersInv, Counted, CountersMatch
<1> QED BY <1>1, CountersInvHolds, PTL

\* The master never occupies more workers than its user allowed.
THEOREM WorkersAlwaysBounded ==
    ASSUME MayReset \subseteq {TRUE} \X Nat
    PROVE  Spec => []WorkersBound
<1>1. CountersInv => WorkersBound
  BY DEF CountersInv, Counted, Bounded, WorkersBound
<1> QED BY <1>1, CountersInvHolds, PTL

-----------------------------------------------------------------------------
(* Requeued tasks.                                                          *)

Marked(x) == Requeued(x) # {} => x.interrupt_code # NoInterrupt

\* A step that adds no requeued task, or leaves the batch interrupted.
LEMMA StaysMarked ==
    ASSUME NEW x, NEW y, Marked(x),
           \/ y.interrupt_code # NoInterrupt
           \/ Requeued(y) = {}
           \/ /\ Requeued(y) \subseteq Requeued(x)
              /\ y.interrupt_code = x.interrupt_code
    PROVE  Marked(y)
BY DEF Marked

\* A failed task leaves an interrupt behind.
LEMMA FailTaskMarks ==
    ASSUME TypeOK, NEW t \in Task, NEW err \in InterruptCodes \ {NoInterrupt},
           FailTask(t, err)
    PROVE  env'.interrupt_code # NoInterrupt
BY DEF FailTask, RServerClosed, Interrupted, FailedTask, TypeOK, Env

\* DC4CSetTasksFds puts no task back, and a missing program sets the
\* interrupt.
LEMMA FillMarked ==
    ASSUME TypeOK, Fill, Marked(env) PROVE Marked(env')
<1>1. ASSUME NEW t \in Task, SkipEmpty(t) PROVE Marked(env')
  <2>1. Requeued(env') \subseteq Requeued(env)
        /\ env'.interrupt_code = env.interrupt_code
    BY <1>1 DEF SkipEmpty, SkippedEmpty, Requeued, TasksOf, Task, TypeOK, Env,
                FINISHED, FINISHED_WITH_ERROR
  <2> QED BY <2>1, StaysMarked
<1>2. ASSUME NEW t \in Task, NEW k \in 0..env.unused, ProgramNotFound(t, k)
      PROVE  Marked(env')
  <2>1. env'.interrupt_code # NoInterrupt
    BY <1>2 DEF ProgramNotFound, Interrupted, ProgramMissing, NodesRefused,
                TypeOK, Env, NoInterrupt
  <2> QED BY <2>1 DEF Marked
<1>3. ASSUME NEW t \in Task, NEW k \in 0..env.unused,
             AllNodesRefuse(t) \/ SendFails(t, k)
      PROVE  Marked(env')
  <2>1. Requeued(env') = Requeued(env)
        /\ env'.interrupt_code = env.interrupt_code
    BY SMTT(30), <1>3 DEF AllNodesRefuse, SendFails, NodesRefused, Requeued, TasksOf,
                TypeOK, Env
  <2> QED BY <2>1, StaysMarked
<1>4. ASSUME NEW t \in Task, NEW k \in 0..env.unused, Start(t, k)
      PROVE  Marked(env')
  <2>1. Requeued(env') \subseteq Requeued(env)
        /\ env'.interrupt_code = env.interrupt_code
    BY <1>4 DEF Start, Started, NodesRefused, Requeued, TasksOf, Task,
                TypeOK, Env, EXECUTING, FINISHED_WITH_ERROR
  <2> QED BY <2>1, StaysMarked
<1>5. CASE FillDone
  BY <1>5 DEF FillDone
<1>6. ASSUME NEW t \in Task, AllNodesRefuse(t) PROVE Marked(env')
  <2>1. 0 \in 0..env.unused BY DEF TypeOK, Env
  <2> QED BY <1>3, <1>6, <2>1
<1> QED BY <1>1, <1>2, <1>3, <1>4, <1>5, <1>6 DEF Fill

\* DC4CProcessTasks sets the interrupt when it puts a task back.
LEMMA ProcessMarked ==
    ASSUME TypeOK, Process, Marked(env) PROVE Marked(env')
<1>1. CASE NothingToProcess
  <2>1. Requeued(env') = Requeued(env)
        /\ env'.interrupt_code = env.interrupt_code
    BY <1>1 DEF NothingToProcess, RServerClosed, Requeued, TasksOf, TypeOK, Env
  <2> QED BY <2>1, StaysMarked
<1>2. CASE NoTimeout \/ ProcessDone \/ \E t \in Task : DeployProgram(t)
  BY <1>2 DEF NoTimeout, ProcessDone, DeployProgram
<1>3. ASSUME NEW t \in Task,
             \/ TaskTimeout(t) \/ ReadFails(t) \/ DeployFails(t)
             \/ StatusInterrupts(t)
      PROVE  Marked(env')
  <2>1. PICK err \in InterruptCodes \ {NoInterrupt} : FailTask(t, err)
    BY <1>3 DEF TaskTimeout, ReadFails, DeployFails, StatusInterrupts,
                InterruptCodes, NoInterrupt
  <2> QED BY <2>1, FailTaskMarks DEF Marked
<1>4. ASSUME NEW t \in Task, TaskEjected(t) PROVE Marked(env')
  <2>1. Requeued(env') \subseteq Requeued(env)
        /\ env'.interrupt_code = env.interrupt_code
    BY <1>4 DEF TaskEjected, EjectedTask, Requeued, TasksOf, Task, TypeOK, Env,
                WAITFOR_CONNECTING, FINISHED_WITH_ERROR
  <2> QED BY <2>1, StaysMarked
<1>5. ASSUME NEW t \in Task, NEW r, NEW p, NEW err,
             TaskFinishes(t, r, p, err),
             p = FINISHED \/ err = "STATUS"
      PROVE  Marked(env')
  <2>1. Requeued(env') \subseteq Requeued(env)
        /\ env'.interrupt_code = env.interrupt_code
    BY <1>5 DEF TaskFinishes, FinishedTask, Requeued, TasksOf, Task, TypeOK,
                Env, FINISHED, FINISHED_WITH_ERROR
  <2> QED BY <2>1, StaysMarked
<1> QED BY <1>1, <1>2, <1>3, <1>4, <1>5
        DEF Process, StatusIgnored, Answered

\* A requeued task always leaves the batch interrupted, whatever the workers
\* do, as long as select itself does not fail (with that: run BatchSelect).
THEOREM RequeuedAlwaysInterrupts ==
    ASSUME ~SelectMayFail
    PROVE  Spec => []RequeuedMeansInterrupted
<1>1. Init => Marked(env)
  <2> SUFFICES ASSUME Init PROVE Marked(env)
    OBVIOUS
  <2>1. env.tasks_count = 0 BY InitEnv
  <2> QED BY <2>1 DEF Marked, Requeued, TasksOf
<1>2. TypeOK /\ Marked(env) /\ [Next]_vars => Marked(env)'
  <2> SUFFICES ASSUME TypeOK, Marked(env), [Next]_vars PROVE Marked(env')
    BY DEF Marked
  <2>1. ASSUME NEW n \in TasksCounts, NEW w \in WorkersCounts,
               DoBatchTasks(n, w)
        PROVE  Marked(env')
    <3>1. env' = env \/ Requeued(env') = {}
      BY <2>1 DEF DoBatchTasks, BegunBatch, Requeued, TasksOf, TypeOK, Env,
                  WAITFOR_CONNECTING, FINISHED_WITH_ERROR
    <3> QED BY <3>1, StaysMarked
  <2>2. CASE \/ \E k \in 0..MaxNodes : QueryAllWorkers(k)
             \/ \E k \in 0..QueryCount(env) : QueryAnswered(k)
             \/ QueryNotSent
    <3>1. Requeued(env') = Requeued(env)
          /\ env'.interrupt_code = env.interrupt_code
      BY <2>2 DEF QueryAllWorkers, QueryAnswered, QueryNotSent, GotWorkers,
                  RServerConnected, Requeued, TasksOf, TypeOK, Env
    <3> QED BY <3>1, StaysMarked
  <2>3. CASE ResetFinishedTasksWithError
    <3>1. Requeued(env') = {}
      BY <2>3 DEF ResetFinishedTasksWithError, ResetEnv, Requeued, TasksOf,
                  TypeOK, Env, WAITFOR_CONNECTING, FINISHED_WITH_ERROR
    <3> QED BY <3>1 DEF Marked
  <2>4. CASE QueryFails
    <3>1. env'.interrupt_code # NoInterrupt
      BY <2>4 DEF QueryFails, RServerClosed, Interrupted, TypeOK, Env,
                  NoInterrupt
    <3> QED BY <3>1 DEF Marked
  <2>5. CASE PerformAgain \/ NoQueryNeeded \/ Perform \/ Select \/ Workers
             \/ UNCHANGED vars
    BY <2>5 DEF PerformAgain, NoQueryNeeded, Perform, Select, Workers,
                WorkerAnswers, TimeRunsOut, vars
  <2>6. ~SelectFails
    BY DEF SelectFails
  <2> QED BY <2>1, <2>2, <2>3, <2>4, <2>5, <2>6, FillMarked, ProcessMarked
          DEF Next, User, Api, Query
<1>3. Marked(env) => RequeuedMeansInterrupted
  BY DEF Marked, RequeuedMeansInterrupted
<1> QED BY <1>1, <1>2, <1>3, TypeCorrect, PTL DEF Spec
-----------------------------------------------------------------------------
(* What a call of DC4CDoBatchTasks returns.                                 *)

\* When DC4CPerformBatchTasks finds nothing left to wait for, no task runs,
\* and without an interrupt every task has its answer.
LEMMA BatchOver ==
    ASSUME NEW x, EnvOK(x), Counted(x), x.running_count = 0
    PROVE  /\ Executing(x) = {}
           /\ x.prepare_count = 0 =>
                \A t \in TasksOf(x) :
                    \/ x.progress[t] = FINISHED
                    \/ /\ x.progress[t] = FINISHED_WITH_ERROR
                       /\ x.error[t] = "STATUS"
<1>1. x.tasks_count \in Nat
  BY DEF EnvOK
<1>2. IsFiniteSet(Executing(x)) /\ IsFiniteSet(Pending(x))
  BY <1>1, TaskSetsFinite
<1>3. Executing(x) = {}
  BY <1>2, FS_EmptySet DEF Counted
<1>4. ASSUME x.prepare_count = 0, NEW t \in TasksOf(x)
      PROVE  \/ x.progress[t] = FINISHED
             \/ /\ x.progress[t] = FINISHED_WITH_ERROR
                /\ x.error[t] = "STATUS"
  <2>1. Pending(x) = {}
    BY <1>2, <1>4, FS_EmptySet DEF Counted
  <2>2. x.progress[t] \in Progress
    BY DEF EnvOK, Env, TasksOf
  <2> QED BY <1>3, <2>1, <2>2 DEF Executing, Pending, Requeued, Progress
<1> QED BY <1>3, <1>4

\* Every task of x has its answer: what a return of 0 says.
AllAnswered(x) ==
    \A t \in TasksOf(x) :
        \/ x.progress[t] = FINISHED
        \/ ~x.by_app /\ x.progress[t] = FINISHED_WITH_ERROR
                     /\ x.error[t] = "STATUS"

(***************************************************************************)
(* What ret says of the tasks while no call is being performed.            *)
(***************************************************************************)
RetOK ==
    pc = "idle" =>
        /\ ret = NoInterrupt => AllAnswered(env)
        /\ ret \in {"TIMEOUT", "APP"} => Executing(env) = {}

\* A return of DC4CPerformBatchTasks that ends the batch.
LEMMA BatchFinishedRet ==
    ASSUME CountersInv', env'.running_count = 0,
           env'.prepare_count = 0 \/ env'.interrupt_code # NoInterrupt,
           Return("BATCH_FINISHED", env')
    PROVE  RetOK'
<1>1. EnvOK(env') /\ Counted(env') /\ NoneIgnored(env')
  BY DEF CountersInv, TypeOK, EnvOK
<1>2. ret' = env'.interrupt_code
  BY DEF Return
<1>3. Executing(env') = {}
  BY <1>1, BatchOver
<1>4. ASSUME ret' = NoInterrupt PROVE AllAnswered(env')
  <2>1. env'.prepare_count = 0
    BY <1>2, <1>4
  <2> QED BY <1>1, <2>1, BatchOver DEF AllAnswered, NoneIgnored
<1> QED BY <1>3, <1>4 DEF RetOK

\* One that ends the call with an error of its own, or not at all.
LEMMA OtherRet ==
    ASSUME NEW code, NEW x, Return(code, x),
           code \notin {"BATCH_FINISHED", NoInterrupt}
    PROVE  RetOK'
BY DEF Return, RetOK

\* A step that leaves the call unreturned.
LEMMA StillCalled ==
    ASSUME pc' # "idle" PROVE RetOK'
BY DEF RetOK

\* A step after the call that moves no task.
LEMMA StillReturned ==
    ASSUME RetOK, pc' = pc, ret' = ret,
           SameTasks(env, env')
    PROVE  RetOK'
<1>1. Executing(env') = Executing(env) /\ TasksOf(env') = TasksOf(env)
  BY SameTasksSets
<1> QED BY <1>1 DEF RetOK, AllAnswered, SameTasks

\* Resetting failed tasks disturbs neither: after a return of 0 there are
\* none, and none of them runs.
LEMMA ResetRet ==
    ASSUME CountersInv, RetOK, ResetFinishedTasksWithError,
           MayReset \subseteq {TRUE} \X Nat
    PROVE  RetOK'
<1>1. env.by_app = TRUE /\ env' = ResetEnv(env) /\ pc' = pc /\ ret' = ret
  BY DEF ResetFinishedTasksWithError, userVars
<1>2. EnvOK(env)
  BY DEF CountersInv, TypeOK, EnvOK
<1>3. TasksOf(env') = TasksOf(env) /\ env'.by_app = env.by_app
  BY <1>1, <1>2 DEF ResetEnv, EnvOK, Env, TasksOf
<1>4. \A t \in TasksOf(env) :
         env'.progress[t] = IF env.progress[t] = FINISHED_WITH_ERROR
                            THEN WAITFOR_CONNECTING ELSE env.progress[t]
  BY <1>1, <1>2 DEF ResetEnv, EnvOK, Env
<1>5. Executing(env') = Executing(env)
  BY <1>3, <1>4 DEF Executing, EXECUTING, WAITFOR_CONNECTING,
                    FINISHED_WITH_ERROR
<1>6. ASSUME AllAnswered(env) PROVE AllAnswered(env')
  BY <1>1, <1>3, <1>4, <1>6
     DEF AllAnswered, FINISHED, FINISHED_WITH_ERROR
<1> QED BY <1>1, <1>5, <1>6 DEF RetOK

\* The steps of DC4CSetTasksFds.
LEMMA FillRet ==
    ASSUME Fill PROVE RetOK'
<1>1. ASSUME NEW t \in Task, SkipEmpty(t) \/ AllNodesRefuse(t)
      PROVE  pc' # "idle"
  BY <1>1 DEF SkipEmpty, AllNodesRefuse, Filling
<1>2. ASSUME NEW t \in Task, NEW k \in 0..env.unused, ProgramNotFound(t, k)
      PROVE  RetOK'
  BY <1>2, OtherRet DEF ProgramNotFound, NoInterrupt
<1>3. ASSUME NEW t \in Task, NEW k \in 0..env.unused,
             SendFails(t, k) \/ Start(t, k)
      PROVE  pc' # "idle"
  BY <1>3 DEF SendFails, Start, Reached, Filling
<1>4. CASE FillDone
  BY <1>4, StillCalled DEF FillDone
<1> QED BY <1>1, <1>2, <1>3, <1>4, StillCalled DEF Fill

\* The steps of DC4CProcessTasks.
LEMMA ProcessRet ==
    ASSUME CountersInv', TypeOK, Process PROVE RetOK'
<1>1. ASSUME NEW t, NEW err \in InterruptCodes \ {NoInterrupt},
             FailTask(t, err)
      PROVE  RetOK'
  BY <1>1, OtherRet DEF FailTask, InterruptCodes, NoInterrupt
<1>2. CASE NothingToProcess
  <2>1. Return("BATCH_FINISHED", env') /\ env' = RServerClosed(env)
    BY <1>2 DEF NothingToProcess
  <2>2. env'.running_count = 0 /\ env'.prepare_count = 0
    BY <1>2, <2>1 DEF NothingToProcess, RServerClosed, TypeOK, Env
  <2> QED BY <2>1, <2>2, BatchFinishedRet
<1>3. CASE NoTimeout \/ ProcessDone
  BY <1>3, StillCalled DEF NoTimeout, ProcessDone
<1>4. ASSUME NEW t \in Task,
             \/ TaskTimeout(t) \/ ReadFails(t) \/ DeployFails(t)
             \/ StatusInterrupts(t)
      PROVE  RetOK'
  <2>1. PICK err \in InterruptCodes \ {NoInterrupt} : FailTask(t, err)
    BY <1>4 DEF TaskTimeout, ReadFails, DeployFails, StatusInterrupts,
                InterruptCodes, NoInterrupt
  <2> QED BY <1>1, <2>1
<1>5. ASSUME NEW t \in Task, DeployProgram(t) \/ TaskEjected(t)
      PROVE  RetOK'
  BY <1>5, StillCalled DEF DeployProgram, TaskEjected, Reads
<1>6. ASSUME NEW t \in Task, NEW r, NEW p, NEW err,
             TaskFinishes(t, r, p, err)
      PROVE  RetOK'
  BY <1>6, OtherRet DEF TaskFinishes, NoInterrupt
<1> QED BY <1>2, <1>3, <1>4, <1>5, <1>6
        DEF Process, StatusIgnored, Answered

\* Every step keeps RetOK.
LEMMA StepRet ==
    ASSUME MayReset \subseteq {TRUE} \X Nat,
           CountersInv, CountersInv', RetOK, [Next]_vars
    PROVE  RetOK'
<1>1. EnvOK(env) /\ TypeOK
  BY DEF CountersInv, TypeOK, EnvOK
<1>2. ASSUME NEW n, NEW w, DoBatchTasks(n, w) PROVE RetOK'
  BY <1>2, StillCalled DEF DoBatchTasks
<1>3. ASSUME NEW k \in 0..MaxNodes, QueryAllWorkers(k) PROVE RetOK'
  <2>1. SameTasks(env, env')
    BY <1>1, <1>3 DEF QueryAllWorkers, GotWorkers, SameTasks, EnvOK, Env
  <2> QED BY <1>3, <2>1, StillReturned DEF QueryAllWorkers, userVars
<1>4. CASE PerformAgain
  BY <1>4, StillCalled DEF PerformAgain
<1>5. CASE ResetFinishedTasksWithError
  BY <1>5, ResetRet
<1>6. CASE Perform
  <2>1. CASE pc' = "query"
    BY <2>1, StillCalled
  <2>2. CASE /\ \/ env.prepare_count = 0 /\ env.running_count = 0
                \/ env.interrupt_code # NoInterrupt /\ env.running_count = 0
             /\ Return("BATCH_FINISHED", env)
    <3>1. env' = env
      BY <1>6 DEF Perform
    <3> QED BY <2>2, <3>1, BatchFinishedRet
  <2> QED BY <1>6, <2>1, <2>2 DEF Perform
<1>7. CASE Query
  <2>1. CASE QueryFails
    BY <2>1, OtherRet DEF QueryFails, NoInterrupt
  <2>2. CASE \/ NoQueryNeeded \/ QueryNotSent
             \/ \E k \in 0..QueryCount(env) : QueryAnswered(k)
    BY <2>2, StillCalled DEF NoQueryNeeded, QueryNotSent, QueryAnswered
  <2> QED BY <1>7, <2>1, <2>2 DEF Query
<1>8. CASE Select
  BY <1>8, StillCalled DEF Select
<1>9. CASE SelectFails
  BY <1>9, OtherRet DEF SelectFails, NoInterrupt
<1>10. CASE Workers \/ UNCHANGED vars
  <2>1. env' = env /\ pc' = pc /\ ret' = ret
    BY <1>10 DEF Workers, WorkerAnswers, TimeRunsOut, vars, userVars
  <2>2. SameTasks(env, env')
    BY <2>1 DEF SameTasks
  <2> QED BY <2>1, <2>2, StillReturned
<1> QED BY <1>1, <1>2, <1>3, <1>4, <1>5, <1>6, <1>7, <1>8, <1>9, <1>10,
           FillRet, ProcessRet DEF Next, User, Api

\* So does every behaviour.
LEMMA RetAlwaysOK ==
    ASSUME MayReset \subseteq {TRUE} \X Nat
    PROVE  Spec => []RetOK
<1>1. Init => RetOK
  <2> SUFFICES ASSUME Init PROVE RetOK
    OBVIOUS
  <2>1. TasksOf(env) = {} BY InitEnv DEF TasksOf
  <2> QED BY <2>1 DEF RetOK, AllAnswered, Executing
<1>2. CountersInv /\ CountersInv' /\ RetOK /\ [Next]_vars => RetOK'
  BY StepRet
<1> QED BY <1>1, <1>2, CountersInvHolds, PTL DEF Spec

\* A return of 0 means that every task of the batch that has a program was
\* answered, with a status of 0 when another one was to interrupt the batch.
THEOREM ZeroAlwaysMeansAnswered ==
    ASSUME MayReset \subseteq {TRUE} \X Nat
    PROVE  Spec => []ZeroMeansAllAnswered
<1>1. RetOK => ZeroMeansAllAnswered
  BY DEF RetOK, AllAnswered, ZeroMeansAllAnswered, Task
<1> QED BY <1>1, RetAlwaysOK, PTL

\* A call that gives up for a failure or a time-out has waited for every other
\* task it had started.
THEOREM InterruptsAlwaysDrain ==
    ASSUME MayReset \subseteq {TRUE} \X Nat
    PROVE  Spec => []DrainedOnInterrupt
<1>1. RetOK => DrainedOnInterrupt
  BY DEF RetOK, DrainedOnInterrupt
<1> QED BY <1>1, RetAlwaysOK, PTL

-----------------------------------------------------------------------------
(* The life of a task.                                                      *)

\* From x to y nothing changes that the user can tell of the tasks.
Unmoved(x, y) ==
    /\ y.tasks_count = x.tasks_count
    /\ y.workers_count = x.workers_count
    /\ y.progress = x.progress
    /\ y.error = x.error

\* From x to y only task t changes, and it gets to progress p with error e.
Moved(x, y, t, p, e) ==
    /\ y.tasks_count = x.tasks_count
    /\ y.workers_count = x.workers_count
    /\ y.progress = [x.progress EXCEPT ![t] = p]
    /\ y.error = [x.error EXCEPT ![t] = e]

\* What a step of the scheduler may do to a task.
Given(x, y, t) ==
    /\ x.progress[t] = WAITFOR_CONNECTING
    /\ x.interrupt_code = NoInterrupt
    /\ x.running_count < x.workers_count
    /\ \E e \in TaskErrors : Moved(x, y, t, EXECUTING, e)

TakenBack(x, y, t) ==
    /\ x.progress[t] = EXECUTING
    /\ \E e \in TaskErrors : Moved(x, y, t, WAITFOR_CONNECTING, e)

Ended(x, y, t) ==
    /\ x.progress[t] \in {WAITFOR_CONNECTING, EXECUTING}
    /\ \E p \in {FINISHED, FINISHED_WITH_ERROR}, e \in TaskErrors :
          Moved(x, y, t, p, e)

Lives(x, y) ==
    \/ Unmoved(x, y)
    \/ \E t \in TasksOf(x) : Given(x, y, t) \/ TakenBack(x, y, t) \/ Ended(x, y, t)

\* A step that moves one task.
LEMMA OneLives ==
    ASSUME NEW x, NEW y, NEW t \in TasksOf(x),
           Given(x, y, t) \/ TakenBack(x, y, t) \/ Ended(x, y, t)
    PROVE  Lives(x, y)
BY DEF Lives

\* The steps of DC4CSetTasksFds move waiting tasks, to a worker or to their
\* end.
LEMMA FillLives ==
    ASSUME TypeOK, Fill PROVE Lives(env, env')
<1>1. EnvOK(env) BY DEF TypeOK, EnvOK
<1>2. ASSUME NEW t \in Task, SkipEmpty(t) PROVE Lives(env, env')
  <2>1. env' = SkippedEmpty(env, t) /\ env.progress[t] = WAITFOR_CONNECTING
    BY <1>2 DEF SkipEmpty, Filling, NextWaiting
  <2>2. Moved(env, env', t, FINISHED, "PARAMETER")
    BY <1>1, <2>1 DEF SkippedEmpty, Moved, EnvOK, Env
  <2>3. Ended(env, env', t)
    BY <2>1, <2>2 DEF Ended, TaskErrors
  <2> QED BY <2>3, OneLives DEF Task
<1>3. ASSUME NEW t \in Task, NEW k \in 0..env.unused, ProgramNotFound(t, k)
      PROVE  Lives(env, env')
  <2>1. /\ env' = Interrupted(ProgramMissing(NodesRefused(env, k), t),
                              "FILE_NOT_FOUND")
        /\ env.progress[t] = WAITFOR_CONNECTING
    BY <1>3 DEF ProgramNotFound, Reached, Filling, NextWaiting
  <2>2. Moved(env, env', t, FINISHED_WITH_ERROR, "APP")
    BY <1>1, <2>1 DEF Interrupted, ProgramMissing, NodesRefused, Moved,
                      EnvOK, Env
  <2>3. Ended(env, env', t)
    BY <2>1, <2>2 DEF Ended, TaskErrors
  <2> QED BY <2>3, OneLives DEF Task
<1>4. ASSUME NEW t \in Task, NEW k \in 0..env.unused, Start(t, k)
      PROVE  Lives(env, env')
  <2>1. /\ env' = Started(NodesRefused(env, k), t)
        /\ env.progress[t] = WAITFOR_CONNECTING
        /\ MayStart(env)
    BY <1>4 DEF Start, Reached, Filling, NextWaiting
  <2>2. Moved(env, env', t, EXECUTING, env.error[t])
    BY <1>1, <2>1 DEF Started, NodesRefused, Moved, EnvOK, Env
  <2>3. env.error[t] \in TaskErrors
    BY <1>1 DEF EnvOK, Env, Task, TasksOf
  <2>4. Given(env, env', t)
    BY <2>1, <2>2, <2>3 DEF Given, MayStart
  <2> QED BY <2>4, OneLives DEF Task
<1>5. ASSUME NEW t \in Task, AllNodesRefuse(t) PROVE Unmoved(env, env')
  BY <1>1, <1>5 DEF AllNodesRefuse, NodesRefused, Unmoved, EnvOK, Env
<1>6. ASSUME NEW t \in Task, NEW k \in 0..env.unused, SendFails(t, k)
      PROVE  Unmoved(env, env')
  BY <1>1, <1>6 DEF SendFails, NodesRefused, Unmoved, EnvOK, Env
<1>7. CASE FillDone
  BY <1>7 DEF FillDone, Unmoved, Lives
<1> QED BY <1>2, <1>3, <1>4, <1>5, <1>6, <1>7 DEF Fill, Lives

\* Those of DC4CProcessTasks move running tasks, back or to their end.
LEMMA ProcessLives ==
    ASSUME TypeOK, Process PROVE Lives(env, env')
<1>1. EnvOK(env) BY DEF TypeOK, EnvOK
<1>2. ASSUME NEW t, NEW r, Reads(t, r)
      PROVE  t \in TasksOf(env) /\ env.progress[t] = EXECUTING
  BY <1>2 DEF Reads, Readable, Executing
<1>3. ASSUME NEW t \in TasksOf(env), env.progress[t] = EXECUTING,
             NEW err \in TaskErrors, FailTask(t, err)
      PROVE  Lives(env, env')
  <2>1. env' = RServerClosed(Interrupted(FailedTask(env, t, err), err))
    BY <1>3 DEF FailTask
  <2>2. Moved(env, env', t, FINISHED_WITH_ERROR, err)
    BY <1>1, <2>1 DEF RServerClosed, Interrupted, FailedTask, Moved, EnvOK,
                      Env
  <2>3. Ended(env, env', t)
    BY <1>3, <2>2 DEF Ended
  <2> QED BY <2>3, OneLives
<1>4. CASE NothingToProcess
  BY <1>1, <1>4 DEF NothingToProcess, RServerClosed, Lives, Unmoved, EnvOK, Env
<1>5. CASE NoTimeout \/ ProcessDone \/ \E t \in Task : DeployProgram(t)
  BY <1>5 DEF NoTimeout, ProcessDone, DeployProgram, Lives, Unmoved
<1>6. ASSUME NEW t \in Task, TaskTimeout(t) PROVE Lives(env, env')
  <2>1. t \in Executing(env)
    BY <1>6 DEF TaskTimeout, TimedOut
  <2>2. t \in TasksOf(env) /\ env.progress[t] = EXECUTING
    BY <2>1 DEF Executing
  <2> QED BY <1>3, <1>6, <2>2 DEF TaskTimeout, TaskErrors
<1>7. ASSUME NEW t \in Task,
             ReadFails(t) \/ DeployFails(t) \/ StatusInterrupts(t)
      PROVE  Lives(env, env')
  <2>1. PICK err \in TaskErrors : FailTask(t, err)
    BY <1>7 DEF ReadFails, DeployFails, StatusInterrupts, TaskErrors
  <2>2. PICK r : Reads(t, r)
    BY <1>7 DEF ReadFails, DeployFails, StatusInterrupts
  <2>3. t \in TasksOf(env) /\ env.progress[t] = EXECUTING
    BY <1>2, <2>2
  <2> QED BY <1>3, <2>1, <2>3
<1>8. ASSUME NEW t \in Task, TaskEjected(t) PROVE Lives(env, env')
  <2>1. env' = EjectedTask(env, t) /\ env.progress[t] = EXECUTING
    BY <1>2, <1>8 DEF TaskEjected
  <2>2. Moved(env, env', t, WAITFOR_CONNECTING, "ALREADY_EXECUTING")
    BY <1>1, <2>1 DEF EjectedTask, Moved, EnvOK, Env
  <2>3. TakenBack(env, env', t)
    BY <2>1, <2>2 DEF TakenBack, TaskErrors
  <2> QED BY <2>3, OneLives DEF Task
<1>9. ASSUME NEW t \in Task, NEW r, NEW p \in {FINISHED, FINISHED_WITH_ERROR},
             NEW err \in TaskErrors, TaskFinishes(t, r, p, err)
      PROVE  Lives(env, env')
  <2>1. env' = FinishedTask(env, t, p, err) /\ env.progress[t] = EXECUTING
    BY <1>2, <1>9 DEF TaskFinishes
  <2>2. Moved(env, env', t, p, err)
    BY <1>1, <2>1 DEF FinishedTask, Moved, EnvOK, Env
  <2>3. Ended(env, env', t)
    BY <2>1, <2>2 DEF Ended
  <2> QED BY <2>3, OneLives DEF Task
<1> QED BY <1>4, <1>5, <1>6, <1>7, <1>8, <1>9
        DEF Process, StatusIgnored, Answered, TaskErrors

\* Every step of the scheduler and of the workers is one of these.
LEMMA ApiLives ==
    ASSUME TypeOK, Api \/ Workers \/ UNCHANGED vars
    PROVE  Lives(env, env')
<1>1. EnvOK(env) BY DEF TypeOK, EnvOK
<1>2. CASE Perform \/ Select \/ Workers \/ NoQueryNeeded \/ UNCHANGED vars
  BY <1>2 DEF Perform, Select, Workers, WorkerAnswers, TimeRunsOut,
              NoQueryNeeded, vars, Lives, Unmoved
<1>3. CASE QueryNotSent \/ \E k \in 0..QueryCount(env) : QueryAnswered(k)
  BY <1>1, <1>3 DEF QueryNotSent, QueryAnswered, RServerConnected, GotWorkers,
                    Lives, Unmoved, EnvOK, Env
<1>4. CASE QueryFails \/ SelectFails
  BY <1>1, <1>4 DEF QueryFails, SelectFails, RServerClosed, Interrupted,
                    Lives, Unmoved, EnvOK, Env
<1> QED BY <1>2, <1>3, <1>4, FillLives, ProcessLives DEF Api, Query

\* No scheduler step moves a task that has ended.
LEMMA EndedStays ==
    ASSUME NEW x, EnvOK(x), NEW y, Lives(x, y), NEW t \in TasksOf(x),
           x.progress[t] \in {FINISHED, FINISHED_WITH_ERROR}
    PROVE  y.progress[t] = x.progress[t]
BY DEF Lives, Unmoved, Given, TakenBack, Ended, Moved, EnvOK, Env, TasksOf,
       WAITFOR_CONNECTING, EXECUTING, FINISHED, FINISHED_WITH_ERROR

\* While a call is being performed no task that has ended, well or badly, is
\* started again or changes its outcome.
THEOREM OutcomesAreFinal == Spec => OutcomeIsFinal
<1> DEFINE Final == pc # "idle" =>
                      \A t \in Task :
                        env.progress[t] \in {FINISHED, FINISHED_WITH_ERROR} =>
                            env'.progress[t] = env.progress[t]
<1>1. TypeOK /\ [Next]_vars => [Final]_vars
  <2> SUFFICES ASSUME TypeOK, [Next]_vars, pc # "idle", NEW t \in Task,
                      env.progress[t] \in {FINISHED, FINISHED_WITH_ERROR}
               PROVE  env'.progress[t] = env.progress[t]
    OBVIOUS
  <2>1. ~User
    BY DEF User, DoBatchTasks, QueryAllWorkers, PerformAgain,
           ResetFinishedTasksWithError
  <2>2. Lives(env, env')
    BY <2>1, ApiLives DEF Next
  <2> QED BY <2>2, EndedStays DEF TypeOK, EnvOK, Task
<1> QED BY <1>1, TypeCorrect, PTL DEF Spec, OutcomeIsFinal

-----------------------------------------------------------------------------
(* The scheduler implements BatchPromise.                                   *)

\* How the user sees one task.
StatusIn(x, t) ==
    IF x.progress[t] = EXECUTING THEN "running"
    ELSE IF x.progress[t] = FINISHED_WITH_ERROR /\ x.error[t] # "STATUS"
         THEN "failed"
    ELSE IF x.progress[t] = WAITFOR_CONNECTING THEN "waiting" ELSE "done"

\* That is what the refinement mapping says of it.
LEMMA StatusOfEach ==
    ASSUME NEW x, EnvOK(x)
    PROVE  StatusOf(x) = [t \in TasksOf(x) |-> StatusIn(x, t)]
<1>1. ASSUME NEW t \in TasksOf(x)
      PROVE  StatusOf(x)[t] = StatusIn(x, t)
  <2>1. x.progress[t] \in Progress
    BY DEF EnvOK, Env, TasksOf
  <2> QED BY <2>1
     DEF StatusOf, StatusIn, Executing, Requeued, Done, Pending, Progress,
         EXECUTING, WAITFOR_CONNECTING, FINISHED, FINISHED_WITH_ERROR
<1> QED BY <1>1 DEF StatusOf

\* The user sees one task change when one is moved.
LEMMA MovedStatus ==
    ASSUME NEW x, EnvOK(x), NEW y, EnvOK(y), NEW t \in TasksOf(x), NEW p, NEW e,
           Moved(x, y, t, p, e)
    PROVE  /\ StatusOf(y) = [StatusOf(x) EXCEPT ![t] = StatusIn(y, t)]
           /\ y.progress[t] = p
<1>1. TasksOf(y) = TasksOf(x)
  BY DEF Moved, TasksOf
<1>2. y.progress[t] = p
  BY DEF Moved, EnvOK, Env, TasksOf
<1>3. ASSUME NEW u \in TasksOf(x), u # t
      PROVE  StatusIn(y, u) = StatusIn(x, u)
  <2>1. y.progress[u] = x.progress[u] /\ y.error[u] = x.error[u]
    BY <1>3 DEF Moved, EnvOK, Env, TasksOf
  <2> QED BY <2>1 DEF StatusIn
<1>4. [u \in TasksOf(x) |-> StatusIn(y, u)]
        = [[u \in TasksOf(x) |-> StatusIn(x, u)] EXCEPT ![t] = StatusIn(y, t)]
  BY <1>3
<1> QED BY <1>1, <1>2, <1>4, StatusOfEach

\* The sets of tasks the promise speaks of.
LEMMA StatusSets ==
    ASSUME NEW x, EnvOK(x)
    PROVE  /\ DOMAIN StatusOf(x) = TasksOf(x)
           /\ {t \in TasksOf(x) : StatusOf(x)[t] = "running"} = Executing(x)
           /\ {t \in TasksOf(x) : StatusOf(x)[t] = "failed"} = Requeued(x)
BY StatusOfEach DEF StatusIn, Executing, Requeued, EXECUTING,
                    FINISHED_WITH_ERROR

\* The number of tasks is the same for both specifications.
LEMMA PromiseCounts ==
    ASSUME NEW S PROVE Promise!Cardinality(S) = Cardinality(S)
BY DEF Promise!Cardinality, Cardinality

\* A step of the scheduler is one of the promise, if a batch with a requeued
\* task is interrupted.
LEMMA LivesKeepsPromise ==
    ASSUME EnvOK(env), EnvOK(env'), Counted(env), Marked(env),
           Lives(env, env')
    PROVE  Promise!Next \/ UNCHANGED <<StatusOf(env), env.workers_count>>
<1>1. DOMAIN StatusOf(env) = TasksOf(env)
  BY StatusSets
<1>2. CASE Unmoved(env, env')
  <2>1. TasksOf(env') = TasksOf(env)
    BY <1>2 DEF Unmoved, TasksOf
  <2>2. StatusOf(env') = StatusOf(env)
    BY <1>2, <2>1, StatusOfEach DEF Unmoved, StatusIn
  <2> QED BY <1>2, <2>2 DEF Unmoved
<1>3. ASSUME NEW t \in TasksOf(env), Given(env, env', t)
      PROVE  Promise!Give(t)
  <2>1. PICK e \in TaskErrors : Moved(env, env', t, EXECUTING, e)
    BY <1>3 DEF Given
  <2>2. StatusOf(env') = [StatusOf(env) EXCEPT ![t] = "running"]
    BY <2>1, MovedStatus DEF StatusIn
  <2>3. StatusOf(env)[t] = "waiting"
    BY <1>3, StatusOfEach DEF Given, StatusIn, WAITFOR_CONNECTING, EXECUTING,
                              FINISHED_WITH_ERROR
  <2>4. Promise!In("failed") = {}
    BY <1>1, <1>3, StatusSets DEF Promise!In, Given, Marked
  <2>5. Promise!In("running") = Executing(env)
    BY <1>1, StatusSets DEF Promise!In
  <2>6. Promise!Cardinality(Executing(env)) < env.workers_count
    BY <1>3, PromiseCounts DEF Given, Counted
  <2>7. env'.workers_count = env.workers_count
    BY <2>1 DEF Moved
  <2> QED BY <2>2, <2>3, <2>4, <2>5, <2>6, <2>7 DEF Promise!Give
<1>4. ASSUME NEW t \in TasksOf(env), TakenBack(env, env', t)
      PROVE  Promise!TakeBack(t)
  <2>1. PICK e \in TaskErrors : Moved(env, env', t, WAITFOR_CONNECTING, e)
    BY <1>4 DEF TakenBack
  <2>2. StatusOf(env') = [StatusOf(env) EXCEPT ![t] = "waiting"]
    BY <2>1, MovedStatus DEF StatusIn, WAITFOR_CONNECTING, EXECUTING,
                             FINISHED_WITH_ERROR
  <2>3. StatusOf(env)[t] = "running"
    BY <1>4, StatusOfEach DEF TakenBack, StatusIn
  <2>4. env'.workers_count = env.workers_count
    BY <2>1 DEF Moved
  <2> QED BY <2>2, <2>3, <2>4 DEF Promise!TakeBack
<1>5. ASSUME NEW t \in TasksOf(env), Ended(env, env', t)
      PROVE  Promise!End(t)
  <2>1. PICK p \in {FINISHED, FINISHED_WITH_ERROR}, e \in TaskErrors :
           Moved(env, env', t, p, e)
    BY <1>5 DEF Ended
  <2>2. /\ StatusOf(env') = [StatusOf(env) EXCEPT ![t] = StatusIn(env', t)]
        /\ env'.progress[t] = p
    BY <2>1, MovedStatus
  <2>3. StatusIn(env', t) \in {"done", "failed"}
    BY <2>2 DEF StatusIn, WAITFOR_CONNECTING, EXECUTING, FINISHED,
                FINISHED_WITH_ERROR
  <2>4. StatusOf(env)[t] \in {"waiting", "running"}
    BY <1>5, StatusOfEach DEF Ended, StatusIn, WAITFOR_CONNECTING, EXECUTING,
                              FINISHED_WITH_ERROR
  <2>5. env'.workers_count = env.workers_count
    BY <2>1 DEF Moved
  <2> QED BY <2>2, <2>3, <2>4, <2>5 DEF Promise!End
<1> QED BY <1>1, <1>2, <1>3, <1>4, <1>5 DEF Lives, Promise!Next

\* A user who begins a batch submits it, and one who resets its failed tasks
\* has them tried again.
LEMMA UserKeepsPromise ==
    ASSUME CountersInv, CountersInv', MayReset \subseteq {TRUE} \X Nat, User
    PROVE  Promise!Next \/ UNCHANGED <<StatusOf(env), env.workers_count>>
<1>1. EnvOK(env) /\ EnvOK(env')
  BY DEF CountersInv, TypeOK, EnvOK
<1>2. ASSUME NEW n \in TasksCounts, NEW w \in WorkersCounts,
             DoBatchTasks(n, w), n = 0
      PROVE  UNCHANGED env
  BY <1>2 DEF DoBatchTasks, BegunBatch
<1>3. ASSUME NEW n \in TasksCounts, NEW w \in WorkersCounts,
             DoBatchTasks(n, w), n # 0
      PROVE  Promise!Next
  <2> DEFINE v == IF w = 0 \/ w > n THEN n ELSE w
  <2>1. n \in Nat /\ w \in Nat /\ v \in 0..n
    OBVIOUS
  <2>2. /\ env'.tasks_count = n
        /\ env'.workers_count = v
        /\ env'.progress = [t \in 1..n |-> WAITFOR_CONNECTING]
    BY <1>1, <1>3 DEF DoBatchTasks, BegunBatch, EnvOK, Env
  <2>3. StatusOf(env') = [t \in 1..n |-> "waiting"]
    BY <1>1, <2>2, StatusOfEach
       DEF TasksOf, StatusIn, WAITFOR_CONNECTING, EXECUTING,
           FINISHED_WITH_ERROR
  <2>4. Promise!Submit(n, v)
    BY <2>2, <2>3 DEF Promise!Submit
  <2> QED BY <2>1, <2>4 DEF Promise!Next
<1>4. CASE PerformAgain \/ \E k \in 0..MaxNodes : QueryAllWorkers(k)
  <2>1. Unmoved(env, env')
    BY <1>1, <1>4 DEF PerformAgain, QueryAllWorkers, GotWorkers, Unmoved,
                      EnvOK, Env
  <2>2. TasksOf(env') = TasksOf(env)
    BY <2>1 DEF Unmoved, TasksOf
  <2>3. StatusOf(env') = StatusOf(env)
    BY <1>1, <2>1, <2>2, StatusOfEach DEF Unmoved, StatusIn
  <2> QED BY <2>1, <2>3 DEF Unmoved
<1>5. CASE ResetFinishedTasksWithError
  <2>1. env.by_app = TRUE /\ env' = ResetEnv(env)
    BY <1>5 DEF ResetFinishedTasksWithError
  <2>2. TasksOf(env') = TasksOf(env) /\ env'.workers_count = env.workers_count
    BY <1>1, <2>1 DEF ResetEnv, EnvOK, Env, TasksOf
  <2>3. ASSUME NEW t \in TasksOf(env)
        PROVE  StatusIn(env', t) = IF StatusOf(env)[t] = "failed" THEN "waiting"
                                   ELSE StatusOf(env)[t]
    <3>1. /\ env'.progress[t] = IF env.progress[t] = FINISHED_WITH_ERROR
                                THEN WAITFOR_CONNECTING ELSE env.progress[t]
          /\ env'.error[t] = env.error[t]
      BY <1>1, <2>1 DEF ResetEnv, EnvOK, Env
    <3>2. env.error[t] # "STATUS"
      BY <2>1 DEF CountersInv, NoneIgnored
    <3>3. StatusOf(env)[t] = StatusIn(env, t)
      BY <1>1, StatusOfEach
    <3> QED BY <3>1, <3>2, <3>3
            DEF StatusIn, WAITFOR_CONNECTING, EXECUTING, FINISHED_WITH_ERROR
  <2>4. DOMAIN StatusOf(env) = TasksOf(env)
    BY <1>1, StatusSets
  <2>5. Promise!Retry
    BY <1>1, <2>2, <2>3, <2>4, StatusOfEach DEF Promise!Retry
  <2> QED BY <2>5 DEF Promise!Next
<1> QED BY <1>2, <1>3, <1>4, <1>5 DEF User

\* The scheduler keeps the promise of BatchPromise for every batch: a task is
\* given out only while it waits, nothing has failed and a worker is due, and
\* ends once; only the user has a failed one tried again.
THEOREM SchedulerKeepsPromise ==
    ASSUME MayReset \subseteq {TRUE} \X Nat, ~SelectMayFail
    PROVE  Spec => KeepsPromise
<1>1. Init => Promise!Init
  <2> SUFFICES ASSUME Init PROVE Promise!Init
    OBVIOUS
  <2>1. PICK byApp \in ByApp : env = NewEnv(byApp)
    BY DEF Init
  <2>2. env.tasks_count = 0 /\ env.workers_count = 0
    BY <2>1 DEF NewEnv
  <2> QED BY <2>2 DEF Promise!Init, StatusOf, TasksOf
<1>2. CountersInv /\ CountersInv' /\ RequeuedMeansInterrupted /\ [Next]_vars
        => [Promise!Next]_(Promise!promise)
  <2> SUFFICES ASSUME CountersInv, CountersInv', RequeuedMeansInterrupted,
                      [Next]_vars
               PROVE  \/ Promise!Next
                      \/ UNCHANGED <<StatusOf(env), env.workers_count>>
    BY DEF Promise!promise
  <2>1. EnvOK(env) /\ EnvOK(env') /\ Counted(env) /\ TypeOK
    BY DEF CountersInv, TypeOK, EnvOK
  <2>2. Marked(env)
    BY DEF RequeuedMeansInterrupted, Marked
  <2>3. CASE User
    BY <2>3, UserKeepsPromise
  <2>4. CASE Api \/ Workers \/ UNCHANGED vars
    BY <2>1, <2>2, <2>4, ApiLives, LivesKeepsPromise
  <2> QED BY <2>3, <2>4 DEF Next
<1> QED BY <1>1, <1>2, CountersInvHolds, RequeuedAlwaysInterrupts, PTL
        DEF Spec, KeepsPromise, Promise!Spec
=============================================================================
