------------------------------- MODULE Hzbat -------------------------------
(***************************************************************************)
(* hzbat, the batch processing of a business day (src/hzbat/hzbat.c): it   *)
(* loads schedules from a database, has the DAG engine (DagSchedule) carry *)
(* them on, and records every batch and task that begins or ends, so that  *)
(* a run that fails or dies can be continued by another one.               *)
(*                                                                         *)
(* The database outlives the process; everything else is lost with it.  A  *)
(* record is committed by the callback of the step it is about, and one    *)
(* that cannot be written is rolled back and forgotten.  answers says what *)
(* workers have really answered; the process does not see it.              *)
(***************************************************************************)
EXTENDS DagSchedule

CONSTANTS
    Schedules,  \* the schedules in the order of order_index
    Pretasks,   \* the batches with a pretask, which inserts their tasks
    Filtered,   \* the batches whose filter excludes the business date
    MaxRuns     \* bound: the times a user starts hzbat

ASSUME HzbatConstants ==
    /\ Schedules \in Seq(Schedule)
    /\ ToSet(Schedules) = Schedule
    /\ Pretasks \subseteq Batch
    /\ Filtered \subseteq Batch
    /\ MaxRuns \in Nat
    /\ \A s, r \in Schedule : s # r => BatchesOf(s) \cap BatchesOf(r) = {}
    /\ Batch = UNION {BatchesOf(s) : s \in Schedule}

VARIABLES
    db,         \* the tables: progress of schedules, batches, pretasks, tasks,
                \* and the batches whose tasks are inserted
    step,       \* what the process does
    remaining,  \* the schedules that hzbat_all_schedules has yet to come to
    runs,       \* the runs so far
    lost,       \* the records that could not be written
    answers,    \* what workers have answered: <<batch, task, answer>>
    unprepared  \* history: the batches whose pretask was abandoned, or not
                \* executed, and whose tasks were not inserted then

hzbatVars == <<db, step, remaining, runs, lost, answers, unprepared>>

vars == <<dagVars, hzbatVars>>

idleMulti == <<penv, finished_flag, a_penvs, begin_index, pc, turn, result>>

Steps == {"idle", "next", "prepare", "load", "perform"}

TasksIn(b) == 1..TasksCount[b]

\* After hzbat_reset.sql, which deletes all tasks, and with those of batches
\* without a pretask inserted again.
Init ==
    /\ InitDag
    /\ db = [schedule |-> [s \in Schedule |-> INIT],
             batch    |-> [b \in Batch |-> INIT],
             pretask  |-> {},
             inserted |-> Batch \ Pretasks,
             task     |-> [b \in Batch |-> [t \in TasksIn(b) |-> INIT]]]
    /\ step = "idle"
    /\ remaining = <<>>
    /\ runs = 0
    /\ lost = 0
    /\ answers = {}
    /\ unprepared = {}

\* dbRollback after n records that could not be written; MaxFaults bounds them
\* together with the other faults.
Lost(n) ==
    /\ faults + lost + n <= MaxFaults
    /\ lost' = lost + n

-----------------------------------------------------------------------------
(* main and hzbat_all_schedules.                                            *)

\* hzbat <date> ALL
StartHzbat ==
    /\ step = "idle"
    /\ runs < MaxRuns
    /\ runs' = runs + 1
    /\ step' = "next"
    /\ remaining' = Schedules
    /\ UNCHANGED <<dagVars, db, lost, answers, unprepared>>

\* The process is killed, and its sessions are closed: so are the programs.
Crash ==
    /\ step # "idle"
    /\ step' = "idle"
    /\ remaining' = <<>>
    /\ UnloadDagSchedule
    /\ UNCHANGED <<faults, db, runs, lost, answers, unprepared>>

\* Schedules that are recorded as finished are passed over.
NextSchedule ==
    /\ step = "next"
    /\ IF remaining = <<>> THEN step' = "idle" /\ UNCHANGED remaining
       ELSE IF db.schedule[Head(remaining)] = FINISHED
       THEN remaining' = Tail(remaining) /\ UNCHANGED step
       ELSE step' = "prepare" /\ UNCHANGED remaining
    /\ UNCHANGED <<dagVars, db, runs, lost, answers, unprepared>>

\* Mutant: hzbat_all_schedules goes on with the next schedule.
GoesOn(code) ==
    /\ step' = "next"
    /\ remaining' = Tail(remaining)

\* hzbat_schedule returns: hzbat_all_schedules stops at a failure.
Scheduled(code) ==
    IF code = NoInterrupt
    THEN step' = "next" /\ remaining' = Tail(remaining)
    ELSE step' = "idle" /\ remaining' = <<>>

-----------------------------------------------------------------------------
(* HZBATDoPrepareTasks, with DC4CPerformBatchTasks call by call.            *)

\* The pretasks to be done: the batch that is made of them.
PretasksOf(s) == (BatchesOf(s) \cap Pretasks) \ (db.pretask \cup Filtered)

\* A pretask that runs inserts the tasks of its batch.
PretaskInserts(b) ==
    /\ step = "prepare"
    /\ b \in PretasksOf(Head(remaining))
    /\ db' = [db EXCEPT !.inserted = @ \cup {b}]
    /\ UNCHANGED <<dagVars, step, remaining, runs, lost, answers, unprepared>>

\* One pretask ends with a status of 0, after it has inserted the tasks, or
\* could not be stored by its worker: its progress is recorded either way.  If
\* the record is lost all are abandoned, and the schedule goes on.
PretaskFinishes(b) ==
    /\ step = "prepare"
    /\ b \in PretasksOf(Head(remaining))
    /\ \/ /\ db' = [db EXCEPT !.pretask = @ \cup {b}]
          /\ unprepared' = unprepared \cup ({b} \ db.inserted)
          /\ UNCHANGED <<step, lost>>
       \/ /\ Lost(1)
          /\ step' = "load"
          /\ unprepared' = unprepared
                             \cup (PretasksOf(Head(remaining)) \ db.inserted)
          /\ UNCHANGED db
    /\ UNCHANGED <<dagVars, remaining, runs, answers>>

\* A failure of any kind, which hzbat_schedule records.
PretaskFails ==
    /\ step = "prepare"
    /\ PretasksOf(Head(remaining)) # {}
    /\ \/ /\ db' = [db EXCEPT !.schedule[Head(remaining)] = FINISHED_WITH_ERROR]
          /\ UNCHANGED lost
       \/ Lost(1) /\ UNCHANGED db
    /\ Scheduled("APP")
    /\ UNCHANGED <<dagVars, runs, answers, unprepared>>

PretasksDone ==
    /\ step = "prepare"
    /\ PretasksOf(Head(remaining)) = {}
    /\ step' = "load"
    /\ UNCHANGED <<dagVars, db, remaining, runs, lost, answers, unprepared>>

-----------------------------------------------------------------------------
(* HZBATLoadDagScheduleFromDatabase and DC4CBeginDagSchedule.               *)

\* Mutant: every task is loaded again.
LoadedAll(b) ==
    IF b \in Filtered \/ b \notin db.inserted \/ db.batch[b] = FINISHED THEN <<>>
    ELSE [t \in TasksIn(b) |-> t]

\* The tasks of a batch that are not recorded as finished, compacted.
Loaded(b) ==
    IF b \in Filtered \/ b \notin db.inserted \/ db.batch[b] = FINISHED THEN <<>>
    ELSE Selected([t \in TasksIn(b) |-> t],
                  {t \in TasksIn(b) : db.task[b][t] # FINISHED})

\* The schedule is recorded as executing before its tables are read.
LoadSchedule ==
    LET s == Head(remaining)
    IN  /\ step = "load"
        /\ p_sched = NoSchedule
        /\ db' = [db EXCEPT !.schedule[s] = EXECUTING]
        /\ LoadDagScheduleFromStruct(s,
               [b \in Batch |-> IF b \in BatchesOf(s) THEN Loaded(b) ELSE <<>>])
        /\ UNCHANGED <<multiVars, step, remaining, runs, lost, answers, unprepared>>

\* That record is lost; or the file of a program is missing, or the tables
\* cannot be read.
LoadFails ==
    /\ step = "load"
    /\ p_sched = NoSchedule
    /\ \/ Lost(1) /\ UNCHANGED <<db, faults>>
       \/ /\ faults < MaxFaults
          /\ faults' = faults + 1
          /\ db' = [db EXCEPT !.schedule[Head(remaining)] = EXECUTING]
          /\ UNCHANGED lost
    /\ Scheduled("FILE_NOT_FOUND")
    /\ UNCHANGED <<idleMulti, schedVars, runs, answers, unprepared>>

\* OnBeginDagBatchProc and OnFinishDagBatchProc for some batches: their progress
\* is recorded, but for the records that are lost.
RecordBatches(batches) ==
    \E unwritten \in SUBSET batches :
      /\ Lost(Cardinality(unwritten))
      /\ db' = [db EXCEPT !.batch = [b \in Batch |->
                    IF b \in batches \ unwritten THEN progress'[b] ELSE @[b]]]

\* The batches that begin in a step.
Begun == {b \in Batch : progress[b] # EXECUTING /\ progress'[b] = EXECUTING}

BeginSchedule ==
    /\ step = "load"
    /\ p_sched # NoSchedule
    /\ BeginDagSchedule
    /\ RecordBatches(Begun)
    /\ step' = "perform"
    /\ UNCHANGED <<remaining, runs, answers, unprepared>>

-----------------------------------------------------------------------------
(* The loop of hzbat_schedule, with the callbacks of the DAG engine.        *)

\* The tasks of b, by their place in the batch, whose callbacks a step calls:
\* those that begin and those that stop executing.
CalledBack(b) ==
    {i \in TasksOf(penv[b]) :
        /\ penv'[b].progress[i] # penv[b].progress[i]
        /\ EXECUTING \in {penv[b].progress[i], penv'[b].progress[i]}}

\* OnBegin-, OnCancel- and OnFinishDagBatchTaskProc: what is recorded of a task.
TaskRecord(x, i) ==
    IF x.progress[i] = WAITFOR_CONNECTING THEN INIT
    ELSE IF x.progress[i] = EXECUTING THEN EXECUTING
    ELSE IF x.error[i] = "NONE" THEN FINISHED
    ELSE FINISHED_WITH_ERROR

\* The callbacks for the tasks of b; some records may be lost.
RecordTasks(b) ==
    \E unwritten \in SUBSET CalledBack(b) :
      LET written == [i \in CalledBack(b) \ unwritten |-> tasks_array[b][i]]
          places(t) == {i \in DOMAIN written : written[i] = t}
      IN  /\ Lost(Cardinality(unwritten))
          /\ db' = [db EXCEPT !.task[b] = [t \in TasksIn(b) |->
                       IF places(t) = {} THEN @[t]
                       ELSE TaskRecord(penv'[b], CHOOSE i \in places(t) : TRUE)]]

\* DC4CPerformDagSchedule has not yet said that all is finished.
Performing == step = "perform" /\ sched_progress = EXECUTING

\* What a turn of DC4CPerformMultiBatchTasks leaves alone here.
InTurn == UNCHANGED <<schedVars, step, remaining, runs, unprepared>>

Perform == Performing /\ PerformDagSchedule /\ UNCHANGED hzbatVars

Skip == Performing /\ SkipEnv /\ UNCHANGED <<schedVars, hzbatVars>>

Offer(b) ==
    Performing /\ OfferTasks(b) /\ RecordTasks(b) /\ InTurn /\ UNCHANGED answers

Unreachable(b) ==
    Performing /\ QueryFails(b) /\ UNCHANGED <<schedVars, hzbatVars>>

Missing(b) ==
    /\ Performing
    /\ ProgramIsMissing(b)
    /\ RecordTasks(b)
    /\ InTurn
    /\ UNCHANGED answers

Look(b) == Performing /\ GoOn(b) /\ RecordTasks(b) /\ InTurn /\ UNCHANGED answers

Finish(b, t, answer) ==
    /\ Performing
    /\ TaskFinishes(b, t, answer)
    /\ RecordTasks(b)
    /\ answers' = answers \cup {<<b, tasks_array[b][t], answer>>}
    /\ InTurn

Fail(b, t, err) ==
    /\ Performing
    /\ TaskFails(b, t, err)
    /\ RecordTasks(b)
    /\ InTurn
    /\ UNCHANGED answers

\* A batch that is finished, and those that begin after it.
Performed ==
    /\ Performing
    /\ PerformedBatch
    /\ RecordBatches(Begun \cup IF result.code = "BATCH_TASKS_FINISHED"
                                THEN {result.batch} ELSE {})
    /\ UNCHANGED <<step, remaining, runs, answers, unprepared>>

AllPerformed ==
    /\ Performing
    /\ NothingExecutes \/ PerformedAll
    /\ UNCHANGED hzbatVars

\* Mutant: the end of the schedule is taken for its success.
UnloadFinished(s, code) == FINISHED

\* HZBATUnloadDagScheduleToDatabase
UnloadProgress(s, code) ==
    IF code = FINISHED THEN FINISHED ELSE FINISHED_WITH_ERROR

Unload ==
    LET s == Head(remaining)
    IN  /\ step = "perform"
        /\ sched_progress # EXECUTING
        /\ \/ /\ db' = [db EXCEPT !.schedule[s] =
                             UnloadProgress(s, sched_progress)]
              /\ Scheduled(interrupt_code)
              /\ UNCHANGED lost
           \/ /\ Lost(1)
              /\ Scheduled("DATABASE")
              /\ UNCHANGED db
        /\ UnloadDagSchedule
        /\ UNCHANGED <<faults, runs, answers, unprepared>>

-----------------------------------------------------------------------------
(* The whole.                                                               *)

\* NONE is an exit status of 0.
Answers == {"NONE", "STATUS", "NOT_RUN"}

Errors == {"TIMEOUT", "APP", "SEND_OR_RECEIVE", "DEPLOY"}

TaskEnds(b) ==
    \E t \in Executing(penv[b]) :
       \/ \E answer \in Answers : Finish(b, t, answer)
       \/ \E err \in Errors : Fail(b, t, err)

Working ==
    \/ NextSchedule
    \/ \E b \in Batch : PretaskInserts(b)
    \/ \E b \in Batch : PretaskFinishes(b)
    \/ PretaskFails
    \/ PretasksDone
    \/ LoadSchedule
    \/ LoadFails
    \/ BeginSchedule
    \/ Perform
    \/ Skip
    \/ \E b \in Batch : Offer(b)
    \/ \E b \in Batch : Unreachable(b)
    \/ \E b \in Batch : Missing(b)
    \/ \E b \in Batch : Look(b)
    \/ \E b \in Batch : TaskEnds(b)
    \/ Performed
    \/ AllPerformed
    \/ Unload

Work == Working /\ faults' + lost' <= MaxFaults

Next == StartHzbat \/ Crash \/ Work

Spec == Init /\ [][Next]_vars

\* A turn in which a worker takes a task.
TaskBegins(b) == Offer(b) /\ Executing(penv'[b]) # Executing(penv[b])

\* The process goes on; when it asks and offers again and again it finds a
\* worker some time, and a program that runs ends some time.
FairSpec ==
    /\ Spec
    /\ WF_vars(Work)
    /\ SF_vars(\E b \in Batch : TaskBegins(b))
    /\ SF_vars(\E b \in Batch : TaskEnds(b))

-----------------------------------------------------------------------------
(* Properties.                                                              *)

\* The variables have their types.
TypeOK ==
    /\ \A b \in Batch : penv[b] \in Env(Len(tasks_array[b])) \cup Env(0)
    /\ finished_flag \subseteq Batch
    /\ pc \in {"user", "offer", "process", "returned"}
    /\ ToSet(turn) \cup ToSet(a_penvs) \cup ToSet(executing_batches_tree)
           \subseteq Batch
    /\ step \in Steps
    /\ p_sched \in Schedule \cup {NoSchedule}
    /\ \A b \in Batch : ToSet(tasks_array[b]) \subseteq TasksIn(b)
    /\ faults + lost \in 0..MaxFaults

\* The batches that the directions lead through to b: the fewest that contain
\* what leads to b or to one of them.
Before(s, b) ==
    {c \in BatchesOf(s) :
       \A batches \in SUBSET BatchesOf(s) :
         (\A d \in batches \cup {b} : Predepend(s, d) \ {Terminal} \subseteq batches)
            => c \in batches}

\* Workers have answered for every task of b, in this run or an earlier one;
\* or its tasks were not known, because the record of a pretask was lost
\* (hzbat.c:776) or the pretask was not executed.
Answered(b) ==
    \/ b \in Filtered \cup unprepared
    \/ \A t \in TasksIn(b) : \E answer \in Answers : <<b, t, answer>> \in answers

\* The tasks that a step starts.
StartedNow ==
    UNION {{<<b, tasks_array[b][i]>> :
              i \in {i \in CalledBack(b) : penv'[b].progress[i] = EXECUTING}} :
           b \in {b \in Batch : pc = "offer" /\ step' = "perform"}}

\* No task starts before workers have answered for every task of every batch
\* that leads to its own, whatever was lost, interrupted or begun by an earlier
\* run (MovedownExecutingTree, dc4c_tfc_dag.c:545).
PredecessorsFirst ==
    [][\A bt \in StartedNow :
          \A c \in Before(p_sched, bt[1]) : Answered(c)]_vars

\* A task that the database has as finished stays so and is not started again,
\* in this run or a later one (hzbat.c:939).
NeverAgain ==
    [][\A b \in Batch : \A t \in TasksIn(b) :
          db.task[b][t] = FINISHED =>
             /\ db'.task[b][t] = FINISHED
             /\ <<b, t>> \notin StartedNow]_vars

\* hzbat_all_schedules: a schedule's tasks start only when all schedules before
\* it are recorded as finished (hzbat.c:1411).
SchedulesInOrder ==
    [][StartedNow # {} =>
          \A i \in 1..(SelectInSeq(Schedules, LAMBDA s : s = p_sched) - 1) :
             db.schedule[Schedules[i]] = FINISHED]_vars

\* What the database says is true: a finished schedule has an answer for every
\* task (hzbat.c:1230), and a finished task ended with a status of 0
\* (hzbat.c:1199).
RecordsTellTruth ==
    /\ \A s \in Schedule :
         db.schedule[s] = FINISHED => \A b \in BatchesOf(s) : Answered(b)
    /\ \A b \in Batch : \A t \in TasksIn(b) :
         db.task[b][t] = FINISHED => <<b, t, "NONE">> \in answers

\* When a schedule has come to its end, nothing of it is left recorded as
\* executing, unless a record was lost or an earlier run died: every batch that
\* began was reported, and every task that began has ended (hzbat.c:1086, 1177).
NothingLeftExecuting ==
    /\ step = "perform"
    /\ sched_progress # EXECUTING
    /\ lost = 0
    /\ runs = 1
    => \A b \in BatchesOf(p_sched) :
          /\ db.batch[b] # EXECUTING
          /\ \A t \in TasksIn(b) : db.task[b][t] # EXECUTING

\* The loop of DC4CPerformMultiBatchTasks turns for ever: of every batch that is
\* left the last running task was sent back after an interrupt, so that nothing
\* runs and nothing may start, and only a new call would see that it is over.
Stuck ==
    /\ pc \in {"offer", "process"}
    /\ \A b \in ToSet(a_penvs) : PassedOver(b) \/ Over(penv[b])

\* Every run ends, with its schedules recorded, unless the loop is stuck or it
\* is killed (hzbat.c:1327, dc4c_api.c:1086).
RunEndsUnlessStuck == step # "idle" ~> step = "idle" \/ Stuck
=============================================================================
