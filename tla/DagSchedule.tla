---------------------------- MODULE DagSchedule ----------------------------
(***************************************************************************)
(* The DAG engine (src/src/tfc/dag/dc4c_tfc_dag.c): a schedule of batches, *)
(* linked by directions, of which those run whose predecessors are done.   *)
(*                                                                         *)
(* The executing batches' environments go to DC4CPerformMultiBatchTasks    *)
(* (MultiBatchTasks) again and again; what that returns moves the          *)
(* executing batches down the graph.                                       *)
(***************************************************************************)
EXTENDS MultiBatchTasks, SequencesExt

CONSTANTS
    Directions,     \* Directions[s]: the sequence of <<from_batch, to_batch>>
                    \* of schedule s; Terminal is its begin and end
    TasksCount,     \* TasksCount[b]: the tasks configured for batch b
    InterruptByApp  \* the batches with interrupt_by_app

Schedule == DOMAIN Directions

\* The name that a direction from the begin or to the end has there.
Terminal == ""

NoSchedule == ""

BatchesOf(s) == {d[2] : d \in ToSet(Directions[s])} \ {Terminal}

ASSUME DagConstants ==
    /\ Terminal \notin Batch
    /\ NoSchedule \notin Schedule
    /\ \A s \in Schedule :
         /\ BatchesOf(s) \subseteq Batch
         /\ Directions[s] \in Seq((BatchesOf(s) \cup {Terminal}) \X
                                  (BatchesOf(s) \cup {Terminal}))
    /\ TasksCount \in [Batch -> Nat]
    /\ InterruptByApp \subseteq Batch

VARIABLES
    p_sched,                \* the loaded schedule, or NoSchedule
    tasks_array,            \* order_index of every task of the loaded batches
    progress,               \* the progress of every batch
    executing_batches_tree, \* the executing batches, a list
    interrupt_code,
    sched_progress          \* the schedule's progress

schedVars == <<p_sched, tasks_array, progress, executing_batches_tree,
               interrupt_code, sched_progress>>

dagVars == <<multiVars, schedVars>>

INIT == "INIT"

InitDag ==
    /\ InitMulti
    /\ p_sched = NoSchedule
    /\ tasks_array = [b \in Batch |-> <<>>]
    /\ progress = [b \in Batch |-> INIT]
    /\ executing_batches_tree = <<>>
    /\ interrupt_code = NoInterrupt
    /\ sched_progress = INIT

-----------------------------------------------------------------------------
(* DC4CLoadDagScheduleFromStruct.                                           *)

\* The elements of q that are in S, in order.
Selected(q, S) ==
    LET first[n \in 0..Len(q)] ==
            IF n = 0 THEN <<>>
            ELSE IF q[n] \in S THEN Append(first[n - 1], q[n]) ELSE first[n - 1]
    IN  first[Len(q)]

\* Where the directions lead from a batch, in order.
Targets(s, b) ==
    LET leaving == Selected(Directions[s],
                            {d \in ToSet(Directions[s]) : d[1] = b})
    IN  [i \in DOMAIN leaving |-> leaving[i][2]]

\* How often the loader comes to a batch: once for every way to it.
Visits(s) ==
    LET visits[b \in BatchesOf(s) \cup {Terminal}] ==
            IF b = Terminal THEN 1
            ELSE MapThenSumSet(LAMBDA i : visits[Directions[s][i][1]],
                     {i \in DOMAIN Directions[s] : Directions[s][i][2] = b})
    IN  visits

\* Every visit of a batch links its targets to it once more.
Linked(s, b) ==
    LET targets == Targets(s, b)
        n == Len(targets)
    IN  [i \in 1..(n * Visits(s)[b]) |-> targets[((i - 1) % n) + 1]]

postdepend_batches_list ==
    [s \in Schedule |-> [b \in BatchesOf(s) \cup {Terminal} |-> Linked(s, b)]]

Postdepend(s, b) == postdepend_batches_list[s][b]

Predepend(s, b) == {from \in BatchesOf(s) \cup {Terminal} :
                        \E i \in DOMAIN Directions[s] : Directions[s][i] = <<from, b>>}

\* The directions lead to no batch again: the loader, which follows them, ends,
\* and comes to every batch (by induction on the batches before it).
ASSUME NoCycle ==
    \A s \in Schedule :
      /\ \A batches \in SUBSET BatchesOf(s) :
           batches # {} => \E b \in batches : Predepend(s, b) \cap batches = {}
      /\ Visits(s) \in [BatchesOf(s) \cup {Terminal} -> Nat \ {0}]

\* The schedule's structure, all its batches to begin; left has the tasks that
\* the configuration gives each batch.
LoadDagScheduleFromStruct(s, left) ==
    /\ p_sched' = s
    /\ tasks_array' = left
    /\ progress' = [b \in Batch |-> INIT]
    /\ executing_batches_tree' = <<>>
    /\ interrupt_code' = NoInterrupt
    /\ sched_progress' = EXECUTING

\* DC4CUnloadDagSchedule, DC4CFreeDagBatch with the batches' environments.
UnloadDagSchedule ==
    /\ p_sched' = NoSchedule
    /\ tasks_array' = [b \in Batch |-> <<>>]
    /\ progress' = [b \in Batch |-> INIT]
    /\ executing_batches_tree' = <<>>
    /\ interrupt_code' = NoInterrupt
    /\ sched_progress' = INIT
    /\ penv' = [b \in Batch |-> NewEnv(FALSE)]
    /\ finished_flag' = {}
    /\ a_penvs' = <<>>
    /\ begin_index' = 1
    /\ pc' = "user"
    /\ turn' = <<>>
    /\ result' = [code |-> NoInterrupt, batch |-> NoBatch]

-----------------------------------------------------------------------------
(* DC4CBeginDagSchedule.                                                    *)

\* The new environments of batches that begin.
BeginBatches(begun) ==
    /\ penv' = [b \in Batch |->
                  IF b \notin ToSet(begun) THEN penv[b]
                  ELSE LET n == Len(tasks_array[b])
                       IN  BegunBatch(NewEnv(b \in InterruptByApp), n, n)]
    /\ finished_flag' = finished_flag \ ToSet(begun)

BeginDagSchedule ==
    LET begun == Selected(Postdepend(p_sched, Terminal), BatchesOf(p_sched))
    IN  /\ sched_progress' = EXECUTING
        /\ BeginBatches(begun)
        /\ progress' = [b \in Batch |->
                          IF b \in ToSet(begun) THEN EXECUTING ELSE progress[b]]
        /\ executing_batches_tree' = executing_batches_tree \o begun
        /\ UNCHANGED <<p_sched, tasks_array, interrupt_code, a_penvs,
                       begin_index, pc, turn, result, faults>>

-----------------------------------------------------------------------------
(* DC4CPerformDagSchedule.                                                  *)

FinalProgress ==
    IF interrupt_code # NoInterrupt THEN FINISHED_WITH_ERROR ELSE FINISHED

\* Nothing executes.
NothingExecutes ==
    /\ pc = "user"
    /\ executing_batches_tree = <<>>
    /\ sched_progress' = FinalProgress
    /\ UNCHANGED <<multiVars, p_sched, tasks_array, progress,
                   executing_batches_tree, interrupt_code>>

PerformDagSchedule ==
    /\ executing_batches_tree # <<>>
    /\ PerformMultiBatchTasks(executing_batches_tree)
    /\ UNCHANGED schedVars

\* Mutant: one predecessor that is done is enough.
OnePredecessorDone(b, now) ==
    \E from \in Predepend(p_sched, b) : from # Terminal /\ now[from] = FINISHED

\* All predecessors of b are done; the begin of the schedule never is.
PredecessorsDone(b, now) ==
    \A from \in Predepend(p_sched, b) : from # Terminal /\ now[from] = FINISHED

\* Mutant: the link to the end of the schedule is followed.
MovedToEnd(b, code, now) ==
    IF code # NoInterrupt \/ now[b] \notin {FINISHED, FINISHED_WITH_ERROR}
    THEN <<>>
    ELSE Selected(Postdepend(p_sched, b),
                  {c \in BatchesOf(p_sched) \cup {Terminal} : PredecessorsDone(c, now)})

\* The successors that MovedownExecutingTree begins: none behind a link to the
\* end of the schedule.
MovedTo(b, code, now) ==
    LET post == Postdepend(p_sched, b)
        upToEnd == SelectInSeq(post, LAMBDA c : c = Terminal)
        reached == IF upToEnd = 0 THEN post ELSE SubSeq(post, 1, upToEnd - 1)
    IN  IF code # NoInterrupt \/ now[b] \notin {FINISHED, FINISHED_WITH_ERROR}
        THEN <<>>
        ELSE Selected(reached,
                      {c \in BatchesOf(p_sched) : PredecessorsDone(c, now)})

\* MovedownExecutingTree for the batch at i of the executing batches: each
\* successor is inserted right behind it, and it leaves the list if it has
\* finished without an error.
MovedownExecutingTree(i, code, now) ==
    LET b == executing_batches_tree[i]
        begun == MovedTo(b, code, now)
        before == SubSeq(executing_batches_tree, 1,
                         IF now[b] = FINISHED THEN i - 1 ELSE i)
        behind == SubSeq(executing_batches_tree, i + 1,
                         Len(executing_batches_tree))
    IN  /\ executing_batches_tree' = before \o Reverse(begun) \o behind
        /\ BeginBatches(begun)
        /\ progress' = [c \in Batch |->
                          IF c \in ToSet(begun) THEN EXECUTING ELSE now[c]]

\* DC4CPerformMultiBatchTasks has returned with a batch.
PerformedBatch ==
    LET b == result.batch
        finished == result.code = "BATCH_TASKS_FINISHED"
        failed == result.code \notin {"BATCH_TASKS_FINISHED", "TASK_FINISHED"}
        now == [progress EXCEPT ![b] =
                  IF failed THEN FINISHED_WITH_ERROR
                  ELSE IF finished /\ @ # FINISHED_WITH_ERROR THEN FINISHED
                  ELSE @]
        code == IF failed THEN result.code ELSE interrupt_code
    IN  /\ pc = "returned"
        /\ b # NoBatch
        /\ interrupt_code' = code
        /\ MovedownExecutingTree(SelectInSeq(executing_batches_tree,
                                             LAMBDA c : c = b), code, now)
        /\ pc' = "user"
        /\ result' = [code |-> NoInterrupt, batch |-> NoBatch]
        /\ a_penvs' = <<>>
        /\ UNCHANGED <<p_sched, tasks_array, sched_progress, begin_index, turn,
                       faults>>

\* It has returned DC4C_INFO_ALL_ENVS_FINISHED.
PerformedAll ==
    /\ pc = "returned"
    /\ result.batch = NoBatch
    /\ sched_progress' = FinalProgress
    /\ pc' = "user"
    /\ result' = [code |-> NoInterrupt, batch |-> NoBatch]
    /\ a_penvs' = <<>>
    /\ UNCHANGED <<penv, finished_flag, begin_index, turn, faults, p_sched,
                   tasks_array, progress, executing_batches_tree,
                   interrupt_code>>
=============================================================================
