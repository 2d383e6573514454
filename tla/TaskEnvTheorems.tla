------------------------- MODULE TaskEnvTheorems -------------------------
(***************************************************************************)
(* What the operators of TaskEnv do: the environment they give is one      *)
(* again, and its counters are still the numbers of tasks in the sets they *)
(* count, because each operator moves one task from one set to another (or *)
(* moves none) and changes the two counters to match.                      *)
(***************************************************************************)
EXTENDS TaskEnv, FiniteSetTheorems, TLAPS

EnvOK(x) == x.tasks_count \in Nat /\ x \in Env(x.tasks_count)

\* The counters are the numbers of tasks.
Counted(x) ==
    /\ x.running_count = Cardinality(Executing(x))
    /\ x.prepare_count = Cardinality(Pending(x))
    /\ x.finished_count = Cardinality(Done(x))

\* y has the tasks of x, each with the outcome it has in x, and its counters.
SameTasks(x, y) ==
    /\ y.tasks_count = x.tasks_count
    /\ y.progress = x.progress
    /\ y.error = x.error
    /\ y.prepare_count = x.prepare_count
    /\ y.running_count = x.running_count
    /\ y.finished_count = x.finished_count
    /\ y.workers_count = x.workers_count
    /\ y.by_app = x.by_app

\* No more tasks run than the user allows.
Bounded(x) == x.running_count <= x.workers_count

\* A batch that failed programs interrupt ignores no exit status.
NoneIgnored(x) == x.by_app => \A t \in TasksOf(x) : x.error[t] # "STATUS"

\* A step from x to y that keeps what the counters are relied on for.
Maintains(x, y) ==
    /\ EnvOK(y)
    /\ y.by_app = x.by_app
    /\ Counted(x) => Counted(y)
    /\ Bounded(x) => Bounded(y)
    /\ NoneIgnored(x) => NoneIgnored(y)

\* A step that does so within one batch.
Kept(x, y) == Maintains(x, y) /\ y.tasks_count = x.tasks_count

-----------------------------------------------------------------------------
(* The sets of tasks.                                                       *)

\* The three sets the counters count are finite: they hold tasks of the batch.
LEMMA TaskSetsFinite ==
    ASSUME NEW x, x.tasks_count \in Nat
    PROVE  /\ IsFiniteSet(Executing(x))
           /\ IsFiniteSet(Pending(x))
           /\ IsFiniteSet(Done(x))
<1>1. IsFiniteSet(TasksOf(x))
  BY FS_Interval DEF TasksOf
<1>2. Executing(x) \in SUBSET TasksOf(x)
  BY DEF Executing
<1>3. Pending(x) \in SUBSET TasksOf(x)
  BY DEF Pending, Requeued
<1>4. Done(x) \in SUBSET TasksOf(x)
  BY DEF Done
<1> QED BY <1>1, <1>2, <1>3, <1>4, FS_Subset

\* The three cardinalities are natural numbers.
LEMMA TaskSetsCounted ==
    ASSUME NEW x, x.tasks_count \in Nat
    PROVE  /\ Cardinality(Executing(x)) \in Nat
           /\ Cardinality(Pending(x)) \in Nat
           /\ Cardinality(Done(x)) \in Nat
BY TaskSetsFinite, FS_CardinalityType

\* No task is in two of the three sets.
LEMMA TaskSetsDisjoint ==
    ASSUME NEW x
    PROVE  /\ Executing(x) \cap Pending(x) = {}
           /\ Executing(x) \cap Done(x) = {}
           /\ Pending(x) \cap Done(x) = {}
BY DEF Executing, Pending, Done, Requeued, EXECUTING, WAITFOR_CONNECTING,
       FINISHED_WITH_ERROR

\* A step that touches no task keeps the sets and the counts.
LEMMA SameTasksSets ==
    ASSUME NEW x, NEW y, SameTasks(x, y)
    PROVE  /\ TasksOf(y) = TasksOf(x)
           /\ Executing(y) = Executing(x)
           /\ Requeued(y) = Requeued(x)
           /\ Pending(y) = Pending(x)
           /\ Done(y) = Done(x)
<1>1. TasksOf(y) = TasksOf(x) BY DEF SameTasks, TasksOf
<1>2. Executing(y) = Executing(x) BY <1>1 DEF SameTasks, Executing
<1>3. Requeued(y) = Requeued(x) BY <1>1 DEF SameTasks, Requeued
<1>4. Pending(y) = Pending(x) BY <1>1, <1>3 DEF SameTasks, Pending
<1>5. Done(y) = Done(x) BY <1>1, <1>2, <1>4 DEF Done
<1> QED BY <1>1, <1>2, <1>3, <1>4, <1>5

\* What touches no task keeps everything about the tasks.
LEMMA SameTasksKept ==
    ASSUME NEW x, NEW y, EnvOK(y), SameTasks(x, y)
    PROVE  Kept(x, y)
<1>1. Counted(x) => Counted(y) BY SameTasksSets DEF SameTasks, Counted
<1>2. Bounded(x) => Bounded(y) BY DEF SameTasks, Bounded
<1>3. NoneIgnored(x) => NoneIgnored(y)
  BY SameTasksSets DEF SameTasks, NoneIgnored
<1> QED BY <1>1, <1>2, <1>3 DEF SameTasks, Maintains, Kept

\* Two steps in a row.
LEMMA KeptTwice ==
    ASSUME NEW x, NEW y, NEW z, Kept(x, y), Kept(y, z)
    PROVE  Kept(x, z)
BY DEF Maintains, Kept

-----------------------------------------------------------------------------
(* The operators that touch no task.                                        *)

\* A connection to a register server touches no task.
LEMMA RServerConnectedOK ==
    ASSUME NEW x, EnvOK(x)
    PROVE  SameTasks(x, RServerConnected(x)) /\ Kept(x, RServerConnected(x))
<1>1. EnvOK(RServerConnected(x)) /\ SameTasks(x, RServerConnected(x))
  BY DEF EnvOK, Env, RServerConnected, SameTasks
<1> QED BY <1>1, SameTasksKept

\* Nor does its end.
LEMMA RServerClosedOK ==
    ASSUME NEW x, EnvOK(x)
    PROVE  SameTasks(x, RServerClosed(x)) /\ Kept(x, RServerClosed(x))
<1>1. EnvOK(RServerClosed(x)) /\ SameTasks(x, RServerClosed(x))
  BY DEF EnvOK, Env, RServerClosed, SameTasks
<1> QED BY <1>1, SameTasksKept

\* Nor does an interrupt.
LEMMA InterruptedOK ==
    ASSUME NEW x, EnvOK(x), NEW code \in InterruptCodes
    PROVE  SameTasks(x, Interrupted(x, code)) /\ Kept(x, Interrupted(x, code))
<1>1. EnvOK(Interrupted(x, code)) /\ SameTasks(x, Interrupted(x, code))
  BY DEF EnvOK, Env, Interrupted, SameTasks
<1> QED BY <1>1, SameTasksKept

\* Nor do the workers of an answer.
LEMMA GotWorkersOK ==
    ASSUME NEW x, EnvOK(x), NEW k \in Nat
    PROVE  SameTasks(x, GotWorkers(x, k)) /\ Kept(x, GotWorkers(x, k))
<1>1. EnvOK(GotWorkers(x, k)) /\ SameTasks(x, GotWorkers(x, k))
  BY DEF EnvOK, Env, GotWorkers, SameTasks
<1> QED BY <1>1, SameTasksKept

\* Nor do workers that refuse the connection.
LEMMA NodesRefusedOK ==
    ASSUME NEW x, EnvOK(x), NEW k \in 0..x.unused
    PROVE  SameTasks(x, NodesRefused(x, k)) /\ Kept(x, NodesRefused(x, k))
<1>1. x.unused - k \in Nat BY DEF EnvOK, Env
<1>2. EnvOK(NodesRefused(x, k)) /\ SameTasks(x, NodesRefused(x, k))
  BY <1>1 DEF EnvOK, Env, NodesRefused, SameTasks
<1> QED BY <1>2, SameTasksKept

-----------------------------------------------------------------------------
(* The operators that begin a batch or move one task.                       *)

\* A new environment is well formed and satisfies each invariant.
LEMMA NewEnvOK ==
    ASSUME NEW byApp \in BOOLEAN
    PROVE  /\ EnvOK(NewEnv(byApp)) /\ Counted(NewEnv(byApp))
           /\ Bounded(NewEnv(byApp)) /\ NoneIgnored(NewEnv(byApp))
<1>1. EnvOK(NewEnv(byApp))
  BY DEF EnvOK, Env, NewEnv, InterruptCodes, NoInterrupt
<1>2. TasksOf(NewEnv(byApp)) = {}
  BY DEF NewEnv, TasksOf
<1>3. /\ Executing(NewEnv(byApp)) = {}
      /\ Pending(NewEnv(byApp)) = {}
      /\ Done(NewEnv(byApp)) = {}
  BY <1>2 DEF Executing, Pending, Requeued, Done
<1>4. Counted(NewEnv(byApp))
  BY <1>3, FS_EmptySet DEF Counted, NewEnv
<1>5. Bounded(NewEnv(byApp))
  BY DEF Bounded, NewEnv
<1>6. NoneIgnored(NewEnv(byApp))
  BY <1>2 DEF NoneIgnored
<1> QED BY <1>1, <1>4, <1>5, <1>6

\* An environment stays one when its tasks and counters are replaced.
LEMMA EnvUpdated ==
    ASSUME NEW m, NEW x \in Env(m), NEW n, NEW w \in Nat,
           NEW p \in [1..n -> Progress], NEW e \in [1..n -> TaskErrors],
           NEW b \in Int, NEW c \in Int, NEW d \in Int
    PROVE  [x EXCEPT !.tasks_count = n, !.workers_count = w,
                     !.progress = p, !.error = e, !.prepare_count = b,
                     !.running_count = c, !.finished_count = d] \in Env(n)
BY DEF Env

\* A new batch starts from counters that match, whatever was before.
LEMMA BegunBatchOK ==
    ASSUME NEW x, EnvOK(x), NEW n \in Nat, NEW w \in Nat
    PROVE  Maintains(x, BegunBatch(x, n, w))
<1>1. CASE n = 0
  BY <1>1 DEF BegunBatch, Maintains
<1>2. CASE n # 0
  <2> DEFINE y == BegunBatch(x, n, w)
             ww == IF w = 0 \/ w > n THEN n ELSE w
             p  == [t \in 1..n |-> WAITFOR_CONNECTING]
             e  == [t \in 1..n |-> "NONE"]
  <2>1. ww \in Nat /\ p \in [1..n -> Progress] /\ e \in [1..n -> TaskErrors]
    BY DEF Progress, TaskErrors
  <2>2. y = [x EXCEPT !.tasks_count = n, !.workers_count = ww,
                      !.progress = p, !.error = e, !.prepare_count = n,
                      !.running_count = 0, !.finished_count = 0]
    BY <1>2 DEF BegunBatch
  <2>3. EnvOK(y)
    <3> HIDE DEF y, ww, p, e
    <3>1. x \in Env(x.tasks_count) BY DEF EnvOK
    <3>2. n \in Int /\ 0 \in Int OBVIOUS
    <3>3. y \in Env(n) BY <2>1, <2>2, <3>1, <3>2, EnvUpdated
    <3>4. y.tasks_count = n BY <3>3 DEF Env
    <3> QED BY <3>3, <3>4 DEF EnvOK
  <2>4. /\ y.tasks_count = n /\ y.workers_count = ww /\ y.by_app = x.by_app
        /\ y.progress = p /\ y.error = e
        /\ y.prepare_count = n /\ y.running_count = 0 /\ y.finished_count = 0
    BY <2>2 DEF EnvOK, Env
  <2>5. Executing(y) = {} /\ Pending(y) = 1..n /\ Done(y) = {}
    BY <2>4 DEF Executing, Pending, Requeued, Done, TasksOf, EXECUTING,
                WAITFOR_CONNECTING, FINISHED_WITH_ERROR
  <2>6. Cardinality(1..n) = n BY <1>2, FS_Interval
  <2>7. Counted(y) BY <2>4, <2>5, <2>6, FS_EmptySet DEF Counted
  <2>8. Bounded(y) BY <2>1, <2>4 DEF Bounded
  <2>9. NoneIgnored(y) BY <2>4 DEF NoneIgnored, TasksOf
  <2> QED BY <2>3, <2>4, <2>7, <2>8, <2>9 DEF Maintains
<1> QED BY <1>1, <1>2

\* A waiting task t becomes an executing one.
LEMMA StartedOK ==
    ASSUME NEW x, EnvOK(x), NEW t \in TasksOf(x),
           x.progress[t] = WAITFOR_CONNECTING, MayStart(x)
    PROVE  Kept(x, Started(x, t))
<1> DEFINE y == Started(x, t)
           p == [x.progress EXCEPT ![t] = EXECUTING]
<1>1. y = [x EXCEPT !.unused = x.unused - 1,
                    !.prepare_count = x.prepare_count - 1,
                    !.running_count = x.running_count + 1,
                    !.progress = p]
  BY DEF Started, EnvOK, Env
<1>2. /\ x.unused - 1 \in Nat
      /\ x.prepare_count - 1 \in Int
      /\ x.running_count + 1 \in Int
      /\ p \in [TasksOf(x) -> Progress]
  BY DEF EnvOK, Env, TasksOf, Progress, MayStart
<1>3. EnvOK(y)
  <2> HIDE DEF y, p
  <2> QED BY <1>1, <1>2 DEF EnvOK, Env, TasksOf
<1>4. /\ Executing(y) = Executing(x) \cup {t}
      /\ Pending(y) = Pending(x) \ {t}
      /\ Done(y) = Done(x)
  BY DEF Started, EnvOK, Env, Executing, Pending, Requeued, Done, TasksOf,
         EXECUTING, WAITFOR_CONNECTING, FINISHED_WITH_ERROR
<1>5. t \notin Executing(x) /\ t \in Pending(x)
  BY DEF Executing, Pending, EXECUTING, WAITFOR_CONNECTING
<1>6. /\ Cardinality(Executing(y)) = Cardinality(Executing(x)) + 1
      /\ Cardinality(Pending(y)) = Cardinality(Pending(x)) - 1
  BY <1>4, <1>5, TaskSetsFinite, FS_AddElement, FS_RemoveElement DEF EnvOK
<1>7. /\ y.running_count = x.running_count + 1
      /\ y.prepare_count = x.prepare_count - 1
      /\ y.finished_count = x.finished_count
      /\ y.tasks_count = x.tasks_count /\ y.workers_count = x.workers_count
      /\ y.by_app = x.by_app /\ y.error = x.error
  BY DEF Started, EnvOK, Env
<1>counted. Counted(x) => Counted(y)
  BY <1>3, <1>4, <1>6, <1>7 DEF Counted
<1>bounded. Bounded(x) => Bounded(y)
  BY <1>7 DEF EnvOK, Env, Bounded, MayStart
<1>ignored. NoneIgnored(x) => NoneIgnored(y)
  BY <1>7 DEF EnvOK, Env, TasksOf, NoneIgnored
<1> QED BY <1>3, <1>7, <1>counted, <1>bounded, <1>ignored DEF Maintains, Kept

\* A waiting task t that has no program is done.
LEMMA SkippedEmptyOK ==
    ASSUME NEW x, EnvOK(x), NEW t \in TasksOf(x),
           x.progress[t] = WAITFOR_CONNECTING
    PROVE  Kept(x, SkippedEmpty(x, t))
<1> DEFINE y == SkippedEmpty(x, t)
           p == [x.progress EXCEPT ![t] = FINISHED]
           e == [x.error EXCEPT ![t] = "PARAMETER"]
<1>1. y = [x EXCEPT !.prepare_count = x.prepare_count - 1,
                    !.finished_count = x.finished_count + 1,
                    !.progress = p, !.error = e]
  BY DEF SkippedEmpty, EnvOK, Env
<1>2. /\ x.prepare_count - 1 \in Int
      /\ x.finished_count + 1 \in Int
      /\ p \in [TasksOf(x) -> Progress]
      /\ e \in [TasksOf(x) -> TaskErrors]
  BY DEF EnvOK, Env, TasksOf, Progress, TaskErrors
<1>3. EnvOK(y)
  <2> HIDE DEF y, p, e
  <2> QED BY <1>1, <1>2 DEF EnvOK, Env, TasksOf
<1>4. /\ Executing(y) = Executing(x)
      /\ Pending(y) = Pending(x) \ {t}
      /\ Done(y) = Done(x) \cup {t}
  BY DEF SkippedEmpty, EnvOK, Env, Executing, Pending, Requeued, Done, TasksOf,
         EXECUTING, WAITFOR_CONNECTING, FINISHED, FINISHED_WITH_ERROR
<1>5. t \in Pending(x) /\ t \notin Done(x)
  BY DEF Pending, Done
<1>6. /\ Cardinality(Pending(y)) = Cardinality(Pending(x)) - 1
      /\ Cardinality(Done(y)) = Cardinality(Done(x)) + 1
  BY <1>4, <1>5, TaskSetsFinite, FS_AddElement, FS_RemoveElement DEF EnvOK
<1>7. /\ y.running_count = x.running_count
      /\ y.prepare_count = x.prepare_count - 1
      /\ y.finished_count = x.finished_count + 1
      /\ y.tasks_count = x.tasks_count /\ y.workers_count = x.workers_count
      /\ y.by_app = x.by_app /\ y.error = e
  BY DEF SkippedEmpty, EnvOK, Env
<1>counted. Counted(x) => Counted(y)
  BY <1>3, <1>4, <1>6, <1>7 DEF Counted
<1>bounded. Bounded(x) => Bounded(y)
  BY <1>7 DEF EnvOK, Env, Bounded
<1>ignored. NoneIgnored(x) => NoneIgnored(y)
  BY <1>7 DEF EnvOK, Env, TasksOf, NoneIgnored
<1> QED BY <1>3, <1>7, <1>counted, <1>bounded, <1>ignored DEF Maintains, Kept

\* A waiting task whose program the master cannot find fails; it stays pending.
LEMMA ProgramMissingOK ==
    ASSUME NEW x, EnvOK(x), NEW t \in TasksOf(x),
           x.progress[t] = WAITFOR_CONNECTING
    PROVE  Kept(x, ProgramMissing(x, t))
<1> DEFINE y == ProgramMissing(x, t)
           p == [x.progress EXCEPT ![t] = FINISHED_WITH_ERROR]
           e == [x.error EXCEPT ![t] = "APP"]
<1>1. y = [x EXCEPT !.progress = p, !.error = e]
  BY DEF ProgramMissing, EnvOK, Env
<1>2. /\ p \in [TasksOf(x) -> Progress]
      /\ e \in [TasksOf(x) -> TaskErrors]
  BY DEF EnvOK, Env, TasksOf, Progress, TaskErrors
<1>3. EnvOK(y)
  <2> HIDE DEF y, p, e
  <2> QED BY <1>1, <1>2 DEF EnvOK, Env, TasksOf
<1>4. /\ Executing(y) = Executing(x)
      /\ Pending(y) = Pending(x)
      /\ Done(y) = Done(x)
  BY DEF ProgramMissing, EnvOK, Env, Executing, Pending, Requeued, Done, TasksOf,
         EXECUTING, WAITFOR_CONNECTING, FINISHED_WITH_ERROR
<1>5. /\ y.running_count = x.running_count
      /\ y.prepare_count = x.prepare_count
      /\ y.finished_count = x.finished_count
      /\ y.tasks_count = x.tasks_count /\ y.workers_count = x.workers_count
      /\ y.by_app = x.by_app /\ y.error = e
  BY DEF ProgramMissing, EnvOK, Env
<1>counted. Counted(x) => Counted(y)
  BY <1>3, <1>4, <1>5 DEF Counted
<1>bounded. Bounded(x) => Bounded(y)
  BY <1>5 DEF EnvOK, Env, Bounded
<1>ignored. NoneIgnored(x) => NoneIgnored(y)
  BY <1>5 DEF EnvOK, Env, TasksOf, NoneIgnored
<1> QED BY <1>3, <1>5, <1>counted, <1>bounded, <1>ignored DEF Maintains, Kept

\* An executing task fails with an error other than an exit status, or is
\* turned away: it is pending again.
LEMMA PutBackOK ==
    ASSUME NEW x, EnvOK(x), NEW t \in TasksOf(x),
           x.progress[t] = EXECUTING, NEW y, NEW s \in Progress, NEW err \in TaskErrors,
           s \in {WAITFOR_CONNECTING, FINISHED_WITH_ERROR}, err # "STATUS",
           y = [x EXCEPT !.running_count = @ - 1, !.prepare_count = @ + 1,
                         !.progress[t] = s, !.error[t] = err]
    PROVE  Kept(x, y)
<1> DEFINE p == [x.progress EXCEPT ![t] = s]
           e == [x.error EXCEPT ![t] = err]
<1>1. y = [x EXCEPT !.running_count = x.running_count - 1,
                    !.prepare_count = x.prepare_count + 1,
                    !.progress = p, !.error = e]
  BY DEF EnvOK, Env
<1>2. /\ x.running_count - 1 \in Int
      /\ x.prepare_count + 1 \in Int
      /\ p \in [TasksOf(x) -> Progress]
      /\ e \in [TasksOf(x) -> TaskErrors]
  BY DEF EnvOK, Env, TasksOf
<1>3. EnvOK(y)
  <2> HIDE DEF p, e
  <2> QED BY <1>1, <1>2 DEF EnvOK, Env, TasksOf
<1>tasks. y.tasks_count = x.tasks_count /\ y.progress = p /\ y.error = e
  BY <1>1 DEF EnvOK, Env
<1>4. /\ Executing(y) = Executing(x) \ {t}
      /\ Pending(y) = Pending(x) \cup {t}
      /\ Done(y) = Done(x)
  BY <1>tasks DEF EnvOK, Env, Executing, Pending, Requeued, Done, TasksOf,
         EXECUTING, WAITFOR_CONNECTING, FINISHED_WITH_ERROR
<1>5. t \in Executing(x) /\ t \notin Pending(x)
  BY DEF Executing, Pending, Requeued, EXECUTING, WAITFOR_CONNECTING,
         FINISHED_WITH_ERROR
<1>6. /\ Cardinality(Executing(y)) = Cardinality(Executing(x)) - 1
      /\ Cardinality(Pending(y)) = Cardinality(Pending(x)) + 1
  <2>1. IsFiniteSet(Executing(x)) /\ IsFiniteSet(Pending(x))
    BY TaskSetsFinite DEF EnvOK
  <2> QED BY <1>4, <1>5, <2>1, FS_AddElement, FS_RemoveElement
<1>7. /\ y.running_count = x.running_count - 1
      /\ y.prepare_count = x.prepare_count + 1
      /\ y.finished_count = x.finished_count
      /\ y.tasks_count = x.tasks_count /\ y.workers_count = x.workers_count
      /\ y.by_app = x.by_app /\ y.error = e
  BY <1>1 DEF EnvOK, Env
<1>counted. Counted(x) => Counted(y)
  BY <1>3, <1>4, <1>6, <1>7 DEF Counted
<1>bounded. Bounded(x) => Bounded(y)
  BY <1>7 DEF EnvOK, Env, Bounded
<1>ignored. NoneIgnored(x) => NoneIgnored(y)
  BY <1>7 DEF EnvOK, Env, TasksOf, NoneIgnored
<1> QED BY <1>3, <1>7, <1>counted, <1>bounded, <1>ignored DEF Maintains, Kept

\* A task that lost its connection is counted as put back.
LEMMA FailedTaskOK ==
    ASSUME NEW x, EnvOK(x), NEW t \in Executing(x),
           NEW err \in TaskErrors \ {"STATUS"}
    PROVE  Kept(x, FailedTask(x, t, err))
BY PutBackOK DEF FailedTask, Executing, Progress

\* So is one its worker ejected.
LEMMA EjectedTaskOK ==
    ASSUME NEW x, EnvOK(x), NEW t \in Executing(x)
    PROVE  Kept(x, EjectedTask(x, t))
BY PutBackOK DEF EjectedTask, Executing, Progress, TaskErrors

\* An executing task gets an answer that counts: it is done.
LEMMA FinishedTaskOK ==
    ASSUME NEW x, EnvOK(x), NEW t \in Executing(x),
           NEW s \in Progress, NEW err \in TaskErrors,
           \/ s = FINISHED /\ err # "STATUS"
           \/ s = FINISHED_WITH_ERROR /\ err = "STATUS" /\ ~x.by_app
    PROVE  Kept(x, FinishedTask(x, t, s, err))
<1> DEFINE y == FinishedTask(x, t, s, err)
           p == [x.progress EXCEPT ![t] = s]
           e == [x.error EXCEPT ![t] = err]
<1>0. t \in TasksOf(x) /\ x.progress[t] = EXECUTING BY DEF Executing
<1>1. y = [x EXCEPT !.running_count = x.running_count - 1,
                    !.finished_count = x.finished_count + 1,
                    !.progress = p, !.error = e]
  BY DEF FinishedTask, EnvOK, Env
<1>2. /\ x.running_count - 1 \in Int
      /\ x.finished_count + 1 \in Int
      /\ p \in [TasksOf(x) -> Progress]
      /\ e \in [TasksOf(x) -> TaskErrors]
  BY <1>0 DEF EnvOK, Env, TasksOf
<1>3. EnvOK(y)
  <2> HIDE DEF y, p, e
  <2> QED BY <1>1, <1>2 DEF EnvOK, Env, TasksOf
<1>4. y.tasks_count = x.tasks_count /\ y.progress = p /\ y.error = e
  BY <1>1 DEF EnvOK, Env
<1>5. /\ Executing(y) = Executing(x) \ {t}
      /\ Pending(y) = Pending(x)
      /\ Done(y) = Done(x) \cup {t}
  BY <1>0, <1>4 DEF EnvOK, Env, Executing, Pending, Requeued, Done, TasksOf,
         EXECUTING, WAITFOR_CONNECTING, FINISHED, FINISHED_WITH_ERROR
<1>6. t \notin Done(x)
  BY DEF Done
<1>7. /\ Cardinality(Executing(y)) = Cardinality(Executing(x)) - 1
      /\ Cardinality(Done(y)) = Cardinality(Done(x)) + 1
  BY <1>5, <1>6, TaskSetsFinite, FS_AddElement, FS_RemoveElement DEF EnvOK
<1>8. /\ y.running_count = x.running_count - 1
      /\ y.prepare_count = x.prepare_count
      /\ y.finished_count = x.finished_count + 1
      /\ y.tasks_count = x.tasks_count /\ y.workers_count = x.workers_count
      /\ y.by_app = x.by_app /\ y.error = e
  BY <1>1 DEF EnvOK, Env
<1>counted. Counted(x) => Counted(y)
  BY <1>3, <1>5, <1>7, <1>8 DEF Counted
<1>bounded. Bounded(x) => Bounded(y)
  BY <1>8 DEF EnvOK, Env, Bounded
<1>ignored. NoneIgnored(x) => NoneIgnored(y)
  BY <1>8 DEF EnvOK, Env, TasksOf, NoneIgnored
<1> QED BY <1>3, <1>8, <1>counted, <1>bounded, <1>ignored DEF Maintains, Kept

\* A reset keeps the counters if every failed task was counted as pending.
LEMMA ResetEnvOK ==
    ASSUME NEW x, EnvOK(x)
    PROVE  /\ EnvOK(ResetEnv(x))
           /\ x.by_app /\ NoneIgnored(x) => Kept(x, ResetEnv(x))
           /\ Bounded(x) => Bounded(ResetEnv(x))
<1> DEFINE y == ResetEnv(x)
           failed == {t \in TasksOf(x) : x.progress[t] = FINISHED_WITH_ERROR}
           p == [t \in TasksOf(x) |-> IF t \in failed THEN WAITFOR_CONNECTING
                                                      ELSE x.progress[t]]
           c == IF failed = {} THEN x.interrupt_code ELSE NoInterrupt
<1>1. y = [x EXCEPT !.progress = p, !.interrupt_code = c]
  BY DEF ResetEnv, EnvOK, Env
<1>2. p \in [TasksOf(x) -> Progress] /\ c \in InterruptCodes
  BY DEF EnvOK, Env, TasksOf, Progress, InterruptCodes, NoInterrupt
<1>3. /\ EnvOK(y)
      /\ y.progress = p /\ y.error = x.error /\ y.by_app = x.by_app
      /\ y.tasks_count = x.tasks_count /\ y.workers_count = x.workers_count
      /\ y.running_count = x.running_count
      /\ y.prepare_count = x.prepare_count
      /\ y.finished_count = x.finished_count
  <2> HIDE DEF y, p, c
  <2> QED BY <1>1, <1>2 DEF EnvOK, Env, TasksOf
<1>4. Bounded(x) => Bounded(y) BY <1>3 DEF Bounded
<1>5. ASSUME x.by_app, NoneIgnored(x) PROVE Kept(x, y)
  <2>1. Executing(y) = Executing(x) /\ Pending(y) = Pending(x)
        /\ Done(y) = Done(x)
    <3> HIDE DEF y
    <3> QED BY <1>3, <1>5 DEF NoneIgnored, EnvOK, Env, Executing, Pending,
              Requeued, Done, TasksOf, EXECUTING, WAITFOR_CONNECTING,
              FINISHED_WITH_ERROR
  <2>2. Counted(x) => Counted(y) BY <1>3, <2>1 DEF Counted
  <2>3. NoneIgnored(y) BY <1>3, <1>5 DEF NoneIgnored, TasksOf
  <2> QED BY <1>3, <1>4, <2>2, <2>3 DEF Maintains, Kept
<1> QED BY <1>3, <1>4, <1>5
=============================================================================
