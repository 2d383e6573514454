-------------------------- MODULE MultiBatchTasks --------------------------
(***************************************************************************)
(* DC4CPerformMultiBatchTasks: several batches of tasks, each with its own *)
(* environment, carried on by one process (src/src/api/dc4c_api.c).        *)
(*                                                                         *)
(* A call looks at all environments and either reports one that is over,   *)
(* or goes round them again and again, offering their waiting tasks to     *)
(* workers and then looking at the running ones, until something is worth  *)
(* a return.  One step here is one environment's turn in one of the two    *)
(* rounds: DC4CQueryWorkers with DC4CSetTasksFds, or DC4CProcessTasks.     *)
(* BatchTasks has these functions task by task; here the tasks of a turn   *)
(* move together, and what workers and registries answer is chosen at the  *)
(* turn that reads it.                                                     *)
(***************************************************************************)
EXTENDS TaskEnv, Sequences, FiniteSetsExt

CONSTANTS
    Batch,      \* the batches, one environment each
    MaxFaults   \* bound: failed queries, missing and unsent programs, ejected
                \* tasks, and what the users of this module count with them

\* p_penv where it points to no environment.
NoBatch == ""

ASSUME MultiConstants == MaxFaults \in Nat /\ NoBatch \notin Batch

VARIABLES
    penv,           \* the environment of every batch
    finished_flag,  \* the batches that have been reported as finished
    a_penvs,        \* the environments of the call, in order
    begin_index,    \* begin_envs_index: where the offers begin
    pc,             \* "user", "offer", "process" or "returned"
    turn,           \* the environments still to come in this round
    result,         \* what the call returned: the code and *p_penv
    faults

multiVars ==
    <<penv, finished_flag, a_penvs, begin_index, pc, turn, result, faults>>

InitMulti ==
    /\ penv = [b \in Batch |-> NewEnv(FALSE)]
    /\ finished_flag = {}
    /\ a_penvs = <<>>
    /\ begin_index = 1
    /\ pc = "user"
    /\ turn = <<>>
    /\ result = [code |-> NoInterrupt, batch |-> NoBatch]
    /\ faults = 0

\* Nothing to be done and nothing running.
Idle(x) == x.prepare_count = 0 /\ x.running_count = 0

\* Mutant: an interrupted batch is over with tasks still running.
OverAtOnce(x) == Idle(x) \/ x.interrupt_code # NoInterrupt

\* What makes the call report an environment as finished.
Over(x) == Idle(x) \/ (x.interrupt_code # NoInterrupt /\ x.running_count = 0)

PassedOver(b) == Idle(penv[b]) \/ b \in finished_flag

-----------------------------------------------------------------------------
(* How a call begins and ends.                                              *)

Returns(code, b) ==
    /\ pc' = "returned"
    /\ result' = [code |-> code, batch |-> b]
    /\ turn' = <<>>
    /\ begin_index' = 1

Reported(envs, i) == Over(penv[envs[i]]) /\ envs[i] \notin finished_flag

\* The environment the offers begin with: a random one, unless another has
\* more tasks to be done.
BeginEnvsIndex(envs, random) ==
    LET Most(i) == \A j \in DOMAIN envs :
                       penv[envs[j]].prepare_count <= penv[envs[i]].prepare_count
    IN  IF Most(random) THEN random
        ELSE CHOOSE i \in DOMAIN envs :
                 Most(i) /\ \A j \in 1..(i - 1) : ~Most(j)

RoundFrom(envs, i) == SubSeq(envs, i, Len(envs)) \o SubSeq(envs, 1, i - 1)

\* The call, up to its loop.
PerformMultiBatchTasks(envs) ==
    /\ pc = "user"
    /\ a_penvs' = envs
    /\ UNCHANGED faults
    /\ \/ \E i \in DOMAIN envs :
            /\ Reported(envs, i)
            /\ \A j \in 1..(i - 1) : ~Reported(envs, j)
            /\ finished_flag' = finished_flag \cup {envs[i]}
            /\ penv' = IF Idle(penv[envs[i]])
                       THEN [penv EXCEPT ![envs[i]] = RServerClosed(@)]
                       ELSE penv
            /\ Returns("BATCH_TASKS_FINISHED", envs[i])
       \/ /\ \A i \in DOMAIN envs : envs[i] \in finished_flag
          /\ Returns("ALL_ENVS_FINISHED", NoBatch)
          /\ UNCHANGED <<penv, finished_flag>>
       \/ /\ \E i \in DOMAIN envs : envs[i] \notin finished_flag
          /\ \A i \in DOMAIN envs : ~Reported(envs, i)
          /\ \E random \in DOMAIN envs :
               /\ begin_index' = BeginEnvsIndex(envs, random)
               /\ turn' = RoundFrom(envs, begin_index')
          /\ pc' = "offer"
          /\ UNCHANGED <<penv, finished_flag, result>>

\* The next environment's turn, or the other round.
NextTurn ==
    /\ IF Len(turn) > 1 THEN pc' = pc /\ turn' = Tail(turn)
       ELSE IF pc = "offer" THEN pc' = "process" /\ turn' = a_penvs
       ELSE pc' = "offer" /\ turn' = RoundFrom(a_penvs, begin_index)
    /\ UNCHANGED <<begin_index, result>>

SkipEnv ==
    /\ pc \in {"offer", "process"}
    /\ PassedOver(Head(turn))
    /\ NextTurn
    /\ UNCHANGED <<penv, finished_flag, a_penvs, faults>>

-----------------------------------------------------------------------------
(* The round of offers: DC4CQueryWorkers and DC4CSetTasksFds.               *)

Waiting(x) == {t \in TasksOf(x) : x.progress[t] = WAITFOR_CONNECTING}

\* A register server is reached, and asked unless nodes are left over.
Queried(x) ==
    IF ~WantsWorkers(x) THEN {x}
    ELSE IF x.interrupt_code # NoInterrupt \/ x.unused > 0
    THEN {RServerConnected(x)}
    ELSE {GotWorkers(x, k) : k \in 0..QueryCount(x)}

CannotQuery(x) ==
    /\ WantsWorkers(x)
    /\ x.rserver => x.interrupt_code = NoInterrupt /\ x.unused = 0

\* The tasks of started get a worker, one after the other (Started).
StartedAll(x, started) ==
    LET n == Cardinality(started)
    IN  [x EXCEPT !.unused = @ - n,
                  !.prepare_count = @ - n,
                  !.running_count = @ + n,
                  !.progress = [t \in TasksOf(x) |->
                                  IF t \in started THEN EXECUTING ELSE @[t]]]

\* The waiting tasks are tried in order until the nodes are used up or
\* workers_count tasks run: those of started get a worker, those of unsent lose
\* theirs while the program is sent and wait on, and some nodes refuse.
Filled(x, unsent) ==
    IF ~MayStart(x) THEN {y \in {x} : unsent = {}}
    ELSE {y \in {StartedAll(NodesRefused(x, refused), started) :
                    started \in SUBSET (Waiting(x) \ unsent),
                    refused \in 0..x.unused} :
            LET tried == unsent \cup (Executing(y) \ Executing(x))
            IN  /\ y.unused >= 0
                /\ y.running_count <= y.workers_count
                /\ \A t \in tried, w \in Waiting(x) \ tried : t < w
                /\ MayStart(y) => Waiting(x) \subseteq tried}

Offering(b) == pc = "offer" /\ b = Head(turn) /\ ~PassedOver(b)

OfferTasks(b) ==
    /\ Offering(b)
    /\ \E x \in Queried(penv[b]), unsent \in SUBSET Waiting(penv[b]) :
         /\ faults + Cardinality(unsent) <= MaxFaults
         /\ \E y \in Filled(x, unsent) : penv' = [penv EXCEPT ![b] = y]
         /\ faults' = faults + Cardinality(unsent)
    /\ NextTurn
    /\ UNCHANGED <<finished_flag, a_penvs>>

\* No register server can be reached, or the one that was does not answer.
QueryFails(b) ==
    /\ Offering(b)
    /\ faults < MaxFaults
    /\ CannotQuery(penv[b])
    /\ penv' = [penv EXCEPT ![b] = Interrupted(RServerClosed(@), "CONNECT")]
    /\ Returns("CONNECT", b)
    /\ faults' = faults + 1
    /\ UNCHANGED <<finished_flag, a_penvs>>

\* A program is no longer there when it is its turn: the tasks before it have
\* got a worker.
ProgramIsMissing(b) ==
    /\ Offering(b)
    /\ faults < MaxFaults
    /\ \E x \in Queried(penv[b]), t \in Waiting(penv[b]) :
         LET before == {w \in Waiting(x) : w < t}
         IN  /\ MayStart(x)
             /\ \E refused \in 0..x.unused :
                  LET y == StartedAll(NodesRefused(x, refused), before)
                  IN  /\ MayStart(y)
                      /\ penv' = [penv EXCEPT ![b] =
                             Interrupted(RServerClosed(ProgramMissing(y, t)),
                                         "FILE_NOT_FOUND")]
    /\ Returns("FILE_NOT_FOUND", b)
    /\ faults' = faults + 1
    /\ UNCHANGED <<finished_flag, a_penvs>>

-----------------------------------------------------------------------------
(* The round of answers: DC4CProcessTasks.                                  *)

Processing(b) == pc = "process" /\ b = Head(turn) /\ ~PassedOver(b)

\* The tasks of ejected are sent back by workers that were busy (EjectedTask).
EjectedAll(x, ejected) ==
    LET n == Cardinality(ejected)
    IN  [x EXCEPT !.running_count = @ - n,
                  !.prepare_count = @ + n,
                  !.progress = [t \in TasksOf(x) |->
                                  IF t \in ejected THEN WAITFOR_CONNECTING
                                                   ELSE @[t]],
                  !.error = [t \in TasksOf(x) |->
                               IF t \in ejected THEN "ALREADY_EXECUTING"
                                                ELSE @[t]]]

\* What the tasks of b are when it is the turn of the next one.
Ejected(b, ejected) == EjectedAll(penv[b], ejected)

MayEject(b, ejected) == faults + Cardinality(ejected) <= MaxFaults

\* Nothing is readable but requests for the program and the answers of workers
\* that were busy.
GoOn(b) ==
    /\ Processing(b)
    /\ \E ejected \in SUBSET Executing(penv[b]) :
         /\ MayEject(b, ejected)
         /\ penv' = [penv EXCEPT ![b] = Ejected(b, ejected)]
         /\ faults' = faults + Cardinality(ejected)
    /\ NextTurn
    /\ UNCHANGED <<finished_flag, a_penvs>>

\* The first task with an answer that the call returns for.
Answering(b, ejected, t) ==
    /\ Processing(b)
    /\ ejected \subseteq Executing(penv[b])
    /\ MayEject(b, ejected)
    /\ t \in Executing(penv[b])
    /\ \A e \in ejected : e < t
    /\ faults' = faults + Cardinality(ejected)
    /\ UNCHANGED <<finished_flag, a_penvs>>

\* An exit status, or the word that the program could not be stored.
TaskFinishes(b, t, answer) ==
    \E ejected \in SUBSET (1..(t - 1)) :
      LET x == Ejected(b, ejected)
      IN  /\ Answering(b, ejected, t)
          /\ answer = "STATUS" => ~x.by_app
          /\ penv' = [penv EXCEPT ![b] =
                FinishedTask(x, t,
                    IF answer = "STATUS" THEN FINISHED_WITH_ERROR ELSE FINISHED,
                    answer)]
          /\ Returns("TASK_FINISHED", b)

\* A worker that is lost or does not get the program, an exit status that
\* interrupts the batch, or (seen before anything is read) a task that takes
\* too long.
TaskFails(b, t, err) ==
    \E ejected \in SUBSET (1..(t - 1)) :
      LET x == Ejected(b, ejected)
      IN  /\ Answering(b, ejected, t)
          /\ err \in {"TIMEOUT", "APP"} => x.by_app
          /\ err = "TIMEOUT" => ejected = {}
          /\ penv' = [penv EXCEPT ![b] =
                Interrupted(RServerClosed(FailedTask(x, t, err)), err)]
          /\ Returns(err, b)
=============================================================================
