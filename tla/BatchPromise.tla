--------------------------- MODULE BatchPromise ---------------------------
(***************************************************************************)
(* What a batch of tasks promises its user, whatever the workers do: the   *)
(* life of each task, at most width tasks with workers at a time, and no   *)
(* task given out while a failed one waits for the user's decision.  There *)
(* are no sessions, counters, nodes or messages here.                      *)
(***************************************************************************)
EXTENDS Integers, FiniteSets

CONSTANT Sizes  \* the numbers of tasks of a batch

VARIABLES
    status,  \* the state of each task of the batch
    width    \* the number of workers the batch may occupy

promise == <<status, width>>

Statuses == {"waiting", "running", "done", "failed"}

In(s) == {t \in DOMAIN status : status[t] = s}

Init == status = [t \in 1..0 |-> "waiting"] /\ width = 0

\* The user begins a batch of n tasks on at most w workers.
Submit(n, w) ==
    /\ status' = [t \in 1..n |-> "waiting"]
    /\ width' = w

Give(t) ==
    /\ status[t] = "waiting"
    /\ In("failed") = {}
    /\ Cardinality(In("running")) < width
    /\ status' = [status EXCEPT ![t] = "running"]
    /\ UNCHANGED width

\* A worker turns the task away.
TakeBack(t) ==
    /\ status[t] = "running"
    /\ status' = [status EXCEPT ![t] = "waiting"]
    /\ UNCHANGED width

\* A task ends; one that has no program to run ends without a worker.
End(t) ==
    /\ status[t] \in {"waiting", "running"}
    /\ \E s \in {"done", "failed"} : status' = [status EXCEPT ![t] = s]
    /\ UNCHANGED width

\* The user has the failed tasks tried again.
Retry ==
    /\ status' = [t \in DOMAIN status |->
                     IF status[t] = "failed" THEN "waiting" ELSE status[t]]
    /\ UNCHANGED width

Next ==
    \/ \E n \in Sizes : \E w \in 0..n : Submit(n, w)
    \/ \E t \in DOMAIN status : Give(t) \/ TakeBack(t) \/ End(t)
    \/ Retry

Spec == Init /\ [][Next]_promise
=============================================================================
