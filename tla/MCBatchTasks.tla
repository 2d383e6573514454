--------------------------- MODULE MCBatchTasks ---------------------------
(***************************************************************************)
(* Instances of BatchTasks for TLC.                                        *)
(***************************************************************************)
EXTENDS BatchTasks

TwoTasks == {2}
NoneOrTwo == {0, 2}
\* Three tasks on two workers: enough for one task to fail while another runs
\* and a third waits.
TwoBatches == {2, 3}
TwoWorkers == {2}
OneOrAll == {0, 1}
NoTask == [n \in TasksCounts |-> {}]
SecondOfTwo == [n \in TasksCounts |-> IF n = 2 THEN {2} ELSE {}]
Interrupt == {TRUE}
Both == BOOLEAN
Never == {}
TwoInterrupted == {<<TRUE, 2>>}
=============================================================================
