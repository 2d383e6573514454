------------------------------ MODULE MCHzbat ------------------------------
(***************************************************************************)
(* A join with a batch behind it: C waits for A and B, D for C; the loader *)
(* meets C on two ways and links D to it twice.  C is filtered out on the  *)
(* business date and has no tasks then.  The second schedule has one batch. *)
(***************************************************************************)
EXTENDS Hzbat

TheBatches == {"A", "B", "C", "D", "E"}

TheDirections ==
    [s1 |-> <<<<"", "A">>, <<"", "B">>, <<"A", "C">>, <<"B", "C">>,
              <<"C", "D">>, <<"D", "">>>>,
     s2 |-> <<<<"", "E">>, <<"E", "">>>>]

TheTasksCount == [A |-> 2, B |-> 1, C |-> 1, D |-> 1, E |-> 1]

TheSchedules == <<"s1", "s2">>
=============================================================================
