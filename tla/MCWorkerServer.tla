--------------------------- MODULE MCWorkerServer ---------------------------
(***************************************************************************)
(* Instances of WorkerServer for TLC.                                      *)
(***************************************************************************)
EXTENDS WorkerServer

CONSTANTS m1, m2, m3, r1

OneMaster == {m1}
ThreeMasters == {m1, m2, m3}
NoRServer == {}
OneRServer == {r1}
=============================================================================
