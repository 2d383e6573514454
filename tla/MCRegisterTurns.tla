-------------------------- MODULE MCRegisterTurns --------------------------
(***************************************************************************)
(* Instances of RegisterTurns for TLC, with the hosts and workers of       *)
(* MCRegisterServer.                                                       *)
(***************************************************************************)
EXTENDS RegisterTurns, MCRegisterServer
=============================================================================
