-------------------------- MODULE MCSocketSession --------------------------
(***************************************************************************)
(* Instances of SocketSession for TLC.                                     *)
(***************************************************************************)
EXTENDS SocketSession

\* A heartbeat, which has no text, and a message with one.
HeartbeatOrText == {0, 3}
=============================================================================
