------------------------- MODULE MCRegisterNotices -------------------------
(***************************************************************************)
(* Instances of RegisterNotices for TLC, with the hosts and workers of     *)
(* MCRegisterServer.                                                       *)
(***************************************************************************)
EXTENDS RegisterNotices, MCRegisterServer
=============================================================================
