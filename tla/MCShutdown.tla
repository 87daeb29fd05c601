------------------------------ MODULE MCShutdown ------------------------------
(***************************************************************************)
(* A server with three connections beside the dummy one.                   *)
(***************************************************************************)
EXTENDS Shutdown

CONSTANTS c1, c2, c3
=============================================================================
