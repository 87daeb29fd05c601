------------------------------ MODULE MCClient -------------------------------
(***************************************************************************)
(* Four servers and f = 1; a weak request and then a strong one.           *)
(***************************************************************************)
EXTENDS ZenoClient

CONSTANTS r0, r1, r2, r3

MCOrder == <<r0, r1, r2, r3>>
MCJob == Seqno \X Peer
=============================================================================
