----------------------------- MODULE MCBroadcast ------------------------------
(***************************************************************************)
(* Two peers, one of which never reads, and three messages to both.        *)
(***************************************************************************)
EXTENDS Broadcast

CONSTANTS r0, r1

MCOrder == <<r0, r1>>
MCTargets == [i \in 1 .. 3 |-> {r0, r1}]
MCJob == Messages \X Peer
=============================================================================
