---------------------------- MODULE MCStaleReply ----------------------------
(***************************************************************************)
(* Four servers, f = 1: a client sends two strong requests, the second one *)
(* twice, to the three servers that run.                                   *)
(***************************************************************************)
EXTENDS ZenoProperties

CONSTANTS r0, r1, r2, r3, a

MCPubkeys == <<r0, r1, r2, r3>>
MCRequest == {[c |-> a, t |-> t, s |-> TRUE] : t \in 0 .. 1}
MCTries == [q \in Replica |-> [m \in Request |-> m.t + 1]]
=============================================================================
