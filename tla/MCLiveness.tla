----------------------------- MODULE MCLiveness -----------------------------
(***************************************************************************)
(* Four servers, one of them silent, and no message is lost.  A client     *)
(* sends a weak request, which two servers can answer while the third      *)
(* lags behind, and then two strong ones, each once.                       *)
(***************************************************************************)
EXTENDS ZenoProperties

CONSTANTS r0, r1, r2, r3, a

MCPubkeys == <<r0, r1, r2, r3>>
MCRequest == {[c |-> a, t |-> t, s |-> t # 0] : t \in 0 .. 2}
MCTries == [q \in Replica |-> [m \in Request |-> 1]]
=============================================================================
