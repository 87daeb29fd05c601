----------------------------- MODULE MCFailover -----------------------------
(***************************************************************************)
(* Three servers and f = 0, so that one accusation changes the view.  The  *)
(* primary of view 0 is down; the two others time out on the first request *)
(* of a client, each at its own time, and the next primary has it, the     *)
(* client's second request and another client's to order.  The third       *)
(* server may be dropped at any moment.                                    *)
(***************************************************************************)
EXTENDS ZenoProperties

CONSTANTS r0, r1, r2, b, c

MCPubkeys == <<r0, r1, r2>>
B0 == [c |-> b, t |-> 0, s |-> FALSE]
B1 == [c |-> b, t |-> 1, s |-> FALSE]
C == [c |-> c, t |-> 0, s |-> FALSE]
MCRequest == {B0, B1, C}
MCTries == [q \in Replica |-> [m \in Request |->
               CASE q = r1 /\ m = B0 -> 3
                 [] q = r1 /\ m = B1 -> 1
                 [] q = r1 /\ m = C  -> 1
                 [] q = r2 /\ m = B0 -> 2
                 [] q = r2 /\ m = B1 -> 1
                 [] OTHER            -> 0]]
=============================================================================
