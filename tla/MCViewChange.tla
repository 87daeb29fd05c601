---------------------------- MODULE MCViewChange ----------------------------
(***************************************************************************)
(* Four servers, f = 1.  Two servers time out on strong request A while    *)
(* the primary of view 0 may still order it; the primary of view 1 orders  *)
(* A and B as well, in either order.                                       *)
(***************************************************************************)
EXTENDS ZenoProperties

CONSTANTS r0, r1, r2, r3, a, b

MCPubkeys == <<r0, r1, r2, r3>>
A == [c |-> a, t |-> 0, s |-> TRUE]
B == [c |-> b, t |-> 0, s |-> FALSE]
MCRequest == {A, B}
MCTries == [q \in Replica |-> [m \in Request |->
               CASE q = r0 /\ m = A -> 1
                 [] q = r1 /\ m = A -> 3
                 [] q = r2 /\ m = A -> 2
                 [] q = r1 /\ m = B -> 1
                 [] OTHER           -> 0]]

Arrived(q, m, k) == zs[q].thr[m][k].pc # "new"

(***************************************************************************)
(* The part of the behaviours this run looks at: A reaches the primary     *)
(* when r1 and r2 have started their timers, and the new primary gets B    *)
(* and A again once it has left view 0; timers that are started in view 1  *)
(* do not run out; ViewChanges, FillHoles and the accusations sent to r0   *)
(* are lost.                                                               *)
(***************************************************************************)
Scenario ==
    /\ Arrived(r0, A, 1)' => Arrived(r1, A, 2) /\ Arrived(r2, A, 2)
    /\ (Arrived(r1, A, 3) \/ Arrived(r1, B, 1))' => zs[r1].v = 1
    /\ \A q \in Live : TimerExpires(q) => zs[q].v = 0
    /\ \A q \in Live : /\ viewChangeMsgs[q] \subseteq viewChangeMsgs'[q]
                       /\ fillHoleMsgs[q] \subseteq fillHoleMsgs'[q]
    /\ ihtpMsgs[r0] \subseteq ihtpMsgs'[r0]

MCSpec == Init /\ [][Next /\ Scenario]_vars
=============================================================================
