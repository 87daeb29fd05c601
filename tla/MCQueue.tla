------------------------------ MODULE MCQueue -------------------------------
(***************************************************************************)
(* Three servers and f = 0.  Request C is ordered first in view 0 and      *)
(* second, after A, in view 1; r2 gets C only after both.                  *)
(***************************************************************************)
EXTENDS ZenoProperties

CONSTANTS r0, r1, r2, a, c

MCPubkeys == <<r0, r1, r2>>
A == [c |-> a, t |-> 0, s |-> FALSE]
C == [c |-> c, t |-> 0, s |-> FALSE]
MCRequest == {A, C}
MCTries == [q \in Replica |-> [m \in Request |->
               CASE q = r0 /\ m = C -> 1
                 [] q = r1 /\ m = A -> 3
                 [] q = r1 /\ m = C -> 1
                 [] q = r2 /\ m = A -> 2
                 [] q = r2 /\ m = C -> 1
                 [] OTHER           -> 0]]

Arrived(q, m, k) == zs[q].thr[m][k].pc # "new"

(***************************************************************************)
(* The part of the behaviours this run looks at: C reaches r0 at once, the *)
(* others time out on A, then r1 gets A again, and C, and r2 gets C last.  *)
(* ViewChanges, FillHoles and the accusations sent to r0 are lost; timers  *)
(* started in view 1 do not run out.                                       *)
(***************************************************************************)
Scenario ==
    /\ Arrived(r1, A, 1)' => Arrived(r0, C, 1)
    /\ Arrived(r2, A, 1)' => Arrived(r1, A, 2)
    /\ (Arrived(r1, A, 3) \/ Arrived(r1, C, 1))' => zs[r1].v = 1
    /\ Arrived(r2, C, 1)' => zs[r2].n = 0
    /\ \A q \in Live : TimerExpires(q) => zs[q].v = 0
    /\ \A q \in Live : /\ viewChangeMsgs[q] \subseteq viewChangeMsgs'[q]
                       /\ fillHoleMsgs[q] \subseteq fillHoleMsgs'[q]
    /\ ihtpMsgs[r0] \subseteq ihtpMsgs'[r0]

MCSpec == Init /\ [][Next /\ Scenario]_vars
=============================================================================
