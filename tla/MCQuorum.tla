------------------------------ MODULE MCQuorum ------------------------------
(***************************************************************************)
(* Three servers and f = 0, which start_zeno accepts: its assertion is     *)
(* max_failures * 3 < 3.  The primaries of two views get a strong request  *)
(* each, and r2 times out on the second one.                               *)
(***************************************************************************)
EXTENDS ZenoProperties

CONSTANTS r0, r1, r2, a, b

MCPubkeys == <<r0, r1, r2>>
A == [c |-> a, t |-> 0, s |-> TRUE]
B == [c |-> b, t |-> 0, s |-> TRUE]
MCRequest == {A, B}
MCTries == [q \in Replica |-> [m \in Request |->
               CASE q = r0 /\ m = A -> 1
                 [] q = r1 /\ m = B -> 1
                 [] q = r2 /\ m = B -> 2
                 [] OTHER           -> 0]]
=============================================================================
