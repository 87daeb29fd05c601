------------------------------ MODULE MCFaulty ------------------------------
(***************************************************************************)
(* Four servers, f = 1, and the primary of view 1 is faulty.  The others   *)
(* execute a strong request in view 0 and hold its certificate; then two   *)
(* of them execute another one and the third times out on it.              *)
(***************************************************************************)
EXTENDS ZenoFaulty

CONSTANTS r0, r1, r2, r3, a, b

MCPubkeys == <<r0, r1, r2, r3>>
A == [c |-> a, t |-> 0, s |-> TRUE]
B == [c |-> b, t |-> 0, s |-> TRUE]
MCRequest == {A, B}
MCTries == [q \in Replica |-> [m \in Request |->
               IF q = r1 THEN 0 ELSE IF q = r3 /\ m = B THEN 2 ELSE 1]]

Arrived(q, m, k) == zs[q].thr[m][k].pc # "new"

(***************************************************************************)
(* The part of the behaviours this run looks at: B reaches the servers     *)
(* when all of them have answered A, and r0 when the others have it.  r1   *)
(* accuses the primary of view 0 to r3 at any time, to r2 when r3 has      *)
(* accused it and to r0 when r2 has left view 0; it announces view 1 to r3 *)
(* only, before or after r3 left view 0.  ViewChanges reach r1 only.       *)
(***************************************************************************)
Scenario ==
    /\ \A q \in Live : Arrived(q, B, 1)' =>
           \A p \in Live \ Faulty : zs[p].thr[A][1].pc = "done"
    /\ Arrived(r0, B, 1)' => Arrived(r2, B, 1) /\ Arrived(r3, B, 2)
    /\ \A q \in Live : \A msg \in ihtpMsgs'[q] :
           /\ msg.v = 0
           /\ q # r3 => r3 \in zs'[r3].ihatetheprimary_accusations
           /\ q = r0 /\ msg.i = r1 => zs'[r2].v = 1
    /\ \A q \in {r0, r2} : newViewMsgs'[q] = {}
    /\ \A q \in Live : viewChangeMsgs[q] \subseteq viewChangeMsgs'[q]
=============================================================================
