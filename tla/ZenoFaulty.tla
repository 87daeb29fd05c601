----------------------------- MODULE ZenoFaulty -----------------------------
(***************************************************************************)
(* The servers of module Zeno with some of them faulty.  A faulty server   *)
(* takes no step of the protocol.  It accuses the primary of any server's  *)
(* view at any time.  It keeps the ViewChanges sent to it and may add one  *)
(* of its own; as the primary of a view it announces that view to any      *)
(* server at any time, with any 2f + 1 of these ViewChanges.               *)
(*                                                                         *)
(* Correct servers never announce a new view (AtMostOneViewChange): what   *)
(* on_newview does is only seen in the presence of a faulty one.           *)
(***************************************************************************)
EXTENDS ZenoProperties

CONSTANT Faulty     \* the faulty servers

ASSUME FaultyAssumption ==
    Faulty \subseteq Replica /\ Cardinality(Faulty) <= max_failures

FaultyAccusation(q, target) ==
    /\ ihtpMsgs' = [ihtpMsgs EXCEPT ![target] =
                       @ \cup {[v |-> zs[target].v, i |-> q]}]
    /\ UNCHANGED <<zs, orMsgs, commitMsgs, fillHoleMsgs, viewChangeMsgs,
                   newViewMsgs>>

\* A well-formed ViewChange that says that nothing happened.
EmptyViewChange(q, v) == [v |-> v, cc |-> {}, o |-> <<>>, i |-> q]

\* on_newview looks at neither the views nor the senders of the ViewChanges.
\* One announcement to a server is in flight at a time: the next one is sent
\* when it is to be handled.
FaultyNewView(q, target) ==
    \E msg \in viewChangeMsgs[q] :
        /\ get_primary_for_view(msg.v) = q
        /\ newViewMsgs[target] = {}
        /\ \E P \in kSubset(2 * max_failures + 1,
                            viewChangeMsgs[q] \cup {EmptyViewChange(q, msg.v)}) :
           newViewMsgs' = [newViewMsgs EXCEPT ![target] =
                              {[v |-> msg.v, p |-> SetToSeq(P), i |-> q]}]
        /\ UNCHANGED <<zs, orMsgs, commitMsgs, fillHoleMsgs, ihtpMsgs,
                       viewChangeMsgs>>

FaultyNext ==
    \/ \E q \in Live \ Faulty : Step(q)
    \/ \E q \in Faulty, target \in Live \ Faulty :
           FaultyAccusation(q, target) \/ FaultyNewView(q, target)

FaultySpec == Init /\ [][FaultyNext]_vars

\* The accusations of at most f faulty servers, repeated at will and in every
\* view they announce, never make a correct server leave its view: a correct
\* server's timer ran out and it accused a primary as well.
OnlyWithCorrectAccusation ==
    (\E q \in Live \ Faulty : ~is_view_active(zs[q]))
        => \E p \in Live \ Faulty : p \in zs[p].ihatetheprimary_accusations
=============================================================================
