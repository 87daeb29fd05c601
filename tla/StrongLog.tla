------------------------------ MODULE StrongLog -------------------------------
(***************************************************************************)
(* What clients may rely on of strong requests, whoever serves them: each  *)
(* answer is computed from a history of operations that clients invoked,   *)
(* none of them twice, and all these histories are prefixes of one log.    *)
(* Nothing is said of the answers to weak requests, nor which operations   *)
(* get into the log.                                                       *)
(***************************************************************************)
EXTENDS Sequences, SequencesExt

CONSTANT Op

VARIABLES
    invoked,    \* the operations that were invoked
    answered    \* the histories behind the answers that were given

vars == <<invoked, answered>>

Init ==
    /\ invoked = {}
    /\ answered = {}

Invoke(op) ==
    /\ op \notin invoked
    /\ invoked' = invoked \cup {op}
    /\ UNCHANGED answered

\* The log up to its end or beyond it, or a part of it that has no answer yet.
Answer(h) ==
    /\ h \in Seq(invoked) /\ h # <<>>
    /\ IsInjective(h)
    /\ \A g \in answered : IsPrefix(g, h) \/ IsPrefix(h, g)
    /\ answered' = answered \cup {h}
    /\ UNCHANGED invoked

Next ==
    \/ \E op \in Op : Invoke(op)
    \/ \E h \in answered' : Answer(h)

Spec == Init /\ [][Next]_vars
=============================================================================
