--------------------------- MODULE ZenoFaultyProofs ----------------------------
(***************************************************************************)
(* Proofs of what the correct servers guarantee beside at most f faulty    *)
(* ones, which accuse primaries at will and announce views to whomever     *)
(* they like (module ZenoFaulty), for every number of servers, requests    *)
(* and transmissions.                                                      *)
(*                                                                         *)
(* A step of a correct server keeps the invariants of modules ZenoProofs   *)
(* and ZenoOrderProofs whatever it was told; what a faulty server sends    *)
(* keeps them because the ViewChanges it may pass on are those it was      *)
(* sent and an empty one of its own.  Calm, that no view is announced, is  *)
(* what is lost: servers change views any number of times here.            *)
(***************************************************************************)
EXTENDS ZenoFaulty, ZenoOrderProofs

-----------------------------------------------------------------------------
(* What faulty servers send                                                *)

LEMMA OrderUntouched ==
    ASSUME OrderInv, zs' = zs, orMsgs' = orMsgs
    PROVE  /\ Ex' = Ex /\ Invoked' = Invoked
           /\ OrderInv'
<1>1. Ex' = Ex /\ Invoked' = Invoked /\ StrongAnswers' = StrongAnswers
  BY DEF Ex, Invoked, StrongAnswers, Threads
<1> QED BY <1>1 DEF OrderInv, OrderlyServer, OrderlyLog, HandedOver, Made

LEMMA FaultyAccusationKeeps ==
    ASSUME IInv, OrderInv, ReportInv, NEW q \in Replica, NEW target \in Replica,
           FaultyAccusation(q, target)
    PROVE  /\ IInv' /\ OrderInv' /\ ReportInv' /\ zs' = zs
           /\ \A p \in Replica : \A msg \in ihtpMsgs'[p] :
                 msg \in ihtpMsgs[p] \/ msg.i = q
<1>1. /\ zs' = zs /\ orMsgs' = orMsgs /\ commitMsgs' = commitMsgs
      /\ fillHoleMsgs' = fillHoleMsgs /\ viewChangeMsgs' = viewChangeMsgs
      /\ newViewMsgs' = newViewMsgs
  BY DEF FaultyAccusation
<1>2. PICK msg \in IHateThePrimary : msg = [v |-> zs[target].v, i |-> q]
  BY DEF IInv, TypeOK, ZenoMutState, IHateThePrimary
<1>3. ihtpMsgs' = [ihtpMsgs EXCEPT ![target] = @ \cup {msg}]
  BY <1>2 DEF FaultyAccusation
<1>4. ihtpMsgs \in [Replica -> SUBSET IHateThePrimary] BY DEF IInv, TypeOK
<1>5. /\ ihtpMsgs' \in [Replica -> SUBSET IHateThePrimary]
      /\ \A p \in Replica : ihtpMsgs'[p] \subseteq ihtpMsgs[p] \cup {msg}
  BY <1>3, <1>4
<1>6. TypeOK' BY <1>1, <1>5 DEF IInv, TypeOK
<1>7. Ex' = Ex /\ Invoked' = Invoked /\ OrderInv' BY <1>1, OrderUntouched
<1>8. IInv' BY <1>1, <1>6, <1>7 DEF IInv
<1>9. ReportInv' BY <1>1, <1>7 DEF ReportInv, ReportMade, Made
<1>10. \A p \in Replica : \A x \in ihtpMsgs'[p] : x \in ihtpMsgs[p] \/ x.i = q
  BY <1>2, <1>5
<1> QED BY <1>1, <1>7, <1>8, <1>9, <1>10

LEMMA FaultyNewViewKeeps ==
    ASSUME IInv, OrderInv, ReportInv, NEW q \in Replica, NEW target \in Replica,
           FaultyNewView(q, target)
    PROVE  IInv' /\ OrderInv' /\ ReportInv' /\ zs' = zs /\ ihtpMsgs' = ihtpMsgs
<1>1. /\ zs' = zs /\ orMsgs' = orMsgs /\ commitMsgs' = commitMsgs
      /\ fillHoleMsgs' = fillHoleMsgs /\ ihtpMsgs' = ihtpMsgs
      /\ viewChangeMsgs' = viewChangeMsgs
  BY DEF FaultyNewView
<1>2. PICK v, own, P :
         /\ v \in View
         /\ own = EmptyViewChange(q, v)
         /\ P \subseteq viewChangeMsgs[q] \cup {own}
         /\ newViewMsgs' = [newViewMsgs EXCEPT ![target] =
                               {[v |-> v, p |-> SetToSeq(P), i |-> q]}]
  <2>1. PICK msg \in viewChangeMsgs[q] :
           \E P \in kSubset(2 * max_failures + 1,
                            viewChangeMsgs[q] \cup {EmptyViewChange(q, msg.v)}) :
              newViewMsgs' = [newViewMsgs EXCEPT ![target] =
                                 {[v |-> msg.v, p |-> SetToSeq(P), i |-> q]}]
    BY DEF FaultyNewView
  <2>2. msg.v \in View BY DEF IInv, TypeOK, ViewChange
  <2> QED BY <2>1, <2>2 DEF kSubset
<1>3. /\ own \in ViewChange /\ own.cc = {} /\ own.o = <<>>
  <2>1. <<>> \in Seq(OrderedRequest) /\ {} \in CommitCertificate
    BY DEF CommitCertificate
  <2> QED BY <1>2, <2>1 DEF EmptyViewChange, ViewChange
<1>4. CertOK(Ex, own.cc) /\ ReportMade(Ex, Invoked, own)
  BY <1>3 DEF CertOK, ReportMade
<1>5. /\ P \in SUBSET ViewChange /\ IsFiniteSet(P)
      /\ \A vc \in P : CertOK(Ex, vc.cc) /\ ReportMade(Ex, Invoked, vc)
  <2>1. IsFiniteSet(viewChangeMsgs[q]) /\ viewChangeMsgs[q] \subseteq ViewChange
    BY DEF IInv, ViewMsgsOK, TypeOK
  <2>2. IsFiniteSet(viewChangeMsgs[q] \cup {own}) BY <2>1, FS_AddElement
  <2>3. IsFiniteSet(P) BY <1>2, <2>2, FS_Subset
  <2>4. \A vc \in viewChangeMsgs[q] : CertOK(Ex, vc.cc) /\ ReportMade(Ex, Invoked, vc)
    BY DEF IInv, ViewMsgsOK, ReportInv
  <2> QED BY <1>2, <1>3, <1>4, <2>1, <2>3, <2>4
<1>6. PICK p \in Seq(P) : p = SetToSeq(P) BY <1>5, SetToSeqsType
<1>7. \A i \in DOMAIN p : p[i] \in P OBVIOUS
<1>8. p \in Seq(ViewChange) BY <1>5
<1>9. PICK nvm \in NewView : nvm = [v |-> v, p |-> p, i |-> q] /\ nvm.p = p
  <2>1. v \in View BY <1>2
  <2>2. [v |-> v, p |-> p, i |-> q] \in NewView BY <1>8, <2>1, Zenon DEF NewView
  <2>3. [v |-> v, p |-> p, i |-> q].p = p OBVIOUS
  <2> QED BY <2>2, <2>3
<1>10. newViewMsgs' = [newViewMsgs EXCEPT ![target] = {nvm}]
  BY <1>2, <1>6, <1>9
<1>11. newViewMsgs \in [Replica -> SUBSET NewView] BY DEF IInv, TypeOK
<1>12. /\ newViewMsgs' \in [Replica -> SUBSET NewView]
       /\ \A r \in Replica : \A x \in newViewMsgs'[r] : x \in newViewMsgs[r] \/ x = nvm
  BY <1>10, <1>11
<1>13. TypeOK' BY <1>1, <1>12 DEF IInv, TypeOK
<1>14. Ex' = Ex /\ Invoked' = Invoked /\ OrderInv' BY <1>1, OrderUntouched
<1>15. ViewMsgsOK(Ex, viewChangeMsgs', newViewMsgs')
  BY <1>1, <1>5, <1>7, <1>9, <1>12 DEF IInv, ViewMsgsOK
<1>16. IInv' BY <1>1, <1>13, <1>14, <1>15 DEF IInv
<1>17. ReportInv'
  <2>1. \A r \in Replica : \A x \in newViewMsgs'[r] :
           \/ x \in newViewMsgs[r]
           \/ x \in NewView /\ \A i \in DOMAIN x.p : ReportMade(Ex, Invoked, x.p[i])
    BY <1>5, <1>7, <1>9, <1>12
  <2>2. Grows(Ex, Ex') /\ Invoked \subseteq Invoked' BY <1>14 DEF Grows
  <2>3. \A r \in Replica : \A vc \in zs'[r].view_changes \cup viewChangeMsgs'[r] :
           vc \in zs[r].view_changes \cup viewChangeMsgs[r]
    BY <1>1
  <2> QED BY <2>1, <2>2, <2>3, ReportStep
<1> QED BY <1>1, <1>14, <1>16, <1>17

-----------------------------------------------------------------------------
(* The invariants beside faulty servers                                    *)

\* A step of the system is one of a correct server, or it changes no state.
LEMMA FaultyStepKeeps ==
    ASSUME IInv, OrderInv, ReportInv, [FaultyNext]_vars
    PROVE  IInv' /\ OrderInv' /\ ReportInv' /\ (Visible \/ zs' = zs)
<1>1. CASE UNCHANGED vars
  BY <1>1, StutterKeeps, OrderStutters DEF vars
<1>2. CASE \E q \in Live \ Faulty : Step(q)
  BY <1>2, StepKeeps, OrderStepKeeps, DeploymentAssumption
<1>3. CASE \E q \in Faulty, target \in Live \ Faulty :
              FaultyAccusation(q, target) \/ FaultyNewView(q, target)
  BY <1>3, FaultyAccusationKeeps, FaultyNewViewKeeps, DeploymentAssumption,
     FaultyAssumption
<1> QED BY <1>1, <1>2, <1>3 DEF FaultyNext

\* Whatever f servers send, what the correct ones execute, commit to and
\* answer rests on what a primary ordered and a strong quorum executed.
THEOREM FaultyInvariance == FaultySpec => [](IInv /\ OrderInv /\ ReportInv)
<1>1. IInv /\ OrderInv /\ ReportInv /\ [FaultyNext]_vars
         => (IInv /\ OrderInv /\ ReportInv)'
  BY FaultyStepKeeps
<1> QED BY <1>1, InitIInv, InitOrder, InitReport, PTL DEF FaultySpec

\* The states and the messages of the servers keep their types.
THEOREM FaultyTypes == FaultySpec => []TypeOK
<1>1. IInv => TypeOK BY DEF IInv
<1> QED BY <1>1, FaultyInvariance, PTL

\* Also a certificate that apply_new_view took over from a faulty primary, and
\* those collected in the views it starts, are by servers that executed.
THEOREM FaultyCertificates == FaultySpec => []CertificatesRestOnExecution
<1> QED BY CertificatesOfExecuted, FaultyInvariance, PTL

\* A strong request is answered when 2f + 1 servers executed what is answered.
THEOREM FaultyStrongQuorum == FaultySpec => []StrongReplyQuorum
<1>1. IInv => StrongReplyQuorum BY StrongAnswersBacked DEF StrongReplyQuorum
<1> QED BY <1>1, FaultyInvariance, PTL

\* No view that a faulty primary announces, to some servers and not to others,
\* makes two strong answers disagree, if strong quorums intersect.
THEOREM FaultyAgreement ==
    ASSUME Cardinality(Replica) <= 4 * max_failures + 1
    PROVE  FaultySpec => []Agreement
<1>1. IInv => Agreement BY StrongAnswersAgree
<1> QED BY <1>1, FaultyInvariance, PTL

\* A server that follows a faulty primary through the views it announces runs
\* each request of a client once, in timestamp order.
THEOREM FaultyExecutesInOrder == FaultySpec => []ExactlyOnce
<1>1. OrderInv => ExactlyOnce BY OrderedWell
<1> QED BY <1>1, FaultyInvariance, PTL

\* What a NewView queues does not leave a thread asleep on an OR whose turn it is.
THEOREM FaultyNoWakeupLost == FaultySpec => []NoLostWakeup
<1>1. OrderInv => NoLostWakeup BY OrderedWell
<1> QED BY <1>1, FaultyInvariance, PTL

\* Nor does a change of view strand the commits of a strong request.
THEOREM FaultyNoCommitStranded == FaultySpec => []NoStrandedCommit
<1> QED BY NoneStranded, FaultyInvariance, PTL

\* Servers that are in one view, also one they reached at different times or
\* come back to, execute in one order.
THEOREM FaultyViewsOrderOnce == FaultySpec => []OneOrderPerView
<1> QED BY OneOrder, FaultyInvariance, PTL

\* A thread panics with the mutex held only where on_ihatetheprimary slices
\* the log after a certificate that a NewView brought from a longer log.
THEOREM FaultyPanics ==
    FaultySpec => [](\A q \in Replica : PanicsOnSlice(zs[q]))
<1>1. OrderInv => \A q \in Replica : PanicsOnSlice(zs[q]) BY DEF OrderInv
<1> QED BY <1>1, FaultyInvariance, PTL

\* Beside faulty servers the servers still are one log to clients with strong
\* requests, if strong quorums intersect.
THEOREM FaultyOneStrongLog ==
    ASSUME Cardinality(Replica) <= 4 * max_failures + 1
    PROVE  FaultySpec => ImplementsStrongLog
<1>1. IInv /\ OrderInv => AnswersFit BY AnswersFitLog
<1>2. IInv /\ OrderInv /\ ReportInv /\ [FaultyNext]_vars => Visible \/ zs' = zs
  BY FaultyStepKeeps
<1>3. AnswersFit /\ AnswersFit' /\ (Visible \/ zs' = zs) => [SL!Next]_(SL!vars)
  BY StepLog
<1>4. FaultySpec => []IInv /\ []OrderInv /\ []ReportInv
  BY FaultyInvariance, PTL
<1> QED BY <1>1, <1>2, <1>3, <1>4, InitLog, PTL
        DEF FaultySpec, ImplementsStrongLog, SL!Spec

-----------------------------------------------------------------------------
(* Accusations                                                             *)

\* The servers whose accusations may be about: the faulty ones, and those
\* whose own timer ran out.
Accusers ==
    Faulty \cup {p \in Live \ Faulty : p \in zs[p].ihatetheprimary_accusations}

\* Whoever is accused of hating the primary does, and enough of them do once
\* a server leaves its view.
AccusationInv ==
    \A q \in Replica :
        /\ zs[q].ihatetheprimary_accusations \subseteq Accusers
        /\ \A msg \in ihtpMsgs[q] : msg.i \in Accusers
        /\ \/ is_view_active(zs[q])
           \/ EnoughAccusations(zs[q].ihatetheprimary_accusations)

LEMMA EnoughGrows ==
    ASSUME NEW A \in SUBSET Replica, NEW B \in SUBSET A, EnoughAccusations(B)
    PROVE  EnoughAccusations(A)
<1>1. IsFiniteSet(A) BY ReplicaAssumption, FS_Subset
<1>2. /\ Cardinality(B) <= Cardinality(A)
      /\ Cardinality(A) \in Nat /\ Cardinality(B) \in Nat
  BY <1>1, FS_Subset, FS_CardinalityType
<1> QED BY <1>2, FailureAssumption DEF EnoughAccusations

LEMMA InitAccusations == Init => AccusationInv
BY DEF Init, InitialState, Empty, AccusationInv, is_view_active

LEMMA AccusationStep ==
    ASSUME IInv, IInv', AccusationInv, NEW q \in Live \ Faulty, Accusing(q)
    PROVE  AccusationInv'
<1>1. q \in Replica BY DeploymentAssumption
<1>2. \A p \in Replica : zs[p].ihatetheprimary_accusations
                            \subseteq zs'[p].ihatetheprimary_accusations
  BY DEF Accusing
<1>3. Accusers \subseteq Accusers'
  BY <1>2, DeploymentAssumption DEF Accusers
<1>4. q \in zs'[q].ihatetheprimary_accusations => q \in Accusers'
  BY DEF Accusers
<1>5. ASSUME NEW p \in Replica, NEW a \in zs'[p].ihatetheprimary_accusations
      PROVE  a \in Accusers'
  <2>1. CASE p = q
    <3>1. \/ a \in zs[q].ihatetheprimary_accusations \/ a = q
          \/ \E msg \in ihtpMsgs[q] : a = msg.i
      BY <1>5, <2>1 DEF Accusing
    <3> QED BY <1>1, <1>3, <1>4, <1>5, <2>1, <3>1 DEF AccusationInv
  <2>2. CASE p # q
    <3>1. a \in zs[p].ihatetheprimary_accusations BY <1>5, <2>2 DEF Accusing
    <3> QED BY <1>3, <3>1 DEF AccusationInv
  <2> QED BY <2>1, <2>2
<1>6. ASSUME NEW p \in Replica, NEW msg \in ihtpMsgs'[p]
      PROVE  msg.i \in Accusers'
  <2>1. \/ msg \in ihtpMsgs[p]
        \/ msg.i = q /\ q \in zs'[q].ihatetheprimary_accusations
    BY DEF Accusing
  <2> QED BY <1>3, <1>4, <2>1 DEF AccusationInv
<1>7. ASSUME NEW p \in Replica, ~is_view_active(zs'[p])
      PROVE  EnoughAccusations(zs'[p].ihatetheprimary_accusations)
  <2>1. zs'[p].ihatetheprimary_accusations \in SUBSET Replica
    BY DEF IInv, TypeOK, ZenoMutState
  <2>2. CASE EnoughAccusations(zs[p].ihatetheprimary_accusations)
    BY <1>2, <2>1, <2>2, EnoughGrows
  <2>3. CASE is_view_active(zs[p])
    <3>1. p = q BY <1>7, <2>3 DEF Accusing
    <3> QED BY <1>7, <2>3, <3>1 DEF Accusing
  <2> QED BY <2>2, <2>3 DEF AccusationInv
<1> QED BY <1>5, <1>6, <1>7 DEF AccusationInv

\* In every state, whoever is believed to hate the primary is faulty or does.
THEOREM AccusationInvariance == FaultySpec => []AccusationInv
<1>1. ASSUME IInv, IInv', OrderInv, ReportInv, AccusationInv, [FaultyNext]_vars
      PROVE  AccusationInv'
  <2>1. CASE UNCHANGED vars BY <1>1, <2>1 DEF vars, AccusationInv, Accusers
  <2>2. CASE \E q \in Live \ Faulty : Step(q)
    BY <1>1, <2>2, StepKeeps, AccusationStep, DeploymentAssumption
  <2>3. CASE \E q \in Faulty, target \in Live \ Faulty :
                FaultyAccusation(q, target) \/ FaultyNewView(q, target)
    <3>1. PICK q \in Faulty, target \in Live \ Faulty :
             FaultyAccusation(q, target) \/ FaultyNewView(q, target)
      BY <2>3
    <3>2. q \in Replica /\ target \in Replica
      BY DeploymentAssumption, FaultyAssumption
    <3>3. /\ zs' = zs
          /\ \A p \in Replica : \A msg \in ihtpMsgs'[p] :
                msg \in ihtpMsgs[p] \/ msg.i = q
      BY <1>1, <3>1, <3>2, FaultyAccusationKeeps, FaultyNewViewKeeps
    <3>4. Accusers' = Accusers /\ q \in Accusers BY <3>3 DEF Accusers
    <3> QED BY <1>1, <3>3, <3>4 DEF AccusationInv
  <2> QED BY <1>1, <2>1, <2>2, <2>3 DEF FaultyNext
<1> QED BY <1>1, FaultyInvariance, InitAccusations, PTL DEF FaultySpec

LEMMA CorrectAccuser == AccusationInv => OnlyWithCorrectAccusation
<1> SUFFICES ASSUME AccusationInv, NEW q \in Live \ Faulty, ~is_view_active(zs[q]),
                    \A p \in Live \ Faulty : p \notin zs[p].ihatetheprimary_accusations
             PROVE  FALSE
  BY DEF OnlyWithCorrectAccusation
<1>1. PICK A : A = zs[q].ihatetheprimary_accusations OBVIOUS
<1>2. q \in Replica BY DeploymentAssumption
<1>3. A \subseteq Faulty /\ Cardinality(A) > max_failures
  BY <1>1, <1>2 DEF AccusationInv, Accusers, EnoughAccusations
<1>4. IsFiniteSet(Faulty) BY FaultyAssumption, ReplicaAssumption, FS_Subset
<1>5. /\ Cardinality(A) <= Cardinality(Faulty)
      /\ Cardinality(A) \in Nat /\ Cardinality(Faulty) \in Nat
  BY <1>3, <1>4, FS_Subset, FS_CardinalityType
<1> QED BY <1>3, <1>5, FaultyAssumption, FailureAssumption

\* f servers cannot make a correct one leave its view, however often and in
\* whatever views they accuse its primary: on_ihatetheprimary counts servers,
\* and one of more than f is correct and accused the primary as its timer ran out.
THEOREM NoViewChangeByFaulty == FaultySpec => []OnlyWithCorrectAccusation
<1> QED BY CorrectAccuser, AccusationInvariance, PTL
================================================================================
