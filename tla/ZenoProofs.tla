------------------------------ MODULE ZenoProofs ------------------------------
(***************************************************************************)
(* Proofs, for every number of servers, requests and transmissions, of the *)
(* properties of module Zeno that rest on one inductive invariant, IInv:   *)
(*   - commits and certificates only speak of what was executed, so that   *)
(*     2f of them and their collector are 2f + 1 servers;                  *)
(*   - the log of a server leads from every request in it to its history.  *)
(* Every step of a server keeps IInv, also one in which it takes part in a *)
(* view that a faulty primary announces (module ZenoFaultyProofs).  That   *)
(* servers on their own never announce a view is a second invariant, Calm. *)
(***************************************************************************)
EXTENDS ZenoProperties, ZenoStateProofs

-----------------------------------------------------------------------------
(* Sequences *)

LEMMA RangeAppend ==
    ASSUME NEW S, NEW s \in Seq(S), NEW e \in S
    PROVE  Range(Append(s, e)) = Range(s) \cup {e}
<1> DEFINE t == Append(s, e)
<1>1. /\ t \in Seq(S) /\ Len(t) = Len(s) + 1 /\ t[Len(s) + 1] = e
      /\ \A i \in 1 .. Len(s) : t[i] = s[i]
  BY AppendProperties
<1>2. Len(s) \in Nat /\ DOMAIN s = 1 .. Len(s) /\ DOMAIN t = 1 .. Len(t)
  BY <1>1
<1> HIDE DEF t
<1> QED BY <1>1, <1>2 DEF Range

LEMMA PrefixByElements ==
    ASSUME NEW S, NEW s \in Seq(S), NEW t \in Seq(S)
    PROVE  IsPrefix(s, t) <=>
               Len(s) <= Len(t) /\ \A i \in 1 .. Len(s) : s[i] = t[i]
<1>1. Len(s) \in Nat /\ Len(t) \in Nat OBVIOUS
<1> SUFFICES ASSUME Len(s) <= Len(t)
             PROVE  SubSeq(s, 1, Len(s)) = SubSeq(t, 1, Len(s)) <=>
                        \A i \in 1 .. Len(s) : s[i] = t[i]
  BY <1>1 DEF IsPrefix
<1>2. /\ SubSeq(s, 1, Len(s)) \in Seq(S) /\ SubSeq(t, 1, Len(s)) \in Seq(S)
      /\ Len(SubSeq(s, 1, Len(s))) = Len(s) /\ Len(SubSeq(t, 1, Len(s))) = Len(s)
      /\ \A i \in 1 .. Len(s) : SubSeq(s, 1, Len(s))[i] = s[i]
      /\ \A i \in 1 .. Len(s) : SubSeq(t, 1, Len(s))[i] = t[i]
  <2>1. \A i \in 1 .. Len(s) : s[i] \in S /\ t[i] \in S BY <1>1
  <2>2. /\ SubSeq(s, 1, Len(s)) \in Seq(S)
        /\ Len(SubSeq(s, 1, Len(s))) = IF 1 <= Len(s) THEN Len(s) - 1 + 1 ELSE 0
        /\ \A i \in 1 .. Len(s) - 1 + 1 : SubSeq(s, 1, Len(s))[i] = s[1 + i - 1]
    BY <1>1, <2>1, SubSeqProperties
  <2>3. /\ SubSeq(t, 1, Len(s)) \in Seq(S)
        /\ Len(SubSeq(t, 1, Len(s))) = IF 1 <= Len(s) THEN Len(s) - 1 + 1 ELSE 0
        /\ \A i \in 1 .. Len(s) - 1 + 1 : SubSeq(t, 1, Len(s))[i] = t[1 + i - 1]
    BY <1>1, <2>1, SubSeqProperties
  <2> QED BY <1>1, <2>2, <2>3
<1> QED BY <1>1, <1>2, SeqEqual

LEMMA PrefixAppend ==
    ASSUME NEW S, NEW s \in Seq(S), NEW t \in Seq(S), NEW e \in S, IsPrefix(s, t)
    PROVE  IsPrefix(s, Append(t, e))
<1> DEFINE u == Append(t, e)
<1>1. /\ u \in Seq(S) /\ Len(u) = Len(t) + 1
      /\ \A i \in 1 .. Len(t) : u[i] = t[i]
  BY AppendProperties
<1> HIDE DEF u
<1>2. Len(s) \in Nat /\ Len(t) \in Nat OBVIOUS
<1>3. Len(s) <= Len(t) /\ \A i \in 1 .. Len(s) : s[i] = t[i] BY PrefixByElements
<1>4. Len(s) <= Len(u) /\ \A i \in 1 .. Len(s) : s[i] = u[i] BY <1>1, <1>2, <1>3
<1>5. IsPrefix(s, u) BY <1>1, <1>4, PrefixByElements
<1> QED BY <1>5 DEF u

LEMMA PrefixRefl ==
    ASSUME NEW S, NEW s \in Seq(S)
    PROVE  IsPrefix(s, s)
<1>1. Len(s) \in Nat OBVIOUS
<1> QED BY <1>1, PrefixByElements

\* Two prefixes of one sequence are comparable.
LEMMA PrefixesComparable ==
    ASSUME NEW S, NEW s \in Seq(S), NEW t \in Seq(S), NEW u \in Seq(S),
           IsPrefix(s, u), IsPrefix(t, u)
    PROVE  Comparable(s, t)
<1>1. Len(s) \in Nat /\ Len(t) \in Nat /\ Len(u) \in Nat OBVIOUS
<1>2. /\ Len(s) <= Len(u) /\ \A i \in 1 .. Len(s) : s[i] = u[i]
      /\ Len(t) <= Len(u) /\ \A i \in 1 .. Len(t) : t[i] = u[i]
  BY PrefixByElements
<1>3. CASE Len(s) <= Len(t)
  <2>1. \A i \in 1 .. Len(s) : s[i] = t[i] BY <1>1, <1>2, <1>3
  <2> QED BY <1>3, <2>1, PrefixByElements DEF Comparable
<1>4. CASE Len(t) <= Len(s)
  <2>1. \A i \in 1 .. Len(t) : t[i] = s[i] BY <1>1, <1>2, <1>4
  <2> QED BY <1>4, <2>1, PrefixByElements DEF Comparable
<1> QED BY <1>1, <1>3, <1>4

-----------------------------------------------------------------------------
(* The inductive invariant                                                 *)

\* What every server has executed.
Ex == [q \in Replica |-> Range(zs[q].all_executed_reqs)]

Grows(E, E1) == \A p \in Replica : E[p] \subseteq E1[p]

\* A commit that server q may count: another server executed what it says.
CommitOK(q, E, cm) == cm.j # q /\ cm.or \in E[cm.j]

\* A strong request may be answered as or says: 2f + 1 servers executed it.
Backed(E, or) ==
    or.d_req.s => Cardinality({p \in Replica : or \in E[p]}) > 2 * max_failures

ThreadOK(q, E, m, th) ==
    /\ \A cm \in th.cert : cm.or = th.or /\ CommitOK(q, E, cm)
    /\ th.pc = "gotOr" => th.or.d_req = m
    /\ th.pc = "awaitCommit" => th.or \in E[q]
    /\ th.pc \in {"reply", "done"} /\ th.or # NoOr => Backed(E, th.or)

\* A certificate that reached a server: its commits say what was executed.
CertOK(E, cc) == \A cm \in cc : cm.or \in E[cm.j]

\* The history of every request in the log leads to the server's history.
LogOK(z) == \A or \in Range(z.all_executed_reqs) : IsPrefix(or.h, z.h)

GoodServer(q, E, z) ==
    /\ LogOK(z)
    /\ \A cm \in z.pending_commits : CommitOK(q, E, cm)
    /\ CertOK(E, z.last_cc)
    /\ \A c \in Client : z.replies[c] # NoOr => Backed(E, z.replies[c])
    /\ \A m \in Request, k \in Copy : ThreadOK(q, E, m, z.thr[m][k])
    /\ IsFiniteSet(z.view_changes)
    /\ \A vc \in z.view_changes : CertOK(E, vc.cc)

\* The certificates in the ViewChanges and NewViews in flight.
ViewMsgsOK(E, vcs, nvms) ==
    \A q \in Replica :
        /\ IsFiniteSet(vcs[q])
        /\ \A vc \in vcs[q] : CertOK(E, vc.cc)
        /\ \A nvm \in nvms[q] : \A i \in DOMAIN nvm.p : CertOK(E, nvm.p[i].cc)

IInv ==
    /\ TypeOK
    /\ \A q \in Replica : GoodServer(q, Ex, zs[q])
    /\ \A q \in Replica : \A cm \in commitMsgs[q] : CommitOK(q, Ex, cm)
    /\ ViewMsgsOK(Ex, viewChangeMsgs, newViewMsgs)

\* The view of a server that has not seen a second view change.
FirstViews(z) == z.v <= 1 /\ (z.view_state = "ViewActive" => z.v = 0)

\* No view was announced: a server's certificate is one it collected.
Calm ==
    \A q \in Replica :
        /\ FirstViews(zs[q])
        /\ \A cm \in zs[q].last_cc : cm.or \in Ex[q]
        /\ \A vc \in viewChangeMsgs[q] : vc.v >= 1
        /\ newViewMsgs[q] = {}

-----------------------------------------------------------------------------
(* What steps do to views and accusations                                  *)

\* A step of server q that changes neither, nor what it knows of view changes.
StaysInView(q) ==
    /\ \A p \in Replica : p # q => zs'[p] = zs[p]
    /\ zs'[q].v = zs[q].v /\ zs'[q].view_state = zs[q].view_state
    /\ zs'[q].view_changes = zs[q].view_changes
    /\ zs'[q].ihatetheprimary_accusations = zs[q].ihatetheprimary_accusations
    /\ \A cm \in zs'[q].last_cc : cm \in zs[q].last_cc \/ cm.or \in Ex[q]
    /\ Grows(Ex, Ex')
    /\ UNCHANGED <<ihtpMsgs, viewChangeMsgs, newViewMsgs>>

\* Whatever q does, it only adds its own accusation, once it accuses the
\* primary itself, and those it is sent; it leaves its view when there are
\* enough of them.
Accusing(q) ==
    /\ \A p \in Replica : p # q => zs'[p] = zs[p]
    /\ zs[q].ihatetheprimary_accusations \subseteq zs'[q].ihatetheprimary_accusations
    /\ zs'[q].ihatetheprimary_accusations \subseteq
           zs[q].ihatetheprimary_accusations \cup {q} \cup {msg.i : msg \in ihtpMsgs[q]}
    /\ \/ is_view_active(zs'[q]) <=> is_view_active(zs[q])
       \/ EnoughAccusations(zs'[q].ihatetheprimary_accusations)
    /\ \A p \in Replica : \A msg \in ihtpMsgs'[p] :
           \/ msg \in ihtpMsgs[p]
           \/ msg.i = q /\ q \in zs'[q].ihatetheprimary_accusations

LEMMA StaysCalm ==
    ASSUME NEW q \in Replica, StaysInView(q)
    PROVE  Accusing(q) /\ (Calm => Calm')
<1>1. Accusing(q) BY DEF StaysInView, Accusing, is_view_active
<1>2. ASSUME Calm, NEW p \in Replica
      PROVE  /\ FirstViews(zs'[p])
             /\ \A cm \in zs'[p].last_cc : cm.or \in Ex'[p]
  <2>1. Ex[p] \subseteq Ex'[p] BY DEF StaysInView, Grows
  <2>2. CASE p = q BY <1>2, <2>1, <2>2 DEF Calm, StaysInView, FirstViews
  <2>3. CASE p # q BY <1>2, <2>1, <2>3 DEF Calm, StaysInView
  <2> QED BY <2>2, <2>3
<1>3. ASSUME Calm PROVE Calm'
  <2>1. viewChangeMsgs' = viewChangeMsgs /\ newViewMsgs' = newViewMsgs
    BY DEF StaysInView
  <2> QED BY <1>2, <1>3, <2>1 DEF Calm
<1> QED BY <1>1, <1>3

-----------------------------------------------------------------------------
(* What executing more does to the invariant                               *)

LEMMA BackedGrows ==
    ASSUME NEW E, NEW E1, Grows(E, E1), NEW or, Backed(E, or)
    PROVE  Backed(E1, or)
<1> SUFFICES ASSUME or.d_req.s
             PROVE  Cardinality({p \in Replica : or \in E1[p]}) > 2 * max_failures
  BY DEF Backed
<1> DEFINE A == {p \in Replica : or \in E[p]}
           B == {p \in Replica : or \in E1[p]}
<1>1. IsFiniteSet(B) BY FS_Subset, ReplicaAssumption
<1>2. A \subseteq B BY DEF Grows
<1>3. Cardinality(A) > 2 * max_failures BY DEF Backed
<1> HIDE DEF A, B
<1>4. /\ Cardinality(A) <= Cardinality(B)
      /\ Cardinality(A) \in Nat /\ Cardinality(B) \in Nat
  BY <1>1, <1>2, FS_Subset, FS_CardinalityType
<1>5. Cardinality(B) > 2 * max_failures BY <1>3, <1>4, FailureAssumption
<1> QED BY <1>5 DEF B

LEMMA ThreadGrows ==
    ASSUME NEW E, NEW E1, Grows(E, E1), NEW q \in Replica, NEW m,
           NEW th \in Thread, ThreadOK(q, E, m, th)
    PROVE  ThreadOK(q, E1, m, th)
<1>1. \A cm \in th.cert : cm.j \in Replica
  BY DEF Thread, CommitCertificate, Commit
<1> QED BY <1>1, BackedGrows DEF ThreadOK, CommitOK, Grows

LEMMA CertGrows ==
    ASSUME NEW E, NEW E1, Grows(E, E1), NEW cc \in CommitCertificate, CertOK(E, cc)
    PROVE  CertOK(E1, cc)
<1>1. \A cm \in cc : cm.j \in Replica BY DEF CommitCertificate, Commit
<1> QED BY <1>1 DEF CertOK, Grows

LEMMA GoodGrows ==
    ASSUME NEW E, NEW E1, Grows(E, E1), NEW q \in Replica,
           NEW z \in ZenoMutState, GoodServer(q, E, z)
    PROVE  GoodServer(q, E1, z)
<1>1. \A cm \in z.pending_commits : cm.j \in Replica
  BY DEF ZenoMutState, Commit
<1>2. \A m \in Request, k \in Copy : z.thr[m][k] \in Thread BY DEF ZenoMutState
<1>3. \A m \in Request, k \in Copy : ThreadOK(q, E1, m, z.thr[m][k])
  BY <1>2, ThreadGrows DEF GoodServer
<1>4. \A c \in Client : z.replies[c] # NoOr => Backed(E1, z.replies[c])
  BY BackedGrows DEF GoodServer
<1>5. CertOK(E1, z.last_cc)
  <2>1. z.last_cc \in CommitCertificate BY DEF ZenoMutState
  <2> QED BY <2>1, CertGrows DEF GoodServer
<1>6. ASSUME NEW vc \in z.view_changes
      PROVE  CertOK(E1, vc.cc)
  <2>1. vc.cc \in CommitCertificate BY DEF ZenoMutState, ViewChange
  <2>2. CertOK(E, vc.cc) BY DEF GoodServer
  <2> QED BY <2>1, <2>2, CertGrows
<1> QED BY <1>1, <1>3, <1>4, <1>5, <1>6 DEF GoodServer, CommitOK, Grows

LEMMA ViewMsgsGrow ==
    ASSUME NEW E, NEW E1, Grows(E, E1),
           NEW vcs \in [Replica -> SUBSET ViewChange],
           NEW nvms \in [Replica -> SUBSET NewView], ViewMsgsOK(E, vcs, nvms)
    PROVE  ViewMsgsOK(E1, vcs, nvms)
<1>1. ASSUME NEW q \in Replica, NEW vc \in vcs[q] PROVE CertOK(E1, vc.cc)
  <2>1. vc.cc \in CommitCertificate BY DEF ViewChange
  <2>2. CertOK(E, vc.cc) BY DEF ViewMsgsOK
  <2> QED BY <2>1, <2>2, CertGrows
<1>2. ASSUME NEW q \in Replica, NEW nvm \in nvms[q], NEW i \in DOMAIN nvm.p
      PROVE  CertOK(E1, nvm.p[i].cc)
  <2>1. nvm.p \in Seq(ViewChange) BY DEF NewView
  <2>2. nvm.p[i] \in ViewChange BY <2>1
  <2>3. nvm.p[i].cc \in CommitCertificate BY <2>2 DEF ViewChange
  <2>4. CertOK(E, nvm.p[i].cc) BY DEF ViewMsgsOK
  <2> QED BY <2>3, <2>4, CertGrows
<1> QED BY <1>1, <1>2 DEF ViewMsgsOK

\* Threads that end, wait or have just been woken are always in order.
LEMMA QuietThreads ==
    ASSUME NEW q, NEW E, NEW m
    PROVE  /\ ThreadOK(q, E, m, Finished)
           /\ ThreadOK(q, E, m, [pc |-> "awaitOr", or |-> NoOr, cert |-> {}])
           /\ \A th : Woken(m, th) => ThreadOK(q, E, m, th)
BY DEF ThreadOK, Finished, Woken

LEMMA ReplyingOK ==
    ASSUME NEW q, NEW E, NEW m, NEW or, Backed(E, or)
    PROVE  ThreadOK(q, E, m, Replying(or))
BY DEF ThreadOK, Replying

LEMMA GoodTame ==
    ASSUME NEW E, NEW q \in Replica, NEW z, NEW z1,
           GoodServer(q, E, z), Tame(z, z1)
    PROVE  GoodServer(q, E, z1)
<1>1. \A m \in Request, k \in Copy : ThreadOK(q, E, m, z1.thr[m][k])
  BY QuietThreads DEF GoodServer, Tame
<1> QED BY <1>1 DEF GoodServer, Tame, LogOK

\* So does the start of a view with certificates of what was executed.
LEMMA GoodApplied ==
    ASSUME NEW E, NEW q \in Replica, NEW V, NEW z, NEW z1,
           GoodServer(q, E, z), Applied(V, z, z1), \A vc \in V : CertOK(E, vc.cc)
    PROVE  GoodServer(q, E, z1)
<1>1. \A m \in Request, k \in Copy : ThreadOK(q, E, m, z1.thr[m][k])
  BY QuietThreads DEF GoodServer, Applied
<1>2. CertOK(E, z1.last_cc) BY DEF GoodServer, Applied
<1> QED BY <1>1, <1>2 DEF GoodServer, Applied, LogOK

\* Running a request keeps a server good if it is in the log afterwards.
LEMMA GoodRun ==
    ASSUME NEW E, NEW E1, Grows(E, E1), NEW q \in Replica,
           NEW z \in ZenoMutState, GoodServer(q, E, z),
           NEW or \in OrderedRequest, NEW m \in Request, NEW k \in Copy,
           or.d_req = m, Executes(z, or, m) => or \in E1[q],
           NEW z1 \in ZenoMutState, RunEffect(z, z1, or, m, k)
    PROVE  GoodServer(q, E1, z1)
<1>1. GoodServer(q, E1, z) BY GoodGrows
<1>2. LogOK(z1)
  <2>1. CASE ~Executes(z, or, m)
    BY <1>1, <2>1 DEF GoodServer, LogOK, RunEffect
  <2>2. CASE Executes(z, or, m)
    <3>1. /\ z.h \in Seq(Request) /\ z1.h \in Seq(Request)
          /\ z.all_executed_reqs \in Seq(OrderedRequest)
      BY DEF ZenoMutState
    <3>2. /\ z1.h = Append(z.h, m) /\ or.h = z1.h
          /\ z1.all_executed_reqs = Append(z.all_executed_reqs, or)
      BY <2>2 DEF RunEffect, Executes, Checks
    <3>3. Range(z1.all_executed_reqs) = Range(z.all_executed_reqs) \cup {or}
      BY <3>1, <3>2, RangeAppend
    <3>4. IsPrefix(or.h, z1.h) BY <3>1, <3>2, PrefixRefl
    <3>5. ASSUME NEW o \in Range(z.all_executed_reqs)
          PROVE  IsPrefix(o.h, z1.h)
      <4>1. IsPrefix(o.h, z.h) BY <1>1 DEF GoodServer, LogOK
      <4>2. o \in OrderedRequest BY <3>1 DEF Range
      <4>3. o.h \in Seq(Request) BY <4>2 DEF OrderedRequest
      <4> QED BY <3>1, <3>2, <4>1, <4>3, PrefixAppend
    <3> QED BY <3>3, <3>4, <3>5 DEF LogOK
  <2> QED BY <2>1, <2>2
<1>3. ASSUME NEW m1 \in Request, NEW k1 \in Copy
      PROVE  ThreadOK(q, E1, m1, z1.thr[m1][k1])
  <2>1. CASE z1.thr[m1][k1] = z.thr[m1][k1] BY <1>1, <2>1 DEF GoodServer
  <2>2. CASE z1.thr[m1][k1] = Finished \/ Woken(m1, z1.thr[m1][k1])
    BY <2>2, QuietThreads
  <2>3. CASE /\ m1 = m /\ Executes(z, or, m)
             /\ m.s /\ AwaitingCommits(z, or, z1.thr[m1][k1])
    BY <1>1, <2>3 DEF AwaitingCommits, ThreadOK, GoodServer
  <2>4. CASE m1 = m /\ ~m.s /\ z1.thr[m1][k1] = Replying(or)
    BY <2>4, ReplyingOK DEF Backed
  <2> QED BY <2>1, <2>2, <2>3, <2>4 DEF RunEffect
<1> QED BY <1>1, <1>2, <1>3 DEF GoodServer, RunEffect

-----------------------------------------------------------------------------
(* Steps of one server *)

\* What a step of server q to state z1 has to show.
LEMMA ServerStep ==
    ASSUME IInv, NEW q \in Replica, NEW z1 \in ZenoMutState,
           zs' = [zs EXCEPT ![q] = z1], Grows(Ex, Ex'), GoodServer(q, Ex', z1),
           orMsgs' \in [Replica -> SUBSET OrderedRequest],
           commitMsgs' \in [Replica -> SUBSET Commit],
           fillHoleMsgs' \in [Replica -> SUBSET FillHole],
           ihtpMsgs' \in [Replica -> SUBSET IHateThePrimary],
           viewChangeMsgs' \in [Replica -> SUBSET ViewChange],
           newViewMsgs' \in [Replica -> SUBSET NewView],
           \A p \in Replica : \A cm \in commitMsgs'[p] : CommitOK(p, Ex', cm),
           ViewMsgsOK(Ex, viewChangeMsgs', newViewMsgs')
    PROVE  IInv'
<1>1. TypeOK' BY DEF IInv, TypeOK
<1>2. ASSUME NEW p \in Replica
      PROVE  GoodServer(p, Ex', zs'[p])
  <2>1. CASE p = q BY <2>1 DEF IInv, TypeOK
  <2>2. CASE p # q
    <3>1. zs'[p] = zs[p] /\ zs[p] \in ZenoMutState BY <2>2 DEF IInv, TypeOK
    <3> QED BY <3>1, GoodGrows DEF IInv
  <2> QED BY <2>1, <2>2
<1>3. ViewMsgsOK(Ex', viewChangeMsgs', newViewMsgs') BY ViewMsgsGrow
<1> QED BY <1>1, <1>2, <1>3 DEF IInv

\* A step of server q that executes nothing and sends no commit.
LEMMA IdleStep ==
    ASSUME IInv, NEW q \in Replica, NEW z1 \in ZenoMutState,
           zs' = [zs EXCEPT ![q] = z1],
           z1.all_executed_reqs = zs[q].all_executed_reqs, GoodServer(q, Ex, z1),
           orMsgs' \in [Replica -> SUBSET OrderedRequest],
           commitMsgs' \in [Replica -> SUBSET Commit],
           fillHoleMsgs' \in [Replica -> SUBSET FillHole],
           ihtpMsgs' \in [Replica -> SUBSET IHateThePrimary],
           viewChangeMsgs' \in [Replica -> SUBSET ViewChange],
           newViewMsgs' \in [Replica -> SUBSET NewView],
           \A p \in Replica : commitMsgs'[p] \subseteq commitMsgs[p],
           ViewMsgsOK(Ex, viewChangeMsgs', newViewMsgs')
    PROVE  /\ IInv' /\ Ex' = Ex
           /\ \A p \in Replica : zs'[p] = IF p = q THEN z1 ELSE zs[p]
<1>1. zs \in [Replica -> ZenoMutState] BY DEF IInv, TypeOK
<1>2. \A p \in Replica : zs'[p].all_executed_reqs = zs[p].all_executed_reqs
  BY <1>1
<1>3. Ex' = Ex BY <1>2 DEF Ex
<1>4. Grows(Ex, Ex') BY <1>3 DEF Grows
<1>5. \A p \in Replica : \A cm \in commitMsgs'[p] : CommitOK(p, Ex', cm)
  BY <1>3 DEF IInv
<1>6. GoodServer(q, Ex', z1) BY <1>3
<1>7. IInv' BY <1>4, <1>5, <1>6, ServerStep
<1> QED BY <1>1, <1>3, <1>7

\* One in which it also stays in its view.
LEMMA QuietStep ==
    ASSUME IInv, NEW q \in Replica, NEW z1 \in ZenoMutState,
           zs' = [zs EXCEPT ![q] = z1],
           z1.all_executed_reqs = zs[q].all_executed_reqs, GoodServer(q, Ex, z1),
           z1.v = zs[q].v, z1.view_state = zs[q].view_state,
           z1.view_changes = zs[q].view_changes,
           z1.ihatetheprimary_accusations = zs[q].ihatetheprimary_accusations,
           \A cm \in z1.last_cc : cm \in zs[q].last_cc \/ cm.or \in Ex[q],
           orMsgs' \in [Replica -> SUBSET OrderedRequest],
           commitMsgs' \in [Replica -> SUBSET Commit],
           fillHoleMsgs' \in [Replica -> SUBSET FillHole],
           UNCHANGED <<ihtpMsgs, viewChangeMsgs, newViewMsgs>>,
           \A p \in Replica : commitMsgs'[p] \subseteq commitMsgs[p]
    PROVE  IInv' /\ StaysInView(q)
<1>1. /\ ihtpMsgs' \in [Replica -> SUBSET IHateThePrimary]
      /\ viewChangeMsgs' \in [Replica -> SUBSET ViewChange]
      /\ newViewMsgs' \in [Replica -> SUBSET NewView]
      /\ ViewMsgsOK(Ex, viewChangeMsgs', newViewMsgs')
  BY DEF IInv, TypeOK
<1>2. /\ IInv' /\ Ex' = Ex
      /\ \A p \in Replica : zs'[p] = IF p = q THEN z1 ELSE zs[p]
  BY <1>1, IdleStep
<1> QED BY <1>2 DEF StaysInView, Grows

\* A step of server q that only ends and wakes threads.
LEMMA TameStep ==
    ASSUME IInv, NEW q \in Replica, NEW z1 \in ZenoMutState, Tame(zs[q], z1),
           zs' = [zs EXCEPT ![q] = z1],
           orMsgs' \in [Replica -> SUBSET OrderedRequest],
           commitMsgs' \in [Replica -> SUBSET Commit],
           fillHoleMsgs' \in [Replica -> SUBSET FillHole],
           UNCHANGED <<ihtpMsgs, viewChangeMsgs, newViewMsgs>>,
           \A p \in Replica : commitMsgs'[p] \subseteq commitMsgs[p]
    PROVE  IInv' /\ StaysInView(q)
<1>1. GoodServer(q, Ex, z1) BY GoodTame DEF IInv
<1>2. /\ z1.all_executed_reqs = zs[q].all_executed_reqs
      /\ z1.v = zs[q].v /\ z1.view_state = zs[q].view_state
      /\ z1.view_changes = zs[q].view_changes
      /\ z1.ihatetheprimary_accusations = zs[q].ihatetheprimary_accusations
      /\ \A cm \in z1.last_cc : cm \in zs[q].last_cc \/ cm.or \in Ex[q]
  BY DEF Tame
<1> QED BY <1>1, <1>2, QuietStep

LEMMA SendType ==
    ASSUME NEW S, NEW inbox \in [Replica -> SUBSET S], NEW msg \in S,
           NEW q, NEW target
    PROVE  /\ send_to_all(inbox, q, msg) \in [Replica -> SUBSET S]
           /\ send_to(inbox, q, target, msg) \in [Replica -> SUBSET S]
BY DeploymentAssumption DEF send_to_all, send_to

LEMMA HandledType ==
    ASSUME NEW S, NEW inbox \in [Replica -> SUBSET S], NEW msg, NEW q \in Replica
    PROVE  /\ Handled(inbox, q, msg) \in [Replica -> SUBSET S]
           /\ \A p \in Replica : Handled(inbox, q, msg)[p] \subseteq inbox[p]
BY DEF Handled

\* Running a request adds its OR to what the server has executed, if at all.
LEMMA RunGrows ==
    ASSUME TypeOK, NEW q \in Replica, NEW z \in ZenoMutState,
           z.all_executed_reqs = zs[q].all_executed_reqs,
           NEW or \in OrderedRequest, NEW m, NEW k, NEW z1, RunEffect(z, z1, or, m, k),
           zs' = [zs EXCEPT ![q] = z1]
    PROVE  /\ Ex'[q] = IF Executes(z, or, m) THEN Ex[q] \cup {or} ELSE Ex[q]
           /\ \A p \in Replica : p # q => Ex'[p] = Ex[p]
           /\ Grows(Ex, Ex')
<1>1. zs \in [Replica -> ZenoMutState] BY DEF TypeOK
<1>2. z.all_executed_reqs \in Seq(OrderedRequest) BY DEF ZenoMutState
<1>3. Range(z1.all_executed_reqs) =
         IF Executes(z, or, m) THEN Range(z.all_executed_reqs) \cup {or}
         ELSE Range(z.all_executed_reqs)
  <2>1. Range(Append(z.all_executed_reqs, or)) = Range(z.all_executed_reqs) \cup {or}
    BY <1>2, RangeAppend
  <2> QED BY <2>1 DEF RunEffect
<1>4. Ex'[q] = IF Executes(z, or, m) THEN Ex[q] \cup {or} ELSE Ex[q]
  BY <1>1, <1>3 DEF Ex
<1>5. \A p \in Replica : p # q => Ex'[p] = Ex[p] BY <1>1 DEF Ex
<1>6. Grows(Ex, Ex') BY <1>4, <1>5 DEF Grows
<1> QED BY <1>4, <1>5, <1>6

\* A step in which thread k of m runs what its ordered request says.
LEMMA RunStep ==
    ASSUME IInv, NEW q \in Replica, NEW z \in ZenoMutState, Tame(zs[q], z),
           NEW or \in OrderedRequest, NEW m \in Request, NEW k \in Copy,
           or.d_req = m, Run(q, z, or, m, k),
           orMsgs' \in [Replica -> SUBSET OrderedRequest],
           UNCHANGED <<fillHoleMsgs, ihtpMsgs, viewChangeMsgs, newViewMsgs>>
    PROVE  IInv' /\ StaysInView(q)
<1>1. PICK z1 \in ZenoMutState : /\ z1 = check_and_execute_request(z, or, m, k)
                                 /\ RunEffect(z, z1, or, m, k)
  BY RunLemma
<1>2. zs' = [zs EXCEPT ![q] = z1] BY <1>1, Zenon DEF Run
<1>3. zs \in [Replica -> ZenoMutState] BY DEF IInv, TypeOK
<1>4. z.all_executed_reqs = zs[q].all_executed_reqs BY DEF Tame
<1>5. TypeOK BY DEF IInv
<1>6. Ex'[q] = IF Executes(z, or, m) THEN Ex[q] \cup {or} ELSE Ex[q]
  BY <1>1, <1>2, <1>4, <1>5, RunGrows
<1>7. Grows(Ex, Ex') BY <1>1, <1>2, <1>4, <1>5, RunGrows
<1>8. GoodServer(q, Ex, z) BY GoodTame DEF IInv
<1>9. GoodServer(q, Ex', z1) BY <1>1, <1>6, <1>7, <1>8, GoodRun
<1>10. PICK cm \in Commit : cm = [or |-> or, j |-> q] BY DEF Commit
<1>11. \/ commitMsgs' = commitMsgs
       \/ /\ commitMsgs' = send_to_all(commitMsgs, q, cm)
          /\ Executes(z, or, m)
  BY <1>10, Zenon DEF Run
<1>12. commitMsgs' \in [Replica -> SUBSET Commit]
  <2>1. commitMsgs \in [Replica -> SUBSET Commit] BY DEF IInv, TypeOK
  <2>2. send_to_all(commitMsgs, q, cm) \in [Replica -> SUBSET Commit]
    BY <2>1, SendType
  <2> QED BY <1>11, <2>1, <2>2
<1>13. ASSUME NEW p \in Replica, NEW c \in commitMsgs'[p]
       PROVE  CommitOK(p, Ex', c)
  <2>1. CASE c \in commitMsgs[p]
    <3>1. c.j \in Replica BY <2>1 DEF IInv, TypeOK, Commit
    <3> QED BY <1>7, <2>1, <3>1 DEF IInv, CommitOK, Grows
  <2>2. CASE c \notin commitMsgs[p]
    <3>1. c = cm /\ p # q /\ Executes(z, or, m)
      BY <1>11, <2>2 DEF send_to_all, IInv, TypeOK
    <3> QED BY <1>6, <1>10, <3>1 DEF CommitOK
  <2> QED BY <2>1, <2>2
<1>14. IInv'
  BY <1>2, <1>7, <1>9, <1>12, <1>13, ServerStep DEF IInv, TypeOK
<1>15. StaysInView(q)
  BY <1>1, <1>2, <1>3, <1>7 DEF StaysInView, RunEffect, Tame
<1> QED BY <1>14, <1>15

-----------------------------------------------------------------------------
(* Every action                                                            *)

LEMMA InitIInv == Init => IInv
<1> SUFFICES ASSUME Init PROVE IInv
  OBVIOUS
<1>1. TypeOK BY InitialStateType DEF Init, Empty, TypeOK
<1>2. ASSUME NEW q \in Replica
      PROVE  GoodServer(q, Ex, zs[q])
  <2>1. zs[q] = InitialState BY DEF Init
  <2>2. Range(<<>>) = {} BY DEF Range
  <2>3. \A m \in Request, k \in Copy : ThreadOK(q, Ex, m, NewThread)
    BY DEF ThreadOK, NewThread
  <2>4. /\ InitialState.all_executed_reqs = <<>>
        /\ InitialState.pending_commits = {} /\ InitialState.last_cc = {}
        /\ InitialState.view_changes = {}
        /\ \A c \in Client : InitialState.replies[c] = NoOr
        /\ \A m \in Request, k \in Copy : InitialState.thr[m][k] = NewThread
    BY DEF InitialState
  <2>5. IsFiniteSet({}) BY FS_EmptySet
  <2> QED BY <2>1, <2>2, <2>3, <2>4, <2>5 DEF GoodServer, LogOK, CertOK
<1>3. ViewMsgsOK(Ex, viewChangeMsgs, newViewMsgs)
  BY FS_EmptySet DEF Init, Empty, ViewMsgsOK
<1> QED BY <1>1, <1>2, <1>3 DEF Init, Empty, IInv

LEMMA OnArrivalTame ==
    ASSUME IInv, NEW q \in Replica, NEW m \in Request
    PROVE  OnArrival(q, m) \in ZenoMutState /\ Tame(zs[q], OnArrival(q, m))
<1>1. zs[q] \in ZenoMutState BY DEF IInv, TypeOK
<1> QED BY <1>1, TimerTame DEF OnArrival, Tame

LEMMA AnswerFromCacheStep ==
    ASSUME IInv, NEW q \in Replica, NEW m \in Request, NEW k \in Copy,
           AnswerFromCache(q, m, k)
    PROVE  IInv' /\ StaysInView(q)
<1>1. zs[q] \in ZenoMutState /\ m.c \in Client BY DEF IInv, TypeOK, Client
<1>2. PICK th \in Thread :
         /\ th = IF zs[q].replies[m.c] = NoOr THEN Finished
                 ELSE Replying(zs[q].replies[m.c])
         /\ ThreadOK(q, Ex, m, th)
  <2>1. zs[q].replies[m.c] \in OrderedRequest \cup {NoOr} BY <1>1 DEF ZenoMutState
  <2>2. zs[q].replies[m.c] # NoOr => Backed(Ex, zs[q].replies[m.c])
    BY <1>1 DEF IInv, GoodServer
  <2> QED BY <2>1, <2>2, ThreadTypes, QuietThreads, ReplyingOK
<1> DEFINE z1 == [zs[q] EXCEPT !.thr[m][k] = th]
<1>3. zs' = [zs EXCEPT ![q] = z1] BY <1>2, Zenon DEF AnswerFromCache
<1>4. z1 \in ZenoMutState BY <1>1, SetThreadType, Zenon
<1>5. \A m1 \in Request, k1 \in Copy :
         z1.thr[m1][k1] = IF m1 = m /\ k1 = k THEN th ELSE zs[q].thr[m1][k1]
  BY <1>1, OneThread DEF ZenoMutState
<1>6. /\ z1.v = zs[q].v /\ z1.view_state = zs[q].view_state
      /\ z1.view_changes = zs[q].view_changes
      /\ z1.ihatetheprimary_accusations = zs[q].ihatetheprimary_accusations
      /\ z1.h = zs[q].h /\ z1.all_executed_reqs = zs[q].all_executed_reqs
      /\ z1.replies = zs[q].replies /\ z1.last_cc = zs[q].last_cc
      /\ z1.pending_commits = zs[q].pending_commits
  BY <1>1 DEF ZenoMutState
<1> HIDE DEF z1
<1>7. GoodServer(q, Ex, z1)
  BY <1>2, <1>5, <1>6 DEF IInv, GoodServer, LogOK
<1> QED BY <1>3, <1>4, <1>6, <1>7, QuietStep DEF AnswerFromCache, IInv, TypeOK

LEMMA ExecuteQueuedStep ==
    ASSUME IInv, NEW q \in Replica, NEW m \in Request, NEW k \in Copy,
           ExecuteQueued(q, m, k)
    PROVE  IInv' /\ StaysInView(q)
<1>1. PICK z \in ZenoMutState : z = OnArrival(q, m) /\ Tame(zs[q], z)
  BY OnArrivalTame
<1>2. PICK or \in zs[q].pending_ors :
         /\ or.d_req = m
         /\ Run(q, [z EXCEPT !.pending_ors = @ \ {or}], or, m, k)
  BY <1>1 DEF ExecuteQueued, IsQueued
<1>3. or \in OrderedRequest BY DEF IInv, TypeOK, ZenoMutState
<1> DEFINE z1 == [z EXCEPT !.pending_ors = @ \ {or}]
<1>4. z1 \in ZenoMutState /\ Tame(zs[q], z1)
  BY <1>1, UnqueueTame, TameTransitive
<1>5. Run(q, z1, or, m, k) BY <1>2
<1> HIDE DEF z1
<1> QED BY <1>2, <1>3, <1>4, <1>5, RunStep DEF ExecuteQueued, IInv, TypeOK

LEMMA OrderRequestStep ==
    ASSUME IInv, NEW q \in Replica, NEW m \in Request, NEW k \in Copy,
           OrderRequest(q, m, k)
    PROVE  IInv' /\ StaysInView(q)
<1>1. PICK z \in ZenoMutState : z = OnArrival(q, m) /\ Tame(zs[q], z)
  BY OnArrivalTame
<1>2. CASE LogMatches(z) /\ order_message(q, z, m) = NoOr
  <2>1. PICK th \in Thread : th = Finished BY ThreadTypes
  <2> DEFINE z1 == [z EXCEPT !.thr[m][k] = th]
  <2>2. zs' = [zs EXCEPT ![q] = z1] /\ UNCHANGED <<orMsgs, commitMsgs>>
    BY <1>1, <1>2, <2>1, Zenon DEF OrderRequest
  <2>3. z1 \in ZenoMutState BY SetThreadType, Zenon
  <2>4. \A m1 \in Request, k1 \in Copy :
           z1.thr[m1][k1] = IF m1 = m /\ k1 = k THEN th ELSE z.thr[m1][k1]
    BY OneThread DEF ZenoMutState
  <2>5. /\ z1.v = z.v /\ z1.view_state = z.view_state
        /\ z1.view_changes = z.view_changes
        /\ z1.ihatetheprimary_accusations = z.ihatetheprimary_accusations /\ z1.n = z.n
        /\ z1.h = z.h /\ z1.all_executed_reqs = z.all_executed_reqs
        /\ z1.replies = z.replies /\ z1.last_cc = z.last_cc
        /\ z1.pending_commits = z.pending_commits
    BY DEF ZenoMutState
  <2> HIDE DEF z1
  <2>6. Tame(zs[q], z1) BY <1>1, <2>1, <2>4, <2>5 DEF Tame
  <2> QED BY <2>2, <2>3, <2>6, TameStep DEF OrderRequest, IInv, TypeOK
<1>3. CASE ~LogMatches(z)
  <2> DEFINE z1 == [z EXCEPT !.poisoned = TRUE]
  <2>1. zs' = [zs EXCEPT ![q] = z1] /\ UNCHANGED <<orMsgs, commitMsgs>>
    BY <1>1, <1>3, Zenon DEF OrderRequest
  <2>2. z1 \in ZenoMutState BY DEF ZenoMutState
  <2>3. /\ z1.v = z.v /\ z1.view_state = z.view_state
        /\ z1.view_changes = z.view_changes
        /\ z1.ihatetheprimary_accusations = z.ihatetheprimary_accusations /\ z1.n = z.n
        /\ z1.h = z.h /\ z1.all_executed_reqs = z.all_executed_reqs
        /\ z1.replies = z.replies /\ z1.last_cc = z.last_cc
        /\ z1.pending_commits = z.pending_commits /\ z1.thr = z.thr
    BY DEF ZenoMutState
  <2> HIDE DEF z1
  <2>4. Tame(zs[q], z1) BY <1>1, <2>3 DEF Tame
  <2> QED BY <2>1, <2>2, <2>4, TameStep DEF OrderRequest, IInv, TypeOK
<1>4. CASE LogMatches(z) /\ order_message(q, z, m) # NoOr
  <2>1. PICK or \in OrderedRequest : or = order_message(q, z, m) /\ or.d_req = m
    BY <1>4, order_messageType
  <2>2. /\ orMsgs' = send_to_all(orMsgs, q, or) /\ Run(q, z, or, m, k)
    BY <1>1, <1>4, <2>1, Zenon DEF OrderRequest
  <2>3. orMsgs \in [Replica -> SUBSET OrderedRequest] BY DEF IInv, TypeOK
  <2>4. orMsgs' \in [Replica -> SUBSET OrderedRequest] BY <2>2, <2>3, SendType
  <2> QED BY <1>1, <2>1, <2>2, <2>4, RunStep DEF OrderRequest
<1> QED BY <1>2, <1>3, <1>4

LEMMA AwaitOrStep ==
    ASSUME IInv, NEW q \in Replica, NEW m \in Request, NEW k \in Copy,
           AwaitOr(q, m, k)
    PROVE  IInv' /\ StaysInView(q)
<1>1. PICK z \in ZenoMutState : z = OnArrival(q, m) /\ Tame(zs[q], z)
  BY OnArrivalTame
<1>2. z.thr[m][k].pc = "new"
  BY <1>1 DEF AwaitOr, Arrives, OnArrival, start_ihatetheprimary_timer, IInv,
              TypeOK, ZenoMutState
<1> DEFINE z1 == [DropOrSender(z, m) EXCEPT !.reqs_without_ors[m] = k,
                                            !.thr[m][k].pc = "awaitOr"]
<1>3. zs' = [zs EXCEPT ![q] = z1] BY <1>1, Zenon DEF AwaitOr
<1>4. /\ z1 \in ZenoMutState
      /\ z1.v = z.v /\ z1.view_state = z.view_state
      /\ z1.view_changes = z.view_changes
      /\ z1.ihatetheprimary_accusations = z.ihatetheprimary_accusations
      /\ z1.h = z.h /\ z1.all_executed_reqs = z.all_executed_reqs
      /\ z1.replies = z.replies
      /\ z1.pending_commits = z.pending_commits
      /\ z1.last_cc = z.last_cc
      /\ \A m1 \in Request, k1 \in Copy :
            \/ z1.thr[m1][k1] \in {z.thr[m1][k1], Finished}
            \/ z1.thr[m1][k1] = [pc |-> "awaitOr", or |-> NoOr, cert |-> {}]
  BY <1>2, AwaitOrEffect
<1> HIDE DEF z1
<1>5. GoodServer(q, Ex, z) BY <1>1, GoodTame DEF IInv
<1>6. \A m1 \in Request, k1 \in Copy : ThreadOK(q, Ex, m1, z1.thr[m1][k1])
  BY <1>4, <1>5, QuietThreads DEF GoodServer
<1>7. GoodServer(q, Ex, z1)
  BY <1>4, <1>5, <1>6 DEF GoodServer, LogOK
<1>8. /\ z1.all_executed_reqs = zs[q].all_executed_reqs
      /\ z1.v = zs[q].v /\ z1.view_state = zs[q].view_state
      /\ z1.view_changes = zs[q].view_changes
      /\ z1.ihatetheprimary_accusations = zs[q].ihatetheprimary_accusations
      /\ z1.last_cc = zs[q].last_cc
  BY <1>1, <1>4 DEF Tame
<1> QED BY <1>3, <1>4, <1>7, <1>8, QuietStep DEF AwaitOr, IInv, TypeOK

LEMMA ExecuteReceivedStep ==
    ASSUME IInv, NEW q \in Replica, NEW m \in Request, NEW k \in Copy,
           ExecuteReceived(q, m, k)
    PROVE  IInv' /\ StaysInView(q)
<1>1. zs[q] \in ZenoMutState BY DEF IInv, TypeOK
<1>2. PICK z \in ZenoMutState : z = DropOrSender(zs[q], m) /\ Tame(zs[q], z)
  BY <1>1, DropOrSenderTame
<1>3. zs[q].thr[m][k] \in Thread /\ zs[q].thr[m][k].pc = "gotOr"
  BY <1>1 DEF ExecuteReceived, ZenoMutState
<1>4. PICK or \in OrderedRequest : or = zs[q].thr[m][k].or
  BY <1>3 DEF Thread
<1>5. or.d_req = m BY <1>3, <1>4 DEF IInv, GoodServer, ThreadOK
<1>6. Run(q, z, or, m, k) BY <1>2, <1>4 DEF ExecuteReceived
<1> QED BY <1>2, <1>5, <1>6, RunStep DEF ExecuteReceived, IInv, TypeOK

\* The 2f commits of a certificate and its collector make a strong quorum.
LEMMA CertificateBacks ==
    ASSUME NEW E, NEW q \in Replica, NEW or, NEW cert \in CommitCertificate,
           HasQuorum(cert), or \in E[q],
           \A cm \in cert : cm.or = or /\ CommitOK(q, E, cm)
    PROVE  Backed(E, or)
<1> DEFINE J == {cm.j : cm \in cert}
           A == {p \in Replica : or \in E[p]}
<1>1. \A cm \in cert : cm = [or |-> or, j |-> cm.j] /\ cm.j \in Replica
  BY DEF CommitCertificate, Commit
<1>2. J \subseteq A \ {q} BY <1>1 DEF CommitOK
<1>3. IsFiniteSet(A) /\ q \in A BY FS_Subset, ReplicaAssumption
<1>4. IsFiniteSet(J) BY <1>2, <1>3, FS_Subset
<1> DEFINE f == [j \in J |-> [or |-> or, j |-> j]]
<1>5. f \in Surjection(J, cert) BY <1>1 DEF Surjection
<1>6. IsFiniteSet(cert) /\ Cardinality(cert) <= Cardinality(J)
  BY <1>4, <1>5, FS_Surjection
<1> HIDE DEF J, A
<1>7. /\ IsFiniteSet(A \ {q}) /\ Cardinality(A \ {q}) = Cardinality(A) - 1
  BY <1>3, FS_RemoveElement
<1>8. Cardinality(J) <= Cardinality(A \ {q}) BY <1>2, <1>7, FS_Subset
<1>9. /\ Cardinality(cert) \in Nat /\ Cardinality(J) \in Nat
      /\ Cardinality(A) \in Nat
  BY <1>3, <1>4, <1>6, FS_CardinalityType
<1>10. Cardinality(cert) >= 2 * max_failures BY DEF HasQuorum
<1>11. Cardinality(A) > 2 * max_failures
  BY <1>6, <1>7, <1>8, <1>9, <1>10, FailureAssumption
<1> QED BY <1>11 DEF Backed, A

LEMMA StoreCertificateStep ==
    ASSUME IInv, NEW q \in Replica, NEW m \in Request, NEW k \in Copy,
           StoreCertificate(q, m, k)
    PROVE  IInv' /\ StaysInView(q)
<1>1. zs[q] \in ZenoMutState BY DEF IInv, TypeOK
<1> DEFINE th == zs[q].thr[m][k]
<1>2. th \in Thread /\ th.pc = "awaitCommit" /\ HasQuorum(th.cert)
  BY <1>1 DEF StoreCertificate, ZenoMutState
<1>3. th.or \in OrderedRequest /\ th.cert \in CommitCertificate
  BY <1>2 DEF Thread
<1>4. /\ th.or \in Ex[q]
      /\ \A cm \in th.cert : cm.or = th.or /\ CommitOK(q, Ex, cm)
  BY <1>2 DEF IInv, GoodServer, ThreadOK
<1>5. Backed(Ex, th.or) BY <1>2, <1>3, <1>4, CertificateBacks
<1> DEFINE z1 == Certify(zs[q], m, k)
<1>6. zs' = [zs EXCEPT ![q] = z1] BY DEF StoreCertificate
<1>7. /\ z1 \in ZenoMutState
      /\ z1.v = zs[q].v /\ z1.view_state = zs[q].view_state
      /\ z1.view_changes = zs[q].view_changes
      /\ z1.ihatetheprimary_accusations = zs[q].ihatetheprimary_accusations
      /\ z1.h = zs[q].h /\ z1.all_executed_reqs = zs[q].all_executed_reqs
      /\ z1.replies = zs[q].replies
      /\ z1.pending_commits = zs[q].pending_commits
      /\ z1.last_cc = th.cert
      /\ \A m1 \in Request, k1 \in Copy :
            \/ z1.thr[m1][k1] = zs[q].thr[m1][k1]
            \/ z1.thr[m1][k1] = Finished
            \/ Woken(m1, z1.thr[m1][k1])
            \/ /\ m1 = m /\ k1 = k
               /\ z1.thr[m1][k1] = Replying(th.or)
  BY <1>1, <1>2, CertifyEffect
<1> HIDE DEF z1, th
<1>8. GoodServer(q, Ex, zs[q]) BY DEF IInv
<1>9. ASSUME NEW m1 \in Request, NEW k1 \in Copy
      PROVE  ThreadOK(q, Ex, m1, z1.thr[m1][k1])
  <2>1. CASE z1.thr[m1][k1] = zs[q].thr[m1][k1] BY <1>8, <2>1 DEF GoodServer
  <2>2. CASE z1.thr[m1][k1] = Finished \/ Woken(m1, z1.thr[m1][k1])
    BY <2>2, QuietThreads
  <2>3. CASE z1.thr[m1][k1] = Replying(th.or)
    BY <1>5, <2>3, ReplyingOK
  <2> QED BY <1>7, <2>1, <2>2, <2>3
<1>10. CertOK(Ex, th.cert) BY <1>4 DEF CertOK, CommitOK
<1>11. GoodServer(q, Ex, z1)
  BY <1>7, <1>8, <1>9, <1>10 DEF GoodServer, LogOK
<1>12. \A cm \in z1.last_cc : cm.or \in Ex[q] BY <1>4, <1>7
<1> QED BY <1>6, <1>7, <1>11, <1>12, QuietStep DEF StoreCertificate, IInv, TypeOK

LEMMA CacheReplyStep ==
    ASSUME IInv, NEW q \in Replica, NEW m \in Request, NEW k \in Copy,
           CacheReply(q, m, k)
    PROVE  IInv' /\ StaysInView(q)
<1>1. zs[q] \in ZenoMutState /\ m.c \in Client BY DEF IInv, TypeOK, Client
<1>2. /\ zs[q].thr[m][k] \in [pc : {"gotOr", "awaitCommit", "reply", "done"},
                              or : OrderedRequest, cert : CommitCertificate]
      /\ zs[q].thr[m][k].pc = "reply"
  <2>1. zs[q].thr[m][k] \in Thread /\ zs[q].thr[m][k].pc = "reply"
    BY <1>1 DEF CacheReply, ZenoMutState
  <2> QED BY <2>1 DEF Thread
<1>3. PICK or \in OrderedRequest : or = zs[q].thr[m][k].or BY <1>2
<1>4. ThreadOK(q, Ex, m, zs[q].thr[m][k]) BY DEF IInv, GoodServer
<1>5. Backed(Ex, or) BY <1>2, <1>3, <1>4, NoOrAssumption DEF ThreadOK
<1>6. PICK th \in Thread : /\ th = [zs[q].thr[m][k] EXCEPT !.pc = "done"]
                           /\ ThreadOK(q, Ex, m, th)
  <2> DEFINE th == [zs[q].thr[m][k] EXCEPT !.pc = "done"]
  <2>1. /\ th \in [pc : {"gotOr", "awaitCommit", "reply", "done"},
                   or : OrderedRequest, cert : CommitCertificate]
        /\ th.pc = "done" /\ th.or = or /\ th.cert = zs[q].thr[m][k].cert
    BY <1>2, <1>3
  <2> HIDE DEF th
  <2>2. th \in Thread BY <2>1 DEF Thread
  <2>3. ThreadOK(q, Ex, m, th) BY <1>3, <1>4, <1>5, <2>1 DEF ThreadOK
  <2> QED BY <2>2, <2>3 DEF th
<1> DEFINE z1 == [zs[q] EXCEPT !.replies[m.c] = or, !.thr[m][k] = th]
<1>7. zs' = [zs EXCEPT ![q] = z1]
  <2>1. zs' = [zs EXCEPT ![q].replies[m.c] = zs[q].thr[m][k].or,
                         ![q].thr[m][k].pc = "done"]
    BY DEF CacheReply
  <2> QED BY <1>1, <1>3, <1>6, <2>1 DEF IInv, TypeOK, ZenoMutState
<1>8. z1 \in ZenoMutState BY <1>1 DEF ZenoMutState
<1>9. \A m1 \in Request, k1 \in Copy :
         z1.thr[m1][k1] = IF m1 = m /\ k1 = k THEN th ELSE zs[q].thr[m1][k1]
  BY <1>1, OneThread DEF ZenoMutState
<1>10. /\ z1.v = zs[q].v /\ z1.view_state = zs[q].view_state
       /\ z1.view_changes = zs[q].view_changes
       /\ z1.ihatetheprimary_accusations = zs[q].ihatetheprimary_accusations
       /\ z1.h = zs[q].h /\ z1.all_executed_reqs = zs[q].all_executed_reqs
       /\ z1.last_cc = zs[q].last_cc
       /\ z1.pending_commits = zs[q].pending_commits
       /\ \A c \in Client : z1.replies[c] = or \/ z1.replies[c] = zs[q].replies[c]
  BY <1>1 DEF ZenoMutState
<1> HIDE DEF z1
<1>11. GoodServer(q, Ex, z1)
  BY <1>5, <1>6, <1>9, <1>10 DEF IInv, GoodServer, LogOK
<1> QED BY <1>7, <1>8, <1>10, <1>11, QuietStep DEF CacheReply, IInv, TypeOK

LEMMA on_ordered_requestStep ==
    ASSUME IInv, NEW q \in Replica, NEW or \in orMsgs[q],
           on_ordered_request(q, or)
    PROVE  IInv' /\ StaysInView(q)
<1>1. zs[q] \in ZenoMutState /\ or \in OrderedRequest BY DEF IInv, TypeOK
<1>2. PICK z0 \in ZenoMutState :
         z0 = stop_ihatetheprimary_timer(zs[q]) /\ Tame(zs[q], z0)
  BY <1>1, TimerTame
<1>3. PICK z1 \in ZenoMutState :
         /\ z1 = IF FromPrimary(zs[q], or) THEN process_or(z0, or) ELSE zs[q]
         /\ Tame(zs[q], z1)
  <2>1. process_or(z0, or) \in ZenoMutState /\ Tame(z0, process_or(z0, or))
    BY <1>1, process_orTame
  <2>2. Tame(zs[q], process_or(z0, or)) BY <1>2, <2>1, TameTransitive
  <2>3. Tame(zs[q], zs[q]) BY DEF Tame
  <2> QED BY <1>1, <2>1, <2>2, <2>3
<1>4. zs' = [zs EXCEPT ![q] = z1]
  BY <1>2, <1>3, Zenon DEF on_ordered_request
<1>5. orMsgs' \in [Replica -> SUBSET OrderedRequest]
  BY HandledType DEF on_ordered_request, IInv, TypeOK
<1>6. fillHoleMsgs' \in [Replica -> SUBSET FillHole]
  <2> DEFINE primary == get_primary_for_view(zs[q].v)
             fhm == [v |-> zs[q].v, n |-> zs[q].n, or_n |-> or.n, i |-> primary]
  <2>1. fhm \in FillHole
    BY <1>1, PrimaryType DEF FillHole, ZenoMutState, OrderedRequest
  <2>2. fillHoleMsgs' \in {fillHoleMsgs, send_to(fillHoleMsgs, q, primary, fhm)}
    BY DEF on_ordered_request
  <2>3. fillHoleMsgs \in [Replica -> SUBSET FillHole] BY DEF IInv, TypeOK
  <2> HIDE DEF fhm, primary
  <2> QED BY <2>1, <2>2, <2>3, SendType
<1> QED BY <1>3, <1>4, <1>5, <1>6, TameStep DEF on_ordered_request, IInv, TypeOK

LEMMA on_commitStep ==
    ASSUME IInv, NEW q \in Replica, NEW cm \in commitMsgs[q], on_commit(q, cm)
    PROVE  IInv' /\ StaysInView(q)
<1>1. zs[q] \in ZenoMutState /\ cm \in Commit BY DEF IInv, TypeOK
<1>2. CommitOK(q, Ex, cm) BY DEF IInv
<1> DEFINE z1 == AddCommit(zs[q], cm)
<1>3. zs' = [zs EXCEPT ![q] = z1] BY DEF on_commit
<1>4. /\ z1 \in ZenoMutState
      /\ z1.v = zs[q].v /\ z1.view_state = zs[q].view_state
      /\ z1.view_changes = zs[q].view_changes
      /\ z1.ihatetheprimary_accusations = zs[q].ihatetheprimary_accusations
      /\ z1.h = zs[q].h /\ z1.all_executed_reqs = zs[q].all_executed_reqs
      /\ z1.replies = zs[q].replies /\ z1.last_cc = zs[q].last_cc
      /\ z1.pending_commits \subseteq zs[q].pending_commits \cup {cm}
      /\ \A m1 \in Request, k1 \in Copy :
            \/ z1.thr[m1][k1] = zs[q].thr[m1][k1]
            \/ /\ zs[q].thr[m1][k1].or = cm.or
               /\ z1.thr[m1][k1] = [zs[q].thr[m1][k1] EXCEPT !.cert = @ \cup {cm}]
  BY <1>1, AddCommitEffect
<1> HIDE DEF z1
<1>5. GoodServer(q, Ex, zs[q]) BY DEF IInv
<1>6. ASSUME NEW m \in Request, NEW k \in Copy
      PROVE  ThreadOK(q, Ex, m, z1.thr[m][k])
  <2>1. CASE z1.thr[m][k] = zs[q].thr[m][k] BY <1>5, <2>1 DEF GoodServer
  <2>2. CASE /\ zs[q].thr[m][k].or = cm.or
             /\ z1.thr[m][k] = [zs[q].thr[m][k] EXCEPT !.cert = @ \cup {cm}]
    <3>1. PICK th \in Thread : th = zs[q].thr[m][k] BY <1>1 DEF ZenoMutState
    <3>2. PICK th1 : th1 = z1.thr[m][k] OBVIOUS
    <3>3. th1.pc = th.pc /\ th1.or = th.or /\ th1.cert = th.cert \cup {cm}
      BY <2>2, <3>1, <3>2 DEF Thread
    <3>4. ThreadOK(q, Ex, m, th) BY <1>5, <3>1 DEF GoodServer
    <3>5. ThreadOK(q, Ex, m, th1)
      BY <1>2, <2>2, <3>1, <3>3, <3>4 DEF ThreadOK
    <3> QED BY <3>2, <3>5
  <2> QED BY <1>4, <2>1, <2>2
<1>7. GoodServer(q, Ex, z1)
  BY <1>2, <1>4, <1>5, <1>6 DEF GoodServer, LogOK
<1>8. /\ commitMsgs' \in [Replica -> SUBSET Commit]
      /\ \A p \in Replica : commitMsgs'[p] \subseteq commitMsgs[p]
  BY HandledType DEF on_commit, IInv, TypeOK
<1> QED BY <1>3, <1>4, <1>7, <1>8, QuietStep DEF on_commit, IInv, TypeOK

LEMMA on_fillholeStep ==
    ASSUME IInv, NEW q \in Replica, NEW fhm \in fillHoleMsgs[q],
           on_fillhole(q, fhm)
    PROVE  IInv' /\ StaysInView(q)
<1>1. zs[q] \in ZenoMutState BY DEF IInv, TypeOK
<1>2. zs[q].all_executed_reqs \in Seq(OrderedRequest) BY <1>1 DEF ZenoMutState
<1> DEFINE all == zs[q].all_executed_reqs
           hole == {all[n + 1] : n \in {x \in fhm.n + 1 .. fhm.or_n - 1 :
                                            x + 1 \in DOMAIN all}}
<1>3. hole \subseteq OrderedRequest BY <1>2
<1>4. orMsgs' = IF fhm.i \in Live \ {q}
                THEN [orMsgs EXCEPT ![fhm.i] = @ \cup hole] ELSE orMsgs
  BY Zenon DEF on_fillhole
<1> HIDE DEF hole
<1>5. orMsgs' \in [Replica -> SUBSET OrderedRequest]
  BY <1>3, <1>4 DEF IInv, TypeOK
<1>6. fillHoleMsgs' \in [Replica -> SUBSET FillHole]
  BY HandledType DEF on_fillhole, IInv, TypeOK
<1>7. zs' = [zs EXCEPT ![q] = zs[q]] BY DEF on_fillhole, IInv, TypeOK
<1>8. Tame(zs[q], zs[q]) BY DEF Tame
<1> QED BY <1>1, <1>5, <1>6, <1>7, <1>8, TameStep DEF on_fillhole, IInv, TypeOK

LEMMA TimerExpiresStep ==
    ASSUME IInv, NEW q \in Replica, TimerExpires(q)
    PROVE  IInv' /\ StaysInView(q)
<1>1. zs[q] \in ZenoMutState BY DEF IInv, TypeOK
<1>2. zs[q].timer \in View BY <1>1 DEF TimerExpires, ZenoMutState
<1> DEFINE F  == zs[q].firing \cup {zs[q].timer}
           z1 == [zs[q] EXCEPT !.timer = -1, !.firing = F]
<1>3. zs' = [zs EXCEPT ![q] = z1]
  BY <1>1 DEF TimerExpires, IInv, TypeOK, ZenoMutState
<1>4. F \in SUBSET View BY <1>1, <1>2 DEF ZenoMutState
<1> HIDE DEF F
<1>5. z1 \in ZenoMutState /\ Tame(zs[q], z1) BY <1>1, <1>4 DEF ZenoMutState, Tame
<1> HIDE DEF z1
<1> QED BY <1>3, <1>5, TameStep DEF TimerExpires, IInv, TypeOK

LEMMA AccusePrimaryStep ==
    ASSUME IInv, NEW q \in Replica, NEW view \in zs[q].firing,
           AccusePrimary(q, view)
    PROVE  IInv' /\ Accusing(q) /\ (Calm => Calm')
<1>1. zs[q] \in ZenoMutState BY DEF IInv, TypeOK
<1>2. view \in View BY <1>1 DEF ZenoMutState
<1> DEFINE F  == zs[q].firing \ {view}
           A  == IF zs[q].v = view THEN zs[q].ihatetheprimary_accusations \cup {q}
                 ELSE zs[q].ihatetheprimary_accusations
           z1 == [zs[q] EXCEPT !.firing = F, !.ihatetheprimary_accusations = A]
<1>3. zs' = [zs EXCEPT ![q] = z1]
  BY <1>1 DEF AccusePrimary, IInv, TypeOK, ZenoMutState
<1>4. /\ F \in SUBSET View /\ A \in SUBSET Replica
      /\ zs[q].ihatetheprimary_accusations \subseteq A
      /\ A \subseteq zs[q].ihatetheprimary_accusations \cup {q}
      /\ zs[q].v = view => q \in A
  BY <1>1 DEF ZenoMutState
<1> HIDE DEF F, A
<1>5. /\ z1 \in ZenoMutState
      /\ z1.v = zs[q].v /\ z1.view_state = zs[q].view_state
      /\ z1.view_changes = zs[q].view_changes
      /\ z1.ihatetheprimary_accusations = A
      /\ z1.h = zs[q].h /\ z1.all_executed_reqs = zs[q].all_executed_reqs
      /\ z1.replies = zs[q].replies /\ z1.last_cc = zs[q].last_cc
      /\ z1.pending_commits = zs[q].pending_commits /\ z1.thr = zs[q].thr
  BY <1>1, <1>4 DEF ZenoMutState
<1> HIDE DEF z1
<1>6. GoodServer(q, Ex, z1) BY <1>5 DEF IInv, GoodServer, LogOK
<1>7. /\ ihtpMsgs' \in [Replica -> SUBSET IHateThePrimary]
      /\ \A p \in Replica : \A msg \in ihtpMsgs'[p] :
            msg \in ihtpMsgs[p] \/ (msg.i = q /\ zs[q].v = view)
  <2>1. PICK msg \in IHateThePrimary : msg = [v |-> view, i |-> q]
    BY <1>2 DEF IHateThePrimary
  <2>2. ihtpMsgs \in [Replica -> SUBSET IHateThePrimary] BY DEF IInv, TypeOK
  <2>3. CASE zs[q].v = view
    <3>1. ihtpMsgs' = send_to_all(ihtpMsgs, q, msg)
      BY <2>1, <2>3 DEF AccusePrimary
    <3>2. ihtpMsgs' \in [Replica -> SUBSET IHateThePrimary]
      BY <2>2, <3>1, SendType
    <3>3. \A p \in Replica : ihtpMsgs'[p] \subseteq ihtpMsgs[p] \cup {msg}
      BY <2>2, <3>1 DEF send_to_all
    <3> QED BY <2>1, <2>3, <3>2, <3>3
  <2>4. CASE zs[q].v # view
    <3>1. ihtpMsgs' = ihtpMsgs BY <2>4 DEF AccusePrimary
    <3> QED BY <2>2, <3>1
  <2> QED BY <2>3, <2>4
<1>8. /\ viewChangeMsgs' = viewChangeMsgs /\ newViewMsgs' = newViewMsgs
      /\ orMsgs' = orMsgs /\ commitMsgs' = commitMsgs
      /\ fillHoleMsgs' = fillHoleMsgs
  BY DEF AccusePrimary
<1>9. /\ IInv' /\ Ex' = Ex
      /\ \A p \in Replica : zs'[p] = IF p = q THEN z1 ELSE zs[p]
  BY <1>3, <1>5, <1>6, <1>7, <1>8, IdleStep DEF IInv, TypeOK
<1>10. Accusing(q)
  BY <1>4, <1>5, <1>7, <1>9 DEF Accusing, is_view_active
<1>11. Calm => Calm' BY <1>5, <1>8, <1>9 DEF Calm, FirstViews
<1> QED BY <1>9, <1>10, <1>11

LEMMA on_ihatetheprimaryStep ==
    ASSUME IInv, NEW q \in Replica, NEW msg \in ihtpMsgs[q],
           on_ihatetheprimary(q, msg)
    PROVE  IInv' /\ Accusing(q) /\ (Calm => Calm')
<1>1. zs[q] \in ZenoMutState /\ msg \in IHateThePrimary BY DEF IInv, TypeOK
<1> DEFINE A  == zs[q].ihatetheprimary_accusations \cup {msg.i}
           z1 == IF msg.v = zs[q].v
                 THEN [zs[q] EXCEPT !.ihatetheprimary_accusations = A] ELSE zs[q]
           leaves == /\ msg.v = zs[q].v
                     /\ is_view_active(zs[q])
                     /\ EnoughAccusations(A)
           z2 == [z1 EXCEPT !.view_state = "ViewChanging", !.v = @ + 1,
                            !.poisoned = ~HasSuffix(zs[q])]
           vc == ViewChangeOf(q, zs[q], zs[q].v + 1)
<1>2. A \in SUBSET Replica BY <1>1 DEF ZenoMutState, IHateThePrimary
<1>3. /\ zs' = [zs EXCEPT ![q] = IF leaves THEN z2 ELSE z1]
      /\ viewChangeMsgs' = IF leaves /\ HasSuffix(zs[q])
                           THEN send_to_all(viewChangeMsgs, q, vc)
                           ELSE viewChangeMsgs
  BY DEF on_ihatetheprimary
<1> HIDE DEF A
<1>4. /\ z1 \in ZenoMutState
      /\ z1.v = zs[q].v /\ z1.view_state = zs[q].view_state
      /\ z1.view_changes = zs[q].view_changes
      /\ z1.ihatetheprimary_accusations \in {A, zs[q].ihatetheprimary_accusations}
      /\ msg.v = zs[q].v => z1.ihatetheprimary_accusations = A
      /\ z1.h = zs[q].h /\ z1.all_executed_reqs = zs[q].all_executed_reqs
      /\ z1.replies = zs[q].replies /\ z1.last_cc = zs[q].last_cc
      /\ z1.pending_commits = zs[q].pending_commits /\ z1.thr = zs[q].thr
  BY <1>1, <1>2 DEF ZenoMutState
<1> HIDE DEF z1
<1>5. PICK b \in BOOLEAN, view \in View : b = ~HasSuffix(zs[q]) /\ view = z1.v + 1
  <2>1. (~HasSuffix(zs[q])) \in BOOLEAN OBVIOUS
  <2>2. z1.v + 1 \in View BY <1>4 DEF ZenoMutState, View
  <2> HIDE DEF leaves
  <2> QED BY <2>1, <2>2
<1> DEFINE z3 == [z1 EXCEPT !.view_state = "ViewChanging", !.v = view, !.poisoned = b]
<1>6. z2 = z3 BY <1>5, Zenon
<1>7. /\ z3 \in ZenoMutState
      /\ z3.v = view /\ z3.view_state = "ViewChanging"
      /\ z3.view_changes = z1.view_changes
      /\ z3.ihatetheprimary_accusations = z1.ihatetheprimary_accusations
      /\ z3.h = z1.h /\ z3.all_executed_reqs = z1.all_executed_reqs
      /\ z3.replies = z1.replies /\ z3.last_cc = z1.last_cc
      /\ z3.pending_commits = z1.pending_commits /\ z3.thr = z1.thr
  BY <1>4 DEF ZenoMutState
<1> HIDE DEF z3, z2
<1>8. PICK z4 \in {z1, z3} : z4 = IF leaves THEN z3 ELSE z1 OBVIOUS
<1>9. zs' = [zs EXCEPT ![q] = z4] BY <1>3, <1>6, <1>8
<1>10. /\ z4 \in ZenoMutState
       /\ z4.view_changes = zs[q].view_changes
       /\ z4.ihatetheprimary_accusations = z1.ihatetheprimary_accusations
       /\ z4.h = zs[q].h /\ z4.all_executed_reqs = zs[q].all_executed_reqs
       /\ z4.replies = zs[q].replies /\ z4.last_cc = zs[q].last_cc
       /\ z4.pending_commits = zs[q].pending_commits /\ z4.thr = zs[q].thr
  BY <1>4, <1>7, <1>8
<1>11. GoodServer(q, Ex, zs[q]) BY DEF IInv
<1>12. GoodServer(q, Ex, z4) BY <1>10, <1>11 DEF GoodServer, LogOK
<1>13. /\ ihtpMsgs' \in [Replica -> SUBSET IHateThePrimary]
       /\ \A p \in Replica : ihtpMsgs'[p] \subseteq ihtpMsgs[p]
  BY HandledType DEF on_ihatetheprimary, IInv, TypeOK
<1>14. /\ viewChangeMsgs' \in [Replica -> SUBSET ViewChange]
       /\ \A p \in Replica :
             \/ viewChangeMsgs'[p] = viewChangeMsgs[p]
             \/ leaves /\ viewChangeMsgs'[p] = viewChangeMsgs[p] \cup {vc}
       /\ vc.cc = zs[q].last_cc /\ vc.v = zs[q].v + 1
  <2>1. viewChangeMsgs \in [Replica -> SUBSET ViewChange] BY DEF IInv, TypeOK
  <2>2. vc.cc = zs[q].last_cc /\ vc.v = zs[q].v + 1 BY DEF ViewChangeOf
  <2>3. CASE leaves /\ HasSuffix(zs[q])
    <3>1. vc \in ViewChange
      <4>1. zs[q].v + 1 \in View BY <1>1 DEF ZenoMutState, View
      <4> QED BY <1>1, <2>3, <4>1, ViewChangeOfType
    <3>2. viewChangeMsgs' = send_to_all(viewChangeMsgs, q, vc) BY <1>3, <2>3
    <3> HIDE DEF vc, leaves
    <3>3. viewChangeMsgs' \in [Replica -> SUBSET ViewChange]
      BY <2>1, <3>1, <3>2, SendType
    <3>4. \A p \in Replica : viewChangeMsgs'[p] \in
             {viewChangeMsgs[p], viewChangeMsgs[p] \cup {vc}}
      BY <2>1, <3>2 DEF send_to_all
    <3> QED BY <2>2, <2>3, <3>3, <3>4
  <2>4. CASE ~(leaves /\ HasSuffix(zs[q]))
    <3>1. viewChangeMsgs' = viewChangeMsgs BY <1>3, <2>4
    <3> HIDE DEF vc, leaves
    <3> QED BY <2>1, <2>2, <3>1
  <2> HIDE DEF vc, leaves
  <2> QED BY <2>3, <2>4
<1> HIDE DEF vc
<1>15. ViewMsgsOK(Ex, viewChangeMsgs', newViewMsgs')
  <2>1. CertOK(Ex, vc.cc) BY <1>11, <1>14 DEF GoodServer
  <2>2. newViewMsgs' = newViewMsgs BY DEF on_ihatetheprimary
  <2>3. ASSUME NEW p \in Replica
        PROVE  /\ IsFiniteSet(viewChangeMsgs'[p])
               /\ \A x \in viewChangeMsgs'[p] : CertOK(Ex, x.cc)
    <3>1. /\ IsFiniteSet(viewChangeMsgs[p])
          /\ \A x \in viewChangeMsgs[p] : CertOK(Ex, x.cc)
      BY DEF IInv, ViewMsgsOK
    <3>2. IsFiniteSet(viewChangeMsgs[p] \cup {vc}) BY <3>1, FS_AddElement
    <3>3. viewChangeMsgs'[p] \in {viewChangeMsgs[p], viewChangeMsgs[p] \cup {vc}}
      <4> HIDE DEF leaves
      <4> QED BY <1>14
    <3>4. CASE viewChangeMsgs'[p] = viewChangeMsgs[p] BY <3>1, <3>4
    <3>5. CASE viewChangeMsgs'[p] = viewChangeMsgs[p] \cup {vc}
      BY <2>1, <3>1, <3>2, <3>5
    <3> HIDE DEF leaves
    <3> QED BY <3>3, <3>4, <3>5
  <2> HIDE DEF leaves
  <2> QED BY <2>2, <2>3 DEF IInv, ViewMsgsOK
<1>16. /\ IInv' /\ Ex' = Ex
       /\ \A p \in Replica : zs'[p] = IF p = q THEN z4 ELSE zs[p]
  <2> HIDE DEF leaves
  <2> QED BY <1>9, <1>10, <1>12, <1>13, <1>14, <1>15, IdleStep
          DEF on_ihatetheprimary, IInv, TypeOK
<1>17. Accusing(q)
  <2>1. \/ z4.view_state = zs[q].view_state
        \/ EnoughAccusations(A) /\ msg.v = zs[q].v
    <3>1. CASE leaves BY <3>1
    <3>2. CASE ~leaves
      <4>1. z4 = z1 BY <1>8, <3>2
      <4> HIDE DEF leaves
      <4> QED BY <1>4, <4>1
    <3> QED BY <3>1, <3>2
  <2>2. \/ is_view_active(zs'[q]) <=> is_view_active(zs[q])
        \/ EnoughAccusations(zs'[q].ihatetheprimary_accusations)
    BY <1>4, <1>10, <1>16, <2>1 DEF is_view_active
  <2>3. z4.ihatetheprimary_accusations \in
           {zs[q].ihatetheprimary_accusations,
            zs[q].ihatetheprimary_accusations \cup {msg.i}}
    BY <1>4, <1>10 DEF A
  <2> HIDE DEF leaves
  <2> QED BY <1>13, <1>16, <2>2, <2>3 DEF Accusing
<1>18. ASSUME Calm PROVE Calm'
  <2>1. FirstViews(zs[q]) BY <1>18 DEF Calm
  <2>2. FirstViews(z4)
    <3>1. CASE leaves
      <4>1. zs[q].v = 0 BY <2>1, <3>1 DEF FirstViews, is_view_active
      <4>2. z4.v = 1 /\ z4.view_state = "ViewChanging"
        BY <1>4, <1>5, <1>7, <1>8, <3>1, <4>1
      <4> QED BY <4>2 DEF FirstViews
    <3>2. CASE ~leaves
      <4>1. z4 = z1 BY <1>8, <3>2
      <4> QED BY <1>4, <2>1, <4>1 DEF FirstViews
    <3> QED BY <3>1, <3>2
  <2>3. ASSUME NEW p \in Replica, NEW x \in viewChangeMsgs'[p] PROVE x.v >= 1
    <3>1. CASE x \in viewChangeMsgs[p] BY <1>18, <3>1 DEF Calm
    <3>2. CASE x \notin viewChangeMsgs[p]
      <4>1. x = vc BY <1>14, <3>2
      <4>2. x.v = zs[q].v + 1 BY <1>14, <4>1
      <4> QED BY <1>1, <4>2 DEF ZenoMutState, View
    <3> QED BY <3>1, <3>2
  <2>4. newViewMsgs' = newViewMsgs BY DEF on_ihatetheprimary
  <2> HIDE DEF leaves
  <2> QED BY <1>10, <1>16, <1>18, <2>2, <2>3, <2>4 DEF Calm
<1> QED BY <1>16, <1>17, <1>18

\* Taking over what a NewView says of the certificates in its view changes.
LEMMA apply_new_viewGood ==
    ASSUME NEW q \in Replica, NEW V \in SUBSET ViewChange,
           \A vc \in V : CertOK(Ex, vc.cc),
           NEW z \in ZenoMutState, GoodServer(q, Ex, z),
           NEW nvm \in NewView, nvm.p \in Seq(V), NEW z1, z1 = apply_new_view(z, nvm)
    PROVE  /\ z1 \in ZenoMutState /\ z1.view_state = z.view_state
           /\ z1.ihatetheprimary_accusations = z.ihatetheprimary_accusations
           /\ z1.all_executed_reqs = z.all_executed_reqs
           /\ GoodServer(q, Ex, z1)
<1>1. PICK S \in SUBSET OrderedRequest : S = OrderedRequest OBVIOUS
<1>2. \A vc \in V : vc.o \in Seq(S) BY <1>1 DEF ViewChange
<1>3. nvm.v \in View BY DEF NewView
<1>4. z1 \in ZenoMutState /\ Applied(V, z, z1)
  BY <1>2, <1>3, apply_new_viewEffect
<1>5. GoodServer(q, Ex, z1) BY <1>4, GoodApplied
<1> QED BY <1>4, <1>5 DEF Applied

\* What a step that changes neither accusations nor the view's state shows.
LEMMA ViewStep ==
    ASSUME NEW q \in Replica, NEW z1,
           \A p \in Replica : zs'[p] = IF p = q THEN z1 ELSE zs[p],
           z1.view_state = zs[q].view_state,
           z1.ihatetheprimary_accusations = zs[q].ihatetheprimary_accusations,
           ihtpMsgs' = ihtpMsgs
    PROVE  Accusing(q)
BY DEF Accusing, is_view_active

\* Without an announced view no ViewChange is for a view that is active.
LEMMA on_viewchangeStep ==
    ASSUME IInv, NEW q \in Replica, NEW msg \in viewChangeMsgs[q],
           on_viewchange(q, msg)
    PROVE  IInv' /\ Accusing(q) /\ (Calm => Calm')
<1>1. PICK z \in ZenoMutState : z = zs[q] BY DEF IInv, TypeOK
<1>2. msg \in ViewChange BY DEF IInv, TypeOK
<1>3. GoodServer(q, Ex, z) BY <1>1 DEF IInv
<1>4. PICK V : V = {vc \in z.view_changes : vc.i # msg.i} \cup {msg} OBVIOUS
<1>5. /\ V \in SUBSET ViewChange /\ IsFiniteSet(V)
      /\ \A vc \in V : CertOK(Ex, vc.cc)
  <2> DEFINE others == {vc \in z.view_changes : vc.i # msg.i}
  <2>1. IsFiniteSet(others) BY <1>3, FS_Subset DEF GoodServer
  <2>2. others \subseteq ViewChange BY DEF ZenoMutState
  <2>3. \A vc \in others : CertOK(Ex, vc.cc) BY <1>3 DEF GoodServer
  <2>4. CertOK(Ex, msg.cc) BY DEF IInv, ViewMsgsOK
  <2> HIDE DEF others
  <2>5. V = others \cup {msg} BY <1>4 DEF others
  <2> QED BY <1>2, <2>1, <2>2, <2>3, <2>4, <2>5, FS_AddElement
<1>6. PICK z1 : z1 = IF msg.v = z.v THEN [z EXCEPT !.view_changes = V] ELSE z
  OBVIOUS
<1>7. /\ z1 \in ZenoMutState /\ z1.v = z.v /\ z1.view_state = z.view_state
      /\ z1.view_changes \in {V, z.view_changes}
      /\ z1.ihatetheprimary_accusations = z.ihatetheprimary_accusations
      /\ z1.h = z.h /\ z1.all_executed_reqs = z.all_executed_reqs
      /\ z1.replies = z.replies /\ z1.last_cc = z.last_cc
      /\ z1.pending_commits = z.pending_commits /\ z1.thr = z.thr
  BY <1>5, <1>6 DEF ZenoMutState
<1>8. GoodServer(q, Ex, z1) BY <1>3, <1>5, <1>7 DEF GoodServer, LogOK
<1> DEFINE announces == /\ msg.v = z.v
                        /\ is_view_active(z)
                        /\ Cardinality(V) > 2 * max_failures
                        /\ is_primary(q)
           nvm(p) == [v |-> z.v, p |-> p, i |-> q]
<1>9. IF announces
      THEN \E p \in SetToSeqs(V) :
              /\ zs' = [zs EXCEPT ![q] = apply_new_view(z1, nvm(p))]
              /\ newViewMsgs' = send_to_all(newViewMsgs, q, nvm(p))
      ELSE zs' = [zs EXCEPT ![q] = z1] /\ newViewMsgs' = newViewMsgs
  BY <1>1, <1>4, <1>6, Zenon DEF on_viewchange
<1>10. /\ orMsgs' = orMsgs /\ commitMsgs' = commitMsgs
       /\ fillHoleMsgs' = fillHoleMsgs /\ ihtpMsgs' = ihtpMsgs
       /\ viewChangeMsgs' \in [Replica -> SUBSET ViewChange]
       /\ \A p \in Replica : viewChangeMsgs'[p] \subseteq viewChangeMsgs[p]
  BY HandledType DEF on_viewchange, IInv, TypeOK
<1>11. ASSUME NEW p \in Replica
       PROVE  /\ IsFiniteSet(viewChangeMsgs'[p])
              /\ \A vc \in viewChangeMsgs'[p] : CertOK(Ex, vc.cc)
  BY <1>10, FS_Subset DEF IInv, ViewMsgsOK
<1>12. CASE ~announces
  <2>1. zs' = [zs EXCEPT ![q] = z1] /\ newViewMsgs' = newViewMsgs BY <1>9, <1>12
  <2> HIDE DEF announces
  <2>2. ViewMsgsOK(Ex, viewChangeMsgs', newViewMsgs')
    BY <1>11, <2>1 DEF IInv, ViewMsgsOK
  <2>3. /\ IInv' /\ Ex' = Ex
        /\ \A p \in Replica : zs'[p] = IF p = q THEN z1 ELSE zs[p]
    BY <1>1, <1>7, <1>8, <1>10, <2>1, <2>2, IdleStep DEF IInv, TypeOK
  <2>4. Accusing(q) BY <1>1, <1>7, <1>10, <2>3, ViewStep
  <2>5. Calm => Calm' BY <1>1, <1>7, <1>10, <2>1, <2>3 DEF Calm, FirstViews
  <2> QED BY <2>3, <2>4, <2>5
<1>13. CASE announces
  <2>1. PICK p \in SetToSeqs(V) :
           /\ zs' = [zs EXCEPT ![q] = apply_new_view(z1, nvm(p))]
           /\ newViewMsgs' = send_to_all(newViewMsgs, q, nvm(p))
    BY <1>9, <1>13
  <2>2. p \in Seq(V) BY <1>5, SetToSeqsType
  <2>3. PICK m \in NewView : m = nvm(p) /\ m.p = p /\ m.p \in Seq(V)
    <3>1. p \in Seq(ViewChange) /\ z.v \in View BY <1>5, <2>2 DEF ZenoMutState
    <3>2. nvm(p) \in NewView BY <3>1 DEF NewView
    <3>3. nvm(p).p = p OBVIOUS
    <3> HIDE DEF nvm, announces
    <3> QED BY <2>2, <3>2, <3>3
  <2>4. PICK z2 : z2 = apply_new_view(z1, m) OBVIOUS
  <2>5. zs' = [zs EXCEPT ![q] = z2] /\ newViewMsgs' = send_to_all(newViewMsgs, q, m)
    BY <2>1, <2>3, <2>4
  <2> HIDE DEF nvm
  <2>6. ~Calm
    BY <1>1, <1>13 DEF Calm, FirstViews, is_view_active, ZenoMutState
  <2> HIDE DEF announces
  <2>7. /\ z2 \in ZenoMutState /\ z2.view_state = z.view_state
        /\ z2.ihatetheprimary_accusations = z.ihatetheprimary_accusations
        /\ z2.all_executed_reqs = z.all_executed_reqs
        /\ GoodServer(q, Ex, z2)
    BY <1>5, <1>7, <1>8, <2>3, <2>4, apply_new_viewGood
  <2>8. newViewMsgs \in [Replica -> SUBSET NewView] BY DEF IInv, TypeOK
  <2>9. newViewMsgs' \in [Replica -> SUBSET NewView] BY <2>5, <2>8, SendType
  <2>10. ViewMsgsOK(Ex, viewChangeMsgs', newViewMsgs')
    <3>1. \A r \in Replica : newViewMsgs'[r] \subseteq newViewMsgs[r] \cup {m}
      BY <2>5, <2>8 DEF send_to_all
    <3>2. \A i \in DOMAIN m.p : CertOK(Ex, m.p[i].cc)
      <4>1. \A i \in DOMAIN m.p : m.p[i] \in V BY <2>3
      <4> QED BY <1>5, <4>1
    <3> QED BY <1>11, <3>1, <3>2 DEF IInv, ViewMsgsOK
  <2>11. /\ IInv' /\ Ex' = Ex
         /\ \A r \in Replica : zs'[r] = IF r = q THEN z2 ELSE zs[r]
    BY <1>1, <1>10, <2>5, <2>7, <2>9, <2>10, IdleStep DEF IInv, TypeOK
  <2>12. Accusing(q) BY <1>1, <1>10, <2>7, <2>11, ViewStep
  <2> QED BY <2>6, <2>11, <2>12
<1> QED BY <1>12, <1>13

\* A NewView that reached q.
LEMMA on_newviewStep ==
    ASSUME IInv, NEW q \in Replica, NEW msg \in newViewMsgs[q], on_newview(q, msg)
    PROVE  IInv' /\ Accusing(q) /\ (Calm => Calm')
<1>1. PICK z \in ZenoMutState : z = zs[q] BY DEF IInv, TypeOK
<1>2. msg \in NewView BY DEF IInv, TypeOK
<1>3. GoodServer(q, Ex, z) BY <1>1 DEF IInv
<1>4. PICK V : V = {msg.p[i] : i \in DOMAIN msg.p} OBVIOUS
<1>5. V \in SUBSET ViewChange /\ msg.p \in Seq(V) /\ \A vc \in V : CertOK(Ex, vc.cc)
  <2>1. PICK p \in Seq(ViewChange) : p = msg.p BY <1>2 DEF NewView
  <2>2. /\ Len(p) \in Nat /\ DOMAIN p = 1 .. Len(p)
        /\ p = [i \in 1 .. Len(p) |-> p[i]]
        /\ \A i \in 1 .. Len(p) : p[i] \in ViewChange
    BY <2>1
  <2>3. p \in [1 .. Len(p) -> V] BY <1>4, <2>1, <2>2
  <2>4. p \in Seq(V) BY <2>2, <2>3
  <2>5. \A vc \in V : CertOK(Ex, vc.cc) BY <1>4 DEF IInv, ViewMsgsOK
  <2> QED BY <1>4, <2>1, <2>2, <2>4, <2>5
<1>6. PICK z1 : z1 = apply_new_view(z, msg) OBVIOUS
<1>7. /\ z1 \in ZenoMutState /\ z1.view_state = z.view_state
      /\ z1.ihatetheprimary_accusations = z.ihatetheprimary_accusations
      /\ z1.all_executed_reqs = z.all_executed_reqs
      /\ GoodServer(q, Ex, z1)
  BY <1>2, <1>3, <1>5, <1>6, apply_new_viewGood
<1>8. PICK z2 \in {z, z1} : zs' = [zs EXCEPT ![q] = z2]
  BY <1>1, <1>6, Zenon DEF on_newview
<1>9. /\ orMsgs' = orMsgs /\ commitMsgs' = commitMsgs
      /\ fillHoleMsgs' = fillHoleMsgs /\ ihtpMsgs' = ihtpMsgs
      /\ viewChangeMsgs' = viewChangeMsgs
      /\ newViewMsgs' \in [Replica -> SUBSET NewView]
      /\ \A p \in Replica : newViewMsgs'[p] \subseteq newViewMsgs[p]
  BY HandledType DEF on_newview, IInv, TypeOK
<1>10. ViewMsgsOK(Ex, viewChangeMsgs', newViewMsgs')
  BY <1>9 DEF IInv, ViewMsgsOK
<1>11. z2 \in ZenoMutState /\ GoodServer(q, Ex, z2) BY <1>3, <1>7
<1>12. /\ z2.view_state = zs[q].view_state
       /\ z2.ihatetheprimary_accusations = zs[q].ihatetheprimary_accusations
       /\ z2.all_executed_reqs = zs[q].all_executed_reqs
  BY <1>1, <1>7
<1>13. /\ IInv' /\ Ex' = Ex
       /\ \A p \in Replica : zs'[p] = IF p = q THEN z2 ELSE zs[p]
  BY <1>8, <1>9, <1>10, <1>11, <1>12, IdleStep DEF IInv, TypeOK
<1>14. Accusing(q) BY <1>9, <1>12, <1>13, ViewStep
<1>15. ~Calm BY DEF Calm
<1> QED BY <1>13, <1>14, <1>15

LEMMA haltStep ==
    ASSUME IInv, NEW q \in Replica, halt(q)
    PROVE  IInv' /\ StaysInView(q)
<1>1. zs[q] \in ZenoMutState BY DEF IInv, TypeOK
<1>2. PICK z1 \in ZenoMutState : z1 = Halted(zs[q]) /\ Tame(zs[q], z1)
  BY <1>1, HaltedTame
<1>3. zs' = [zs EXCEPT ![q] = z1] BY <1>2 DEF halt
<1> QED BY <1>2, <1>3, TameStep DEF halt, IInv, TypeOK

\* Whatever a server does keeps the invariants.
LEMMA StepKeeps ==
    ASSUME IInv, NEW q \in Replica, Step(q)
    PROVE  IInv' /\ Accusing(q) /\ (Calm => Calm')
<1>1. ASSUME IInv' /\ StaysInView(q)
      PROVE  IInv' /\ Accusing(q) /\ (Calm => Calm')
  BY <1>1, StaysCalm
<1>2. ASSUME NEW m \in Request, NEW k \in Copy, on_request_message(q, m, k)
      PROVE  IInv' /\ StaysInView(q)
  BY <1>2, AnswerFromCacheStep, ExecuteQueuedStep, OrderRequestStep,
     AwaitOrStep DEF on_request_message
<1>3. ASSUME NEW m \in Request, NEW k \in Copy, ThreadStep(q, m, k)
      PROVE  IInv' /\ StaysInView(q)
  BY <1>3, ExecuteReceivedStep, StoreCertificateStep, CacheReplyStep
     DEF ThreadStep
<1> QED BY <1>1, <1>2, <1>3, on_ordered_requestStep, on_commitStep,
           on_fillholeStep, TimerExpiresStep, AccusePrimaryStep,
           on_ihatetheprimaryStep, on_viewchangeStep, on_newviewStep, haltStep
        DEF Step

LEMMA StutterKeeps ==
    ASSUME UNCHANGED vars
    PROVE  (IInv => IInv') /\ (Calm => Calm')
<1>1. Ex' = Ex BY DEF vars, Ex
<1> QED BY <1>1 DEF vars, IInv, Calm, TypeOK

\* In every state the servers reach, through any handler in any order and
\* with any message lost, the certificates are sound and no view was announced.
THEOREM Invariance == Spec => [](IInv /\ Calm)
<1>1. Init => IInv /\ Calm
  BY InitIInv DEF Init, InitialState, Empty, Calm, FirstViews
<1>2. IInv /\ Calm /\ [Next]_vars => (IInv /\ Calm)'
  BY StepKeeps, StutterKeeps, DeploymentAssumption DEF Next
<1> QED BY <1>1, <1>2, PTL DEF Spec

-----------------------------------------------------------------------------
(* What the invariant implies                                              *)

\* The servers' states and messages keep their types; in particular n + 1 is
\* never negative when on_request_message casts it to the u64 of an OR.
THEOREM TypeCorrect == Spec => []TypeOK
<1>1. IInv => TypeOK BY DEF IInv
<1> QED BY <1>1, Invariance, PTL

\* on_ihatetheprimary is the only code that sets view_state and it only ever
\* sets ViewChanging: no server leaves a second view, and on_viewchange never
\* reaches the construction of a NewView.
THEOREM OneViewChange == Spec => []AtMostOneViewChange
<1>1. Calm => AtMostOneViewChange BY DEF Calm, FirstViews, AtMostOneViewChange
<1> QED BY <1>1, Invariance, PTL

LEMMA CertificatesOfExecuted == IInv => CertificatesRestOnExecution
<1> SUFFICES ASSUME IInv, NEW q \in Replica,
                    NEW cm \in UNION ({commitMsgs[q], zs[q].pending_commits,
                                       zs[q].last_cc} \cup
                        {zs[q].thr[m][k].cert : m \in Request, k \in Copy})
             PROVE  Executed(cm.j, cm.or)
  BY DEF CertificatesRestOnExecution
<1>1. zs[q] \in ZenoMutState BY DEF IInv, TypeOK
<1>2. GoodServer(q, Ex, zs[q]) BY DEF IInv
<1>3. ASSUME cm.j \in Replica, CommitOK(q, Ex, cm)
      PROVE  Executed(cm.j, cm.or)
  BY <1>3 DEF CommitOK, Ex, Executed
<1>4. CASE cm \in commitMsgs[q]
  <2>1. cm.j \in Replica BY <1>4 DEF IInv, TypeOK, Commit
  <2>2. CommitOK(q, Ex, cm) BY <1>4 DEF IInv
  <2> QED BY <1>3, <2>1, <2>2
<1>5. CASE cm \in zs[q].pending_commits \cup zs[q].last_cc
  <2>1. cm \in Commit BY <1>1, <1>5 DEF ZenoMutState, CommitCertificate
  <2>2. cm.or \in Ex[cm.j] BY <1>2, <1>5 DEF GoodServer, CommitOK, CertOK
  <2> QED BY <2>1, <2>2 DEF Commit, Ex, Executed
<1>6. ASSUME NEW m \in Request, NEW k \in Copy, cm \in zs[q].thr[m][k].cert
      PROVE  Executed(cm.j, cm.or)
  <2>1. zs[q].thr[m][k] \in Thread BY <1>1 DEF ZenoMutState
  <2>2. cm.j \in Replica BY <1>6, <2>1 DEF Thread, CommitCertificate, Commit
  <2>3. CommitOK(q, Ex, cm) BY <1>2, <1>6 DEF GoodServer, ThreadOK
  <2> QED BY <1>3, <2>2, <2>3
<1> QED BY <1>4, <1>5, <1>6

\* Every commit in flight, in pending_commits, collected by a thread of
\* check_and_execute_request or in last_cc is by a server that executed it.
THEOREM CertificatesSound == Spec => []CertificatesRestOnExecution
<1>1. IInv => CertificatesRestOnExecution BY CertificatesOfExecuted
<1> QED BY <1>1, Invariance, PTL

\* The servers that executed what a strong answer says are a strong quorum.
LEMMA StrongAnswersBacked ==
    ASSUME IInv, NEW or \in StrongAnswers
    PROVE  Cardinality({q \in Replica : Executed(q, or)}) > 2 * max_failures
<1>1. PICK p \in Replica, m \in Request, k \in Copy :
         AnswersStrong(zs[p].thr[m][k]) /\ or = zs[p].thr[m][k].or
  BY DEF StrongAnswers, Threads
<1>2. Backed(Ex, or) BY <1>1 DEF IInv, GoodServer, ThreadOK, AnswersStrong
<1>3. {q \in Replica : Executed(q, or)} = {q \in Replica : or \in Ex[q]}
  BY DEF Executed, Ex
<1> QED BY <1>1, <1>2, <1>3 DEF Backed, AnswersStrong

\* check_and_execute_request and the reply cache answer a strong request only
\* with an ordered request that 2f + 1 servers have executed.
THEOREM StrongQuorum == Spec => []StrongReplyQuorum
<1>1. IInv => StrongReplyQuorum BY StrongAnswersBacked DEF StrongReplyQuorum
<1> QED BY <1>1, Invariance, PTL

LEMMA QuorumsMeet ==
    ASSUME Cardinality(Replica) <= 4 * max_failures + 1,
           NEW A \in SUBSET Replica, NEW B \in SUBSET Replica,
           Cardinality(A) > 2 * max_failures, Cardinality(B) > 2 * max_failures
    PROVE  \E q \in Replica : q \in A /\ q \in B
<1>1. IsFiniteSet(Replica) BY ReplicaAssumption
<1>2. IsFiniteSet(A) /\ IsFiniteSet(B) BY <1>1, FS_Subset
<1>3. /\ Cardinality(A) \in Nat /\ Cardinality(B) \in Nat
      /\ Cardinality(Replica) \in Nat
  BY <1>1, <1>2, FS_CardinalityType
<1>4. Cardinality(A) + Cardinality(B) > Cardinality(Replica)
  BY <1>3, FailureAssumption
<1>5. A \cap B # {} BY <1>1, <1>4, FS_MajoritiesIntersect
<1> QED BY <1>5

\* Two strong quorums share a server, whose history extends both histories.
LEMMA StrongAnswersAgree ==
    ASSUME Cardinality(Replica) <= 4 * max_failures + 1, IInv
    PROVE  Agreement
<1> SUFFICES ASSUME NEW or1 \in StrongAnswers, NEW or2 \in StrongAnswers
             PROVE  Comparable(or1.h, or2.h)
  BY DEF Agreement
<1> DEFINE A(or) == {q \in Replica : Executed(q, or)}
<1>1. PICK q \in Replica : q \in A(or1) /\ q \in A(or2)
  <2>1. /\ Cardinality(A(or1)) > 2 * max_failures
        /\ Cardinality(A(or2)) > 2 * max_failures
    BY StrongAnswersBacked
  <2>2. A(or1) \in SUBSET Replica /\ A(or2) \in SUBSET Replica OBVIOUS
  <2> HIDE DEF A
  <2> QED BY <2>1, <2>2, QuorumsMeet
<1>2. zs[q] \in ZenoMutState BY DEF IInv, TypeOK
<1>3. zs[q].all_executed_reqs \in Seq(OrderedRequest) /\ zs[q].h \in Seq(Request)
  BY <1>2 DEF ZenoMutState
<1>4. /\ or1 \in Range(zs[q].all_executed_reqs)
      /\ or2 \in Range(zs[q].all_executed_reqs)
  BY <1>1 DEF Executed
<1>5. or1.h \in Seq(Request) /\ or2.h \in Seq(Request)
  <2>1. or1 \in OrderedRequest /\ or2 \in OrderedRequest
    BY <1>3, <1>4 DEF Range
  <2> QED BY <2>1 DEF OrderedRequest
<1>6. IsPrefix(or1.h, zs[q].h) /\ IsPrefix(or2.h, zs[q].h)
  BY <1>4 DEF IInv, GoodServer, LogOK
<1> QED BY <1>3, <1>5, <1>6, PrefixesComparable

\* If strong quorums intersect, two answers to strong requests are never
\* computed on diverging histories.  start_zeno does not assert this bound on
\* the number of servers; run quorum shows what happens without it.
THEOREM StrongAgreement ==
    ASSUME Cardinality(Replica) <= 4 * max_failures + 1
    PROVE  Spec => []Agreement
<1>1. IInv => Agreement BY StrongAnswersAgree
<1> QED BY <1>1, Invariance, PTL
=============================================================================
