---------------------------- MODULE ZenoOrderProofs ----------------------------
(***************************************************************************)
(* Proofs about the order in which servers execute, for every number of    *)
(* servers, requests and transmissions.  They rest on the invariant of     *)
(* module ZenoProofs and on two more:                                      *)
(*   - OrderInv: whatever a server was ordered to execute is in the log of *)
(*     the primary that ordered it, after a history of the same length and *)
(*     with the requests of every client in order; nobody waits for an OR  *)
(*     or for a commit that is already there; and a server panics, if at   *)
(*     all, where it slices its log for a ViewChange;                      *)
(*   - ReportInv: so is whatever a ViewChange or a NewView reports.        *)
(* Every step of a server keeps them, also one that starts a view; the     *)
(* theorems here are about servers on their own, those of module           *)
(* ZenoFaultyProofs about servers among faulty ones.                       *)
(***************************************************************************)
EXTENDS ZenoProofs

-----------------------------------------------------------------------------
(* Histories                                                               *)

\* Every client with a request in h has a last one.  (That a finite set of
\* numbers has a greatest one takes an induction; the invariant does it.)
HasLast(h) ==
    \A c \in Client :
        \/ \A j \in DOMAIN h : h[j].c # c
        \/ \E p \in DOMAIN h : h[p].c = c /\ \A j \in DOMAIN h : h[j].c = c => j <= p

\* Two positions of an ordered history never hold one request.
LEMMA InOrderInjective ==
    ASSUME NEW h \in Seq(Request), InOrder(h)
    PROVE  IsInjective(h)
<1> SUFFICES ASSUME NEW i \in DOMAIN h, NEW j \in DOMAIN h, h[i] = h[j], i # j
             PROVE  FALSE
  BY DEF IsInjective
<1>1. /\ Len(h) \in Nat /\ i \in 1 .. Len(h) /\ j \in 1 .. Len(h)
      /\ h[i].t \in Nat /\ h[i].t = h[j].t
  <2>1. h[i] \in Request OBVIOUS
  <2> QED BY <2>1, RequestAssumption
<1>2. CASE i < j
  <2>1. h[i].t < h[j].t BY <1>1, <1>2 DEF InOrder
  <2> QED BY <1>1, <2>1
<1>3. CASE j < i
  <2>1. h[j].t < h[i].t BY <1>1, <1>3 DEF InOrder
  <2> QED BY <1>1, <2>1
<1> QED BY <1>1, <1>2, <1>3

\* What Append does to the positions of a history.
LEMMA AppendAt ==
    ASSUME NEW h \in Seq(Request), NEW m \in Request, NEW g, g = Append(h, m)
    PROVE  /\ g \in Seq(Request) /\ Len(h) \in Nat /\ Len(g) = Len(h) + 1
           /\ DOMAIN h = 1 .. Len(h) /\ DOMAIN g = 1 .. Len(h) + 1
           /\ g[Len(h) + 1] = m
           /\ \A j \in 1 .. Len(h) : g[j] = h[j] /\ h[j] \in Request
<1>1. Append(h, m) \in Seq(Request) /\ Len(Append(h, m)) = Len(h) + 1
  BY AppendProperties
<1>2. /\ Append(h, m)[Len(h) + 1] = m
      /\ \A j \in 1 .. Len(h) : Append(h, m)[j] = h[j]
  BY AppendProperties
<1>3. Len(h) \in Nat /\ DOMAIN h = 1 .. Len(h) /\ \A j \in 1 .. Len(h) : h[j] \in Request
  OBVIOUS
<1>4. DOMAIN Append(h, m) = 1 .. Len(Append(h, m)) BY <1>1
<1> QED BY <1>1, <1>2, <1>3, <1>4

LEMMA HasLastAppend ==
    ASSUME NEW h \in Seq(Request), NEW m \in Request, HasLast(h)
    PROVE  HasLast(Append(h, m))
<1>1. PICK g : g = Append(h, m) OBVIOUS
<1> SUFFICES ASSUME NEW c \in Client
             PROVE  \/ \A j \in DOMAIN g : g[j].c # c
                    \/ \E p \in DOMAIN g :
                          g[p].c = c /\ \A j \in DOMAIN g : g[j].c = c => j <= p
  BY <1>1 DEF HasLast
<1>2. /\ Len(h) \in Nat
      /\ DOMAIN h = 1 .. Len(h) /\ DOMAIN g = 1 .. Len(h) + 1
      /\ g[Len(h) + 1] = m
      /\ \A j \in 1 .. Len(h) : g[j] = h[j]
  BY <1>1, AppendAt
<1>3. CASE m.c = c
  <2>1. /\ Len(h) + 1 \in DOMAIN g /\ g[Len(h) + 1].c = c
        /\ \A j \in DOMAIN g : j <= Len(h) + 1
    BY <1>2, <1>3
  <2> QED BY <2>1
<1>4. CASE m.c # c /\ \A j \in DOMAIN h : h[j].c # c
  <2>1. \A j \in DOMAIN g : g[j].c # c BY <1>2, <1>4
  <2> QED BY <2>1
<1>5. CASE m.c # c /\ ~\A j \in DOMAIN h : h[j].c # c
  <2>1. PICK p \in DOMAIN h : h[p].c = c /\ \A j \in DOMAIN h : h[j].c = c => j <= p
    BY <1>5 DEF HasLast
  <2>2. p \in DOMAIN g /\ g[p].c = c BY <1>2, <2>1
  <2>3. \A j \in DOMAIN g : g[j].c = c => j <= p BY <1>2, <1>5, <2>1
  <2> QED BY <2>2, <2>3
<1> QED BY <1>3, <1>4, <1>5

\* The primary orders a request of the timestamp after the last one of its
\* client in the log.
LEMMA InOrderAppend ==
    ASSUME NEW z \in ZenoMutState, InOrder(z.h), HasLast(z.h),
           Len(z.all_executed_reqs) = Len(z.h),
           \A k \in DOMAIN z.h : z.all_executed_reqs[k].d_req = z.h[k],
           NEW m \in Request, LastT(z, m.c) + 1 = m.t
    PROVE  InOrder(Append(z.h, m))
<1>1. z.h \in Seq(Request) /\ z.all_executed_reqs \in Seq(OrderedRequest)
  BY DEF ZenoMutState
<1>2. PICK h \in Seq(Request) : h = z.h BY <1>1
<1>3. PICK g : g = Append(h, m) OBVIOUS
<1>4. /\ Len(h) \in Nat
      /\ DOMAIN h = 1 .. Len(h) /\ DOMAIN g = 1 .. Len(h) + 1
      /\ g[Len(h) + 1] = m
      /\ \A j \in 1 .. Len(h) : g[j] = h[j] /\ h[j] \in Request
  BY <1>3, AppendAt
<1>5. executed_reqs(z, m.c) = {k \in DOMAIN h : h[k].c = m.c}
  <2>1. DOMAIN z.all_executed_reqs = DOMAIN h BY <1>1, <1>2
  <2> QED BY <1>2, <2>1 DEF executed_reqs
<1>6. \A j \in 1 .. Len(h) : h[j].t \in Nat BY <1>4, RequestAssumption
<1>7. m.t \in Nat /\ m.c \in Client BY RequestAssumption DEF Client
<1>8. /\ \A j \in 1 .. Len(h) : h[j].c = m.c => h[j].t < m.t
      /\ m.t # 0 => \E j \in 1 .. Len(h) : h[j].c = m.c /\ h[j].t = m.t - 1
  <2>1. CASE \A j \in DOMAIN h : h[j].c # m.c
    <3>1. executed_reqs(z, m.c) = {} BY <1>5, <2>1
    <3>2. m.t = 0 BY <3>1 DEF LastT
    <3> QED BY <1>4, <2>1, <3>2
  <2>2. CASE ~\A j \in DOMAIN h : h[j].c # m.c
    <3>1. \E p \in DOMAIN h : h[p].c = m.c /\ \A j \in DOMAIN h : h[j].c = m.c => j <= p
      BY <1>2, <1>7, <2>2 DEF HasLast
    <3> DEFINE mine == executed_reqs(z, m.c)
    <3>2. \E p \in mine : \A j \in mine : p >= j BY <1>4, <1>5, <3>1
    <3>3. PICK p \in mine : p = Max(mine) /\ \A j \in mine : p >= j
      BY <3>2 DEF Max
    <3>4. p \in 1 .. Len(h) /\ h[p].c = m.c BY <1>4, <1>5
    <3>5. m.t = h[p].t + 1
      <4>1. LastT(z, m.c) = z.all_executed_reqs[p].d_req.t BY <3>3 DEF LastT
      <4>2. z.all_executed_reqs[p].d_req = h[p] BY <1>2, <1>4, <3>4
      <4> QED BY <4>1, <4>2
    <3>6. ASSUME NEW j \in 1 .. Len(h), h[j].c = m.c
          PROVE  h[j].t < m.t
      <4>1. j <= p BY <1>4, <1>5, <3>3, <3>4, <3>6
      <4>2. CASE j = p BY <1>6, <3>4, <3>5, <4>2
      <4>3. CASE j # p
        <5>1. j \in 1 .. p - 1 BY <1>4, <3>4, <4>1, <4>3
        <5>2. h[j].t < h[p].t BY <1>2, <1>4, <3>4, <3>6, <5>1 DEF InOrder
        <5> QED BY <1>6, <3>4, <3>5, <5>2
      <4> QED BY <4>2, <4>3
    <3>7. h[p].t = m.t - 1 BY <1>6, <3>4, <3>5
    <3> QED BY <3>4, <3>6, <3>7
  <2> QED BY <2>1, <2>2
<1>9. ASSUME NEW j \in DOMAIN g
      PROVE  /\ \A i \in 1 .. j - 1 : g[i].c = g[j].c => g[i].t < g[j].t
             /\ g[j].t # 0 =>
                   \E i \in 1 .. j - 1 : g[i].c = g[j].c /\ g[i].t = g[j].t - 1
  <2>1. CASE j = Len(h) + 1 BY <1>4, <1>8, <2>1
  <2>2. CASE j # Len(h) + 1
    <3>1. j \in 1 .. Len(h) BY <1>4, <2>2
    <3>2. \A i \in 1 .. j - 1 : g[i] = h[i] BY <1>4, <3>1
    <3>3. /\ \A i \in 1 .. j - 1 : h[i].c = h[j].c => h[i].t < h[j].t
          /\ h[j].t # 0 =>
                \E i \in 1 .. j - 1 : h[i].c = h[j].c /\ h[i].t = h[j].t - 1
      BY <1>2, <1>4, <3>1 DEF InOrder
    <3> QED BY <1>4, <3>1, <3>2, <3>3
  <2> QED BY <2>1, <2>2
<1> QED BY <1>2, <1>3, <1>9 DEF InOrder

-----------------------------------------------------------------------------
(* The invariant                                                           *)

\* The primary of its view made or, and executed it: E holds what each server
\* executed and I the requests that some server has received.
Made(E, I, or) ==
    /\ or.i = get_primary_for_view(or.v)
    /\ or \in E[or.i]
    /\ or.h # <<>>
    /\ InOrder(or.h)
    /\ \A j \in DOMAIN or.h : or.h[j] \in I

\* The log of a server numbers its history, request by request.
OrderlyLog(E, I, z) ==
    LET log == z.all_executed_reqs
    IN  /\ LogMatches(z)
        /\ Len(z.h) = z.n + 1
        /\ InOrder(z.h) /\ HasLast(z.h)
        /\ \A k \in DOMAIN z.h : z.h[k] \in I
        /\ \A k \in DOMAIN log :
              /\ Made(E, I, log[k])
              /\ log[k].d_req = z.h[k] /\ Len(log[k].h) = k /\ log[k].n <= k - 1

\* An OR that was handed to a thread is not ahead of the server.
HandedOver(E, I, z, th) ==
    th.pc = "gotOr" => Made(E, I, th.or) /\ th.or.n <= z.n + 1

OrderlyServer(E, I, z) ==
    /\ OrderlyLog(E, I, z)
    /\ \A or \in z.pending_ors : Made(E, I, or)
    /\ \A m \in Request, k \in Copy : HandedOver(E, I, z, z.thr[m][k])
    /\ Waits(z)
    /\ Queue(z)

\* A thread of the server panicked, if at all, when it sliced the log.
PanicsOnSlice(z) == z.poisoned => ~HasSuffix(z)

OrderInv ==
    /\ \A q \in Replica :
          OrderlyServer(Ex, Invoked, zs[q]) /\ PanicsOnSlice(zs[q])
    /\ \A q \in Replica : \A or \in orMsgs[q] : Made(Ex, Invoked, or)
    /\ \A q \in Replica, c \in Client :
          LET or == zs[q].replies[c]
          IN  or # NoOr /\ or.d_req.s => or \in StrongAnswers

\* Every OR that a ViewChange reports was made by its primary.
ReportMade(E, I, vc) == \A i \in DOMAIN vc.o : Made(E, I, vc.o[i])

\* So are those that a server is told of at the start of a view.
ReportInv ==
    \A q \in Replica :
        /\ \A vc \in zs[q].view_changes \cup viewChangeMsgs[q] :
              ReportMade(Ex, Invoked, vc)
        /\ \A nvm \in newViewMsgs[q] : \A i \in DOMAIN nvm.p :
              ReportMade(Ex, Invoked, nvm.p[i])

LEMMA MadeGrows ==
    ASSUME NEW E, NEW I, NEW E1, NEW I1, Grows(E, E1), I \subseteq I1,
           NEW or \in OrderedRequest, Made(E, I, or)
    PROVE  Made(E1, I1, or)
BY DEF Made, Grows, OrderedRequest

LEMMA LogGrows ==
    ASSUME NEW E, NEW I, NEW E1, NEW I1, Grows(E, E1), I \subseteq I1,
           NEW z \in ZenoMutState, OrderlyLog(E, I, z)
    PROVE  OrderlyLog(E1, I1, z)
<1>1. z.all_executed_reqs \in Seq(OrderedRequest) BY DEF ZenoMutState
<1>2. \A k \in DOMAIN z.all_executed_reqs :
         z.all_executed_reqs[k] \in OrderedRequest
  BY <1>1
<1>3. \A k \in DOMAIN z.all_executed_reqs : Made(E1, I1, z.all_executed_reqs[k])
  BY <1>2, MadeGrows DEF OrderlyLog
<1> QED BY <1>3 DEF OrderlyLog

\* The OR of a thread that was woken is one.
LEMMA GotOrType ==
    ASSUME NEW z \in ZenoMutState, NEW m \in Request, NEW k \in Copy,
           z.thr[m][k].pc = "gotOr"
    PROVE  z.thr[m][k].or \in OrderedRequest
<1>1. z.thr[m][k] \in Thread BY DEF ZenoMutState
<1> QED BY <1>1 DEF Thread

LEMMA ServerGrows ==
    ASSUME NEW E, NEW I, NEW E1, NEW I1, Grows(E, E1), I \subseteq I1,
           NEW z \in ZenoMutState, OrderlyServer(E, I, z)
    PROVE  OrderlyServer(E1, I1, z)
<1>1. OrderlyLog(E1, I1, z) BY LogGrows DEF OrderlyServer
<1>2. z.pending_ors \subseteq OrderedRequest BY DEF ZenoMutState
<1>3. \A or \in z.pending_ors : Made(E1, I1, or) BY <1>2, MadeGrows DEF OrderlyServer
<1>4. \A m \in Request, k \in Copy : HandedOver(E1, I1, z, z.thr[m][k])
  BY GotOrType, MadeGrows DEF OrderlyServer, HandedOver
<1> QED BY <1>1, <1>3, <1>4 DEF OrderlyServer

\* Nothing is executed from z to z1, and the ORs handed over are those that
\* are there, or that come in with S.
Still(S, z, z1) ==
    /\ z1.n = z.n /\ z1.h = z.h
    /\ z1.all_executed_reqs = z.all_executed_reqs
    /\ z1.pending_ors \subseteq z.pending_ors \cup S
    /\ \A m \in Request, k \in Copy : z1.thr[m][k].pc = "gotOr" =>
          \/ z.thr[m][k].pc = "gotOr" /\ z1.thr[m][k].or = z.thr[m][k].or
          \/ /\ z1.thr[m][k].or \in z.pending_ors \cup S
             /\ z1.thr[m][k].or.n <= z.n + 1

LEMMA ServerStill ==
    ASSUME NEW E, NEW I, NEW z, NEW z1, NEW S, OrderlyServer(E, I, z),
           Still(S, z, z1), \A or \in S : Made(E, I, or), Waits(z1), Queue(z1)
    PROVE  OrderlyServer(E, I, z1)
<1>1. OrderlyLog(E, I, z1) BY DEF OrderlyServer, OrderlyLog, LogMatches, Still
<1>2. \A or \in z1.pending_ors : Made(E, I, or) BY DEF OrderlyServer, Still
<1>3. \A m \in Request, k \in Copy : HandedOver(E, I, z1, z1.thr[m][k])
  BY DEF OrderlyServer, HandedOver, Still
<1> QED BY <1>1, <1>2, <1>3 DEF OrderlyServer

-----------------------------------------------------------------------------
(* What clients see of a step                                              *)

\* The requests of N may arrive, and strong ones be answered with those of A.
ThreadKeeps(m, th, th1, N, A) ==
    /\ th.pc # "new" => th1.pc # "new"
    /\ th.pc = "new" => th1.pc = "new" \/ m \in N
    /\ AnswersStrong(th) => AnswersStrong(th1) /\ th1.or = th.or
    /\ AnswersStrong(th1) => (AnswersStrong(th) /\ th1.or = th.or) \/ th1.or \in A

Keeps(z, z1, N, A) ==
    \A m \in Request, k \in Copy :
        ThreadKeeps(m, z.thr[m][k], z1.thr[m][k], N, A)

LEMMA KeepsTransitive ==
    ASSUME NEW z1, NEW z2, NEW z3, NEW N, NEW A,
           Keeps(z1, z2, N, A), Keeps(z2, z3, N, A)
    PROVE  Keeps(z1, z3, N, A)
BY DEF Keeps, ThreadKeeps

LEMMA ThreadMovesKeeps ==
    ASSUME NEW S, NEW n, NEW th, NEW th1, ThreadMoves(S, n, th, th1),
           NEW m, NEW N, NEW A
    PROVE  /\ ThreadKeeps(m, th, th1, N, A)
           /\ th1.pc = "gotOr" =>
                 \/ th.pc = "gotOr" /\ th1.or = th.or
                 \/ th1.or \in S /\ th1.or.n <= n
<1>1. CASE th1 = th BY <1>1 DEF ThreadKeeps
<1>2. CASE th.pc \in {"awaitOr", "awaitCommit"} /\ th1 = Finished
  BY <1>2 DEF ThreadKeeps, AnswersStrong, Finished
<1>3. CASE /\ th.pc = "awaitOr"
           /\ \E or \in S : or.n <= n /\ th1 = [pc |-> "gotOr", or |-> or, cert |-> {}]
  <2>1. th1.pc = "gotOr" /\ th1.or \in S /\ th1.or.n <= n BY <1>3
  <2> QED BY <1>3, <2>1 DEF ThreadKeeps, AnswersStrong
<1> QED BY <1>1, <1>2, <1>3 DEF ThreadMoves

\* Running a request answers it only if it is weak.
LEMMA RanKeeps ==
    ASSUME NEW z, NEW z1, NEW or, NEW m \in Request, NEW k \in Copy, or.d_req = m,
           z.thr[m][k].pc \in {"new", "gotOr"}, Ran(z, z1, or, m, k), NEW A
    PROVE  Keeps(z, z1, {m}, A)
<1> SUFFICES ASSUME NEW m1 \in Request, NEW k1 \in Copy
             PROVE  ThreadKeeps(m1, z.thr[m1][k1], z1.thr[m1][k1], {m}, A)
  BY DEF Keeps
<1>1. CASE m1 = m /\ k1 = k
  <2>1. /\ z1.thr[m][k].pc # "new"
        /\ ~AnswersStrong(z1.thr[m][k])
    BY DEF Ran, AnswersStrong, Replying, Finished
  <2>2. ~AnswersStrong(z.thr[m][k]) BY DEF AnswersStrong
  <2> QED BY <1>1, <2>1, <2>2 DEF ThreadKeeps
<1>2. CASE ~(m1 = m /\ k1 = k)
  <2>1. ThreadMoves(z.pending_ors, z1.n + 1, z.thr[m1][k1], z1.thr[m1][k1])
    BY <1>2 DEF Ran
  <2> QED BY <2>1, ThreadMovesKeeps
<1> QED BY <1>1, <1>2

\* What the step of one server does to what clients see of all of them.
LEMMA ClientsSee ==
    ASSUME TypeOK, NEW q \in Replica, NEW z1, zs' = [zs EXCEPT ![q] = z1],
           NEW N, NEW A, Keeps(zs[q], z1, N, A)
    PROVE  /\ Invoked \subseteq Invoked' /\ Invoked' \subseteq Invoked \cup N
           /\ StrongAnswers \subseteq StrongAnswers'
           /\ StrongAnswers' \subseteq StrongAnswers \cup A
<1>1. \A p \in Replica : zs'[p] = IF p = q THEN z1 ELSE zs[p] BY DEF TypeOK
<1>2. \A p \in Replica, m \in Request, k \in Copy :
         ThreadKeeps(m, zs[p].thr[m][k], zs'[p].thr[m][k], N, A)
  <2>1. \A p \in Replica : p = q => Keeps(zs[p], zs'[p], N, A) BY <1>1
  <2>2. \A p \in Replica : p # q => zs'[p] = zs[p] BY <1>1
  <2> QED BY <2>1, <2>2 DEF Keeps, ThreadKeeps
<1>3. Invoked \subseteq Invoked' /\ Invoked' \subseteq Invoked \cup N
  BY <1>2 DEF Invoked, ThreadKeeps
<1>4. ASSUME NEW or
      PROVE  /\ or \in StrongAnswers <=> \E p \in Replica, m \in Request, k \in Copy :
                   AnswersStrong(zs[p].thr[m][k]) /\ or = zs[p].thr[m][k].or
             /\ or \in StrongAnswers' <=> \E p \in Replica, m \in Request, k \in Copy :
                   AnswersStrong(zs'[p].thr[m][k]) /\ or = zs'[p].thr[m][k].or
  BY DEF StrongAnswers, Threads
<1>5. StrongAnswers \subseteq StrongAnswers' BY <1>2, <1>4 DEF ThreadKeeps
<1>6. StrongAnswers' \subseteq StrongAnswers \cup A BY <1>2, <1>4 DEF ThreadKeeps
<1> QED BY <1>3, <1>5, <1>6

-----------------------------------------------------------------------------
(* Steps of one server                                                     *)

\* One request arrives, or one strong request is answered, or neither.
Visible ==
    /\ Invoked \subseteq Invoked' /\ StrongAnswers \subseteq StrongAnswers'
    /\ \/ /\ StrongAnswers' = StrongAnswers
          /\ \E m : Invoked' \subseteq Invoked \cup {m}
       \/ /\ Invoked' = Invoked
          /\ \E or : StrongAnswers' \subseteq StrongAnswers \cup {or}

\* N and A are such.
OneAtATime(N, A) ==
    \/ A \subseteq StrongAnswers /\ \E m : N \subseteq {m}
    \/ N = {} /\ \E or : A \subseteq {or}

\* A cached reply to a strong request is one that was given.
RepliesGiven(z, A) ==
    \A c \in Client : z.replies[c] # NoOr /\ z.replies[c].d_req.s => z.replies[c] \in A

\* What a step of server q to state z1 has to show.
LEMMA OrderStep ==
    ASSUME IInv, OrderInv, NEW q \in Replica, NEW z1,
           zs' = [zs EXCEPT ![q] = z1], Grows(Ex, Ex'),
           NEW N, NEW A, Keeps(zs[q], z1, N, A), OneAtATime(N, A),
           OrderlyServer(Ex', Invoked', z1), PanicsOnSlice(z1),
           RepliesGiven(z1, StrongAnswers'),
           \A p \in Replica : \A or \in orMsgs'[p] :
              or \in orMsgs[p] \/ Made(Ex', Invoked', or)
    PROVE  OrderInv' /\ Visible
<1>1. TypeOK BY DEF IInv
<1>2. /\ Invoked \subseteq Invoked' /\ Invoked' \subseteq Invoked \cup N
      /\ StrongAnswers \subseteq StrongAnswers'
      /\ StrongAnswers' \subseteq StrongAnswers \cup A
  BY <1>1, ClientsSee
<1>3. Visible BY <1>2 DEF Visible, OneAtATime
<1>4. \A p \in Replica : zs'[p] = IF p = q THEN z1 ELSE zs[p] BY <1>1 DEF TypeOK
<1>5. ASSUME NEW p \in Replica
      PROVE  OrderlyServer(Ex', Invoked', zs'[p]) /\ PanicsOnSlice(zs'[p])
  <2>1. CASE p = q BY <1>4, <2>1
  <2>2. CASE p # q
    <3>1. zs'[p] = zs[p] /\ zs[p] \in ZenoMutState BY <1>1, <1>4, <2>2 DEF TypeOK
    <3>2. OrderlyServer(Ex, Invoked, zs[p]) /\ PanicsOnSlice(zs[p])
      BY DEF OrderInv
    <3> QED BY <1>2, <3>1, <3>2, ServerGrows
  <2> QED BY <2>1, <2>2
<1>6. ASSUME NEW p \in Replica, NEW or \in orMsgs'[p]
      PROVE  Made(Ex', Invoked', or)
  <2>1. CASE or \in orMsgs[p]
    <3>1. Made(Ex, Invoked, or) BY <2>1 DEF OrderInv
    <3>2. or \in OrderedRequest BY <1>1, <2>1 DEF TypeOK
    <3> QED BY <1>2, <3>1, <3>2, MadeGrows
  <2> QED BY <2>1
<1>7. \A p \in Replica, c \in Client :
         zs'[p].replies[c] # NoOr /\ zs'[p].replies[c].d_req.s
            => zs'[p].replies[c] \in StrongAnswers'
  BY <1>2, <1>4 DEF OrderInv, RepliesGiven
<1>8. OrderInv' BY <1>5, <1>6, <1>7 DEF OrderInv
<1> QED BY <1>3, <1>8

\* What a step that executes nothing has to show.
LEMMA StillStep ==
    ASSUME IInv, OrderInv, NEW q \in Replica, NEW z1,
           zs' = [zs EXCEPT ![q] = z1],
           NEW N, NEW A, Keeps(zs[q], z1, N, A), OneAtATime(N, A),
           NEW S, Still(S, zs[q], z1), \A or \in S : Made(Ex, Invoked, or),
           Waits(z1), Queue(z1), PanicsOnSlice(z1),
           RepliesGiven(z1, StrongAnswers'),
           \A p \in Replica : \A or \in orMsgs'[p] : Made(Ex, Invoked, or)
    PROVE  OrderInv' /\ Visible
<1>1. TypeOK BY DEF IInv
<1>2. Ex' = Ex BY <1>1 DEF Ex, TypeOK, Still
<1>3. Grows(Ex, Ex') BY <1>2 DEF Grows
<1>4. Invoked \subseteq Invoked' BY <1>1, ClientsSee
<1>5. OrderlyServer(Ex, Invoked, zs[q]) BY DEF OrderInv
<1>6. OrderlyServer(Ex, Invoked, z1) BY <1>5, ServerStill
<1>7. OrderlyServer(Ex', Invoked', z1)
  BY <1>2, <1>4, <1>6 DEF OrderlyServer, OrderlyLog, HandedOver, Made
<1>8. \A p \in Replica : \A or \in orMsgs'[p] : Made(Ex', Invoked', or)
  BY <1>2, <1>4 DEF Made
<1> QED BY <1>3, <1>7, <1>8, OrderStep

\* A step in which threads only end or are handed ORs that are there, or are
\* those of S.
LEMMA MovesStep ==
    ASSUME IInv, OrderInv, NEW q \in Replica, ~zs[q].poisoned, NEW z1,
           zs' = [zs EXCEPT ![q] = z1],
           NEW S, Moves(S, zs[q], z1), Waits(z1), Queue(z1),
           \A or \in S : Made(Ex, Invoked, or),
           z1.h = zs[q].h, z1.all_executed_reqs = zs[q].all_executed_reqs,
           z1.replies = zs[q].replies,
           \A p \in Replica : \A or \in orMsgs'[p] : Made(Ex, Invoked, or)
    PROVE  OrderInv' /\ Visible
<1>1. \A m \in Request, k \in Copy :
         /\ ThreadKeeps(m, zs[q].thr[m][k], z1.thr[m][k], {}, {})
         /\ z1.thr[m][k].pc = "gotOr" =>
               \/ zs[q].thr[m][k].pc = "gotOr" /\ z1.thr[m][k].or = zs[q].thr[m][k].or
               \/ /\ z1.thr[m][k].or \in zs[q].pending_ors \cup S
                  /\ z1.thr[m][k].or.n <= zs[q].n + 1
  BY ThreadMovesKeeps DEF Moves
<1>2. Keeps(zs[q], z1, {}, {}) BY <1>1 DEF Keeps
<1>3. OneAtATime({}, {}) BY DEF OneAtATime
<1>4. PanicsOnSlice(z1) BY DEF PanicsOnSlice, Moves
<1>5. Still(S, zs[q], z1) BY <1>1 DEF Still, Moves
<1>6. StrongAnswers \subseteq StrongAnswers' BY <1>2, ClientsSee DEF IInv
<1>7. RepliesGiven(z1, StrongAnswers') BY <1>6 DEF RepliesGiven, OrderInv
<1> QED BY <1>2, <1>3, <1>4, <1>5, <1>7, StillStep

\* Running what an OR says keeps a server orderly if the OR was made by its
\* primary, which may be this server, by this step.
LEMMA RunInOrder ==
    ASSUME NEW E, NEW I, NEW E1, NEW I1, Grows(E, E1), I \subseteq I1,
           NEW z \in ZenoMutState, NEW z1 \in ZenoMutState, OrderlyServer(E, I, z),
           NEW or \in OrderedRequest, NEW m \in Request, NEW k \in Copy,
           or.d_req = m, or.n <= z.n + 1, Executes(z, or, m) => Made(E1, I1, or),
           RunEffect(z, z1, or, m, k), Ran(z, z1, or, m, k), Waits(z1), Queue(z1),
           z.thr[m][k].pc \in {"new", "gotOr"}
    PROVE  OrderlyServer(E1, I1, z1)
<1>1. OrderlyServer(E1, I1, z) BY ServerGrows
<1>2. \A o \in z1.pending_ors : Made(E1, I1, o) BY <1>1 DEF OrderlyServer, Ran
<1>3. z.n \in Int /\ z1.n \in Int /\ z.n <= z1.n BY DEF ZenoMutState, Ran
<1>4. ASSUME NEW m1 \in Request, NEW k1 \in Copy, z1.thr[m1][k1].pc = "gotOr"
      PROVE  Made(E1, I1, z1.thr[m1][k1].or) /\ z1.thr[m1][k1].or.n <= z1.n + 1
  <2>1. ~(m1 = m /\ k1 = k) BY <1>4 DEF Ran, Replying, Finished
  <2>2. ThreadMoves(z.pending_ors, z1.n + 1, z.thr[m1][k1], z1.thr[m1][k1])
    BY <2>1 DEF Ran
  <2>3. \/ z.thr[m1][k1].pc = "gotOr" /\ z1.thr[m1][k1].or = z.thr[m1][k1].or
        \/ z1.thr[m1][k1].or \in z.pending_ors /\ z1.thr[m1][k1].or.n <= z1.n + 1
    BY <1>4, <2>2, ThreadMovesKeeps
  <2>4. CASE z.thr[m1][k1].pc = "gotOr" /\ z1.thr[m1][k1].or = z.thr[m1][k1].or
    <3>1. Made(E1, I1, z.thr[m1][k1].or) /\ z.thr[m1][k1].or.n <= z.n + 1
      BY <1>1, <2>4 DEF OrderlyServer, HandedOver
    <3>2. z.thr[m1][k1].or.n \in Nat BY <2>4, GotOrType DEF OrderedRequest
    <3> QED BY <1>3, <2>4, <3>1, <3>2
  <2> QED BY <1>1, <2>3, <2>4 DEF OrderlyServer
<1>5. OrderlyLog(E1, I1, z1)
  <2>1. CASE ~Executes(z, or, m)
    BY <1>1, <2>1 DEF OrderlyServer, OrderlyLog, LogMatches, RunEffect, Ran
  <2>2. CASE Executes(z, or, m)
    <3>1. /\ z.h \in Seq(Request) /\ z.all_executed_reqs \in Seq(OrderedRequest)
      BY DEF ZenoMutState
    <3>2. /\ z1.h = Append(z.h, m) /\ or.h = z1.h
          /\ z1.all_executed_reqs = Append(z.all_executed_reqs, or)
          /\ z1.n = z.n + 1
      BY <2>2 DEF RunEffect, Ran, Executes, Checks
    <3>3. PICK L \in Nat : L = Len(z.h) /\ L = Len(z.all_executed_reqs) /\ L = z.n + 1
      BY <1>1, <3>1 DEF OrderlyServer, OrderlyLog, LogMatches
    <3>4. /\ Len(z1.h) = L + 1 /\ DOMAIN z1.h = 1 .. L + 1
          /\ z1.h[L + 1] = m
          /\ \A j \in 1 .. L : z1.h[j] = z.h[j]
      <4>1. /\ Len(z1.h) = Len(z.h) + 1 /\ DOMAIN z1.h = 1 .. Len(z.h) + 1
            /\ z1.h[Len(z.h) + 1] = m
            /\ \A j \in 1 .. Len(z.h) : z1.h[j] = z.h[j]
        BY <3>1, <3>2, AppendAt
      <4> QED BY <3>3, <4>1
    <3>5. /\ Len(z1.all_executed_reqs) = L + 1
          /\ z1.all_executed_reqs[L + 1] = or
          /\ \A j \in 1 .. L : z1.all_executed_reqs[j] = z.all_executed_reqs[j]
      <4>1. PICK log \in Seq(OrderedRequest) : log = z.all_executed_reqs BY <3>1
      <4>2. /\ Len(Append(log, or)) = Len(log) + 1
            /\ Append(log, or)[Len(log) + 1] = or
            /\ \A j \in 1 .. Len(log) : Append(log, or)[j] = log[j]
        BY AppendProperties
      <4> QED BY <3>2, <3>3, <4>1, <4>2
    <3>6. DOMAIN z1.all_executed_reqs = 1 .. L + 1 /\ DOMAIN z.all_executed_reqs = 1 .. L
      <4>1. z1.all_executed_reqs \in Seq(OrderedRequest) BY DEF ZenoMutState
      <4>2. DOMAIN z1.all_executed_reqs = 1 .. Len(z1.all_executed_reqs) BY <4>1
      <4>3. DOMAIN z.all_executed_reqs = 1 .. Len(z.all_executed_reqs) BY <3>1
      <4> QED BY <3>3, <3>5, <4>2, <4>3
    <3>7. Made(E1, I1, or) BY <2>2
    <3>8. ASSUME NEW j \in DOMAIN z1.all_executed_reqs
          PROVE  LET o == z1.all_executed_reqs[j]
                 IN  /\ Made(E1, I1, o)
                     /\ o.d_req = z1.h[j] /\ Len(o.h) = j /\ o.n <= j - 1
      <4>1. CASE j = L + 1
        <5>1. or.n <= L BY <3>3
        <5> QED BY <3>2, <3>4, <3>5, <3>7, <4>1, <5>1
      <4>2. CASE j \in 1 .. L
        BY <1>1, <3>4, <3>5, <3>6, <4>2 DEF OrderlyServer, OrderlyLog
      <4> QED BY <3>3, <3>6, <4>1, <4>2
    <3>9. InOrder(z1.h) /\ \A j \in DOMAIN z1.h : z1.h[j] \in I1
      BY <3>2, <3>7 DEF Made
    <3>10. HasLast(z1.h)
      BY <1>1, <3>1, <3>2, HasLastAppend DEF OrderlyServer, OrderlyLog
    <3>11. LogMatches(z1) /\ Len(z1.h) = z1.n + 1
      BY <3>2, <3>3, <3>4, <3>5 DEF LogMatches
    <3> QED BY <3>8, <3>9, <3>10, <3>11 DEF OrderlyLog
  <2> QED BY <2>1, <2>2
<1> QED BY <1>2, <1>4, <1>5 DEF OrderlyServer, HandedOver

\* A step in which thread k of m runs what its ordered request says.
LEMMA RunOrderStep ==
    ASSUME IInv, OrderInv, NEW q \in Replica, ~zs[q].poisoned,
           NEW z \in ZenoMutState, Tame(zs[q], z), Moves({}, zs[q], z), Waits(z), Queue(z),
           NEW or \in OrderedRequest, NEW m \in Request, NEW k \in Copy,
           or.d_req = m, or.n <= z.n + 1, z.thr[m][k].pc \in {"new", "gotOr"},
           \/ Made(Ex, Invoked, or)
           \/ or.i = q /\ q = get_primary_for_view(or.v) /\ InOrder(or.h),
           Run(q, z, or, m, k),
           \A p \in Replica : \A o \in orMsgs'[p] :
              o \in orMsgs[p] \/ (o = or /\ Executes(z, or, m))
    PROVE  OrderInv' /\ Visible
<1>1. PICK z1 \in ZenoMutState : /\ z1 = check_and_execute_request(z, or, m, k)
                                 /\ RunEffect(z, z1, or, m, k)
  BY RunLemma
<1>2. zs' = [zs EXCEPT ![q] = z1] BY <1>1, Zenon DEF Run
<1>3. OrderlyServer(Ex, Invoked, z)
  <2>1. OrderlyServer(Ex, Invoked, zs[q]) BY DEF OrderInv
  <2>2. \A m1 \in Request, k1 \in Copy : z.thr[m1][k1].pc = "gotOr" =>
           \/ zs[q].thr[m1][k1].pc = "gotOr" /\ z.thr[m1][k1].or = zs[q].thr[m1][k1].or
           \/ /\ z.thr[m1][k1].or \in zs[q].pending_ors \cup {}
              /\ z.thr[m1][k1].or.n <= zs[q].n + 1
    BY ThreadMovesKeeps DEF Moves
  <2>3. Still({}, zs[q], z)
    BY <2>2 DEF Still, Tame, Moves
  <2> QED BY <2>1, <2>3, ServerStill
<1>4. ~Panics(z, or, m)
  <2>1. LogMatches(z) BY <1>3 DEF OrderlyServer, OrderlyLog
  <2>2. ~(or.n > z.n + 1) BY DEF OrderedRequest, ZenoMutState
  <2> QED BY <2>1, <2>2 DEF Panics
<1>5. Waits(z1) /\ Queue(z1) /\ Ran(z, z1, or, m, k) BY <1>1, <1>4, RunMoves
<1>6. Keeps(zs[q], z1, {m}, {})
  <2>1. Keeps(zs[q], z, {m}, {}) BY ThreadMovesKeeps DEF Moves, Keeps
  <2>2. Keeps(z, z1, {m}, {}) BY <1>5, RanKeeps
  <2> QED BY <2>1, <2>2, KeepsTransitive
<1>7. OneAtATime({m}, {}) BY DEF OneAtATime
<1>8. TypeOK BY DEF IInv
<1>9. /\ Invoked \subseteq Invoked'
      /\ StrongAnswers \subseteq StrongAnswers'
  BY <1>2, <1>6, <1>8, ClientsSee
<1>10. /\ Ex'[q] = IF Executes(z, or, m) THEN Ex[q] \cup {or} ELSE Ex[q]
       /\ Grows(Ex, Ex')
  <2>1. z.all_executed_reqs = zs[q].all_executed_reqs BY DEF Tame
  <2> QED BY <1>1, <1>2, <1>8, <2>1, RunGrows
<1>11. ASSUME Executes(z, or, m)
       PROVE  Made(Ex', Invoked', or)
  <2>1. CASE Made(Ex, Invoked, or) BY <1>9, <1>10, <2>1, MadeGrows
  <2>2. CASE or.i = q /\ q = get_primary_for_view(or.v) /\ InOrder(or.h)
    <3>1. or \in Ex'[or.i] BY <1>10, <1>11, <2>2
    <3>2. m \in Invoked'
      <4>1. z1.thr[m][k].pc # "new" BY <1>5 DEF Ran, Replying, Finished
      <4>2. zs'[q] = z1 BY <1>2, <1>8 DEF TypeOK
      <4> QED BY <4>1, <4>2 DEF Invoked
    <3>3. or.h = Append(z.h, m) /\ z.h \in Seq(Request)
      BY <1>11 DEF Executes, Checks, ZenoMutState
    <3>4. PICK h : h = or.h OBVIOUS
    <3>5. /\ Len(z.h) \in Nat
          /\ DOMAIN z.h = 1 .. Len(z.h) /\ DOMAIN h = 1 .. Len(z.h) + 1
          /\ h[Len(z.h) + 1] = m
          /\ \A j \in 1 .. Len(z.h) : h[j] = z.h[j]
      BY <3>3, <3>4, AppendAt
    <3>6. \A j \in DOMAIN z.h : z.h[j] \in Invoked
      BY <1>3 DEF OrderlyServer, OrderlyLog
    <3>7. \A j \in DOMAIN h : h[j] \in Invoked' BY <1>9, <3>2, <3>5, <3>6
    <3>8. h # <<>> BY <3>5
    <3> QED BY <2>2, <3>1, <3>4, <3>7, <3>8 DEF Made
  <2> QED BY <2>1, <2>2
<1>12. OrderlyServer(Ex', Invoked', z1)
  BY <1>1, <1>3, <1>5, <1>9, <1>10, <1>11, RunInOrder
<1>13. RepliesGiven(z1, StrongAnswers')
  <2>1. z1.replies = zs[q].replies BY <1>1 DEF RunEffect, Tame
  <2> QED BY <1>9, <2>1 DEF RepliesGiven, OrderInv
<1>14. \A p \in Replica : \A o \in orMsgs'[p] :
          o \in orMsgs[p] \/ Made(Ex', Invoked', o)
  BY <1>11
<1>15. PanicsOnSlice(z1) BY <1>5 DEF PanicsOnSlice, Ran, Moves
<1> QED BY <1>2, <1>6, <1>7, <1>10, <1>12, <1>13, <1>14, <1>15, OrderStep

-----------------------------------------------------------------------------
(* Every action                                                            *)

LEMMA InitOrder == Init => OrderInv
<1> SUFFICES ASSUME Init PROVE OrderInv
  OBVIOUS
<1>1. ASSUME NEW q \in Replica
      PROVE  OrderlyServer(Ex, Invoked, zs[q]) /\ PanicsOnSlice(zs[q])
  <2>1. PICK z : z = zs[q] /\ z = InitialState BY DEF Init
  <2>2. /\ z.n = -1 /\ ~z.poisoned /\ z.h = <<>> /\ z.all_executed_reqs = <<>>
        /\ z.pending_ors = {} /\ z.pending_commits = {}
        /\ \A m \in Request : z.reqs_without_ors[m] = 0 /\ z.reqs_without_commits[m] = 0
        /\ \A m \in Request, k \in Copy : z.thr[m][k].pc = "new"
    BY <2>1 DEF InitialState, NewThread
  <2>3. OrderlyLog(Ex, Invoked, z)
    <3>1. Len(<<>>) = 0 /\ DOMAIN <<>> = {} OBVIOUS
    <3> QED BY <2>2, <3>1 DEF OrderlyLog, LogMatches, InOrder, HasLast
  <2>4. Waits(z) BY <2>2 DEF Waits, WaitsFor
  <2>5. Queue(z) BY <2>2 DEF Queue, UniqueNs
  <2> QED BY <2>1, <2>2, <2>3, <2>4, <2>5
          DEF OrderlyServer, HandedOver, PanicsOnSlice
<1>2. \A q \in Replica : orMsgs[q] = {} BY DEF Init, Empty
<1>3. \A q \in Replica, c \in Client : zs[q].replies[c] = NoOr
  BY DEF Init, InitialState
<1> QED BY <1>1, <1>2, <1>3 DEF OrderInv

\* A change that concerns no thread, no channel and neither queue.
Aside(z, z1) ==
    /\ z1.n = z.n
    /\ z1.pending_ors = z.pending_ors /\ z1.pending_commits = z.pending_commits
    /\ z1.reqs_without_ors = z.reqs_without_ors
    /\ z1.reqs_without_commits = z.reqs_without_commits
    /\ z1.thr = z.thr

LEMMA AsideMoves ==
    ASSUME NEW z, NEW z1, Aside(z, z1), Waits(z), Queue(z)
    PROVE  /\ Waits(z1) /\ Queue(z1)
           /\ z1.poisoned = z.poisoned => Moves({}, z, z1)
BY DEF Aside, Moves, ThreadMoves, Waits, Queue, UniqueNs, IsNext, Waiting

LEMMA OnArrivalAside ==
    ASSUME IInv, OrderInv, NEW q \in Replica, NEW m \in Request
    PROVE  LET z == OnArrival(q, m)
           IN  /\ Aside(zs[q], z) /\ z.v = zs[q].v
               /\ z.poisoned = zs[q].poisoned
               /\ Moves({}, zs[q], z) /\ Waits(z) /\ Queue(z)
<1>1. zs[q] \in ZenoMutState BY DEF IInv, TypeOK
<1>2. /\ Aside(zs[q], OnArrival(q, m)) /\ OnArrival(q, m).v = zs[q].v
      /\ OnArrival(q, m).poisoned = zs[q].poisoned
  BY <1>1 DEF OnArrival, start_ihatetheprimary_timer, Aside, ZenoMutState
<1>3. Waits(zs[q]) /\ Queue(zs[q]) BY DEF OrderInv, OrderlyServer
<1> QED BY <1>2, <1>3, AsideMoves

\* A thread that was not waiting is replaced by one that does not wait either.
LEMMA SetThreadStill ==
    ASSUME NEW E, NEW I, NEW z \in ZenoMutState, OrderlyServer(E, I, z),
           NEW m \in Request, NEW k \in Copy,
           z.thr[m][k].pc \notin {"awaitOr", "awaitCommit"},
           NEW th, th.pc \in {"reply", "done"},
           NEW z1, SetsThread(z, z1, m, k, th),
           z1.h = z.h, z1.all_executed_reqs = z.all_executed_reqs,
           NEW N, NEW A, ThreadKeeps(m, z.thr[m][k], th, N, A)
    PROVE  Waits(z1) /\ Queue(z1) /\ Keeps(z, z1, N, A) /\ Still({}, z, z1)
<1>1. Waits(z) /\ Queue(z) BY DEF OrderlyServer
<1>2. /\ Waits(z1) /\ Queue(z1)
      /\ \A m1 \in Request, k1 \in Copy :
            z1.thr[m1][k1] = IF m1 = m /\ k1 = k THEN th ELSE z.thr[m1][k1]
  BY <1>1, SetThreadMoves
<1>3. Keeps(z, z1, N, A) BY <1>2 DEF Keeps, ThreadKeeps
<1>4. \A m1 \in Request, k1 \in Copy :
         z1.thr[m1][k1].pc = "gotOr" => z1.thr[m1][k1] = z.thr[m1][k1]
  BY <1>2
<1> QED BY <1>2, <1>3, <1>4 DEF Still, SetsThread

LEMMA AnswerFromCacheOrder ==
    ASSUME IInv, OrderInv, NEW q \in Replica, NEW m \in Request, NEW k \in Copy,
           AnswerFromCache(q, m, k)
    PROVE  OrderInv' /\ Visible
<1>1. PICK z \in ZenoMutState : z = zs[q] BY DEF IInv, TypeOK
<1>2. z.thr[m][k].pc = "new" BY <1>1 DEF AnswerFromCache, Arrives
<1>3. PICK or : or = z.replies[m.c] OBVIOUS
<1>4. PICK th : th = IF or = NoOr THEN Finished ELSE Replying(or) OBVIOUS
<1>5. th.pc \in {"reply", "done"} BY <1>4 DEF Finished, Replying
<1>6. PICK N, A : N = {m} /\ A = StrongAnswers OBVIOUS
<1>7. ThreadKeeps(m, z.thr[m][k], th, N, A)
  <2>1. AnswersStrong(th) => or # NoOr /\ th.or = or /\ or.d_req.s
    BY <1>4 DEF AnswersStrong, Finished, Replying
  <2>2. or # NoOr /\ or.d_req.s => or \in StrongAnswers
    BY <1>1, <1>3 DEF OrderInv, Client
  <2> QED BY <1>2, <1>5, <1>6, <2>1, <2>2 DEF ThreadKeeps, AnswersStrong
<1>8. OneAtATime(N, A) BY <1>6 DEF OneAtATime
<1> DEFINE z1 == [z EXCEPT !.thr[m][k] = th]
<1>9. zs' = [zs EXCEPT ![q] = z1] BY <1>1, <1>3, <1>4, Zenon DEF AnswerFromCache
<1>10. /\ SetsThread(z, z1, m, k, th)
       /\ z1.h = z.h /\ z1.all_executed_reqs = z.all_executed_reqs
       /\ z1.replies = z.replies
  BY DEF ZenoMutState, SetsThread
<1> HIDE DEF z1
<1>11. PICK S : S = {} OBVIOUS
<1>12. Waits(z1) /\ Queue(z1) /\ Keeps(zs[q], z1, N, A) /\ Still(S, zs[q], z1)
  <2>1. OrderlyServer(Ex, Invoked, z) BY <1>1 DEF OrderInv
  <2>2. z.thr[m][k].pc \notin {"awaitOr", "awaitCommit"} BY <1>2
  <2>3. Waits(z1) /\ Queue(z1) /\ Keeps(z, z1, N, A) /\ Still({}, z, z1)
    BY <1>1, <1>5, <1>7, <1>10, <2>1, <2>2, SetThreadStill
  <2> QED BY <1>1, <1>11, <2>3
<1>13. RepliesGiven(z1, StrongAnswers')
  <2>1. StrongAnswers \subseteq StrongAnswers' BY <1>9, <1>12, ClientsSee DEF IInv
  <2> QED BY <1>1, <1>10, <2>1 DEF RepliesGiven, OrderInv
<1>14. \A p \in Replica : \A o \in orMsgs'[p] : Made(Ex, Invoked, o)
  BY DEF AnswerFromCache, OrderInv
<1>15. \A o \in S : Made(Ex, Invoked, o) BY <1>11
<1>16. PanicsOnSlice(z1)
  BY <1>1, <1>10 DEF PanicsOnSlice, SetsThread, AnswerFromCache, Arrives, Up, Running
<1> QED BY <1>8, <1>9, <1>12, <1>13, <1>14, <1>15, <1>16, StillStep

LEMMA ExecuteQueuedOrder ==
    ASSUME IInv, OrderInv, NEW q \in Replica, NEW m \in Request, NEW k \in Copy,
           ExecuteQueued(q, m, k)
    PROVE  OrderInv' /\ Visible
<1>1. PICK z \in ZenoMutState : z = OnArrival(q, m) /\ Tame(zs[q], z)
  BY OnArrivalTame
<1>2. Aside(zs[q], z) /\ Moves({}, zs[q], z) /\ Waits(z) /\ Queue(z)
  BY <1>1, OnArrivalAside
<1>3. PICK or \in zs[q].pending_ors :
         /\ or.d_req = m /\ IsNext(zs[q], or)
         /\ Run(q, [z EXCEPT !.pending_ors = @ \ {or}], or, m, k)
  BY <1>1 DEF ExecuteQueued, IsQueued
<1>4. or \in OrderedRequest BY DEF IInv, TypeOK, ZenoMutState
<1>5. Made(Ex, Invoked, or) BY DEF OrderInv, OrderlyServer
<1>6. or \in z.pending_ors /\ IsNext(z, or) BY <1>2, <1>3 DEF Aside, IsNext
<1> DEFINE z1 == [z EXCEPT !.pending_ors = @ \ {or}]
<1>7. z1 \in ZenoMutState /\ Tame(zs[q], z1)
  BY <1>1, UnqueueTame, TameTransitive
<1>8. Moves({}, z, z1) /\ Waits(z1) /\ Queue(z1) /\ z1.thr = z.thr
  BY <1>2, <1>6, UnqueueMoves DEF Queue
<1>9. Run(q, z1, or, m, k) BY <1>3
<1> HIDE DEF z1
<1>10. Moves({}, zs[q], z1) BY <1>2, <1>8, MovesTransitive
<1>11. z1.thr[m][k].pc = "new"
  BY <1>2, <1>8 DEF Aside, ExecuteQueued, Arrives
<1>12. or.n <= z1.n + 1
  BY <1>4, <1>6, <1>8 DEF Moves, IsNext, OrderedRequest
<1>13. orMsgs' = orMsgs /\ ~zs[q].poisoned
  BY DEF ExecuteQueued, Arrives, Up, Running
<1> QED BY <1>3, <1>4, <1>5, <1>7, <1>8, <1>9, <1>10, <1>11, <1>12, <1>13,
           RunOrderStep

LEMMA OnArrivalOrderly ==
    ASSUME IInv, OrderInv, NEW q \in Replica, NEW m \in Request
    PROVE  OrderlyServer(Ex, Invoked, OnArrival(q, m))
<1>1. PICK z \in ZenoMutState : z = OnArrival(q, m) /\ Tame(zs[q], z)
  BY OnArrivalTame
<1>2. Aside(zs[q], z) /\ Waits(z) /\ Queue(z) BY <1>1, OnArrivalAside
<1>3. OrderlyServer(Ex, Invoked, zs[q]) BY DEF OrderInv
<1>4. PICK S : S = {} OBVIOUS
<1>5. Still(S, zs[q], z)
  BY <1>1, <1>2 DEF Still, Aside, Tame
<1>6. \A or \in S : Made(Ex, Invoked, or) BY <1>4
<1> QED BY <1>1, <1>2, <1>3, <1>5, <1>6, ServerStill

LEMMA OrderRequestOrder ==
    ASSUME IInv, OrderInv, NEW q \in Replica, NEW m \in Request, NEW k \in Copy,
           OrderRequest(q, m, k)
    PROVE  OrderInv' /\ Visible
<1>1. PICK z \in ZenoMutState : z = OnArrival(q, m) /\ Tame(zs[q], z)
  BY OnArrivalTame
<1>2. /\ Aside(zs[q], z) /\ z.v = zs[q].v
      /\ Moves({}, zs[q], z) /\ Waits(z) /\ Queue(z)
  BY <1>1, OnArrivalAside
<1>3. OrderlyServer(Ex, Invoked, z) BY <1>1, OnArrivalOrderly
<1>4. LogMatches(z) BY <1>3 DEF OrderlyServer, OrderlyLog
<1>5. z.thr[m][k].pc = "new" /\ ~zs[q].poisoned
  BY <1>2 DEF Aside, OrderRequest, Arrives, Up, Running
<1>6. CASE order_message(q, z, m) = NoOr
  <2>1. PICK th : th = Finished OBVIOUS
  <2> DEFINE z1 == [z EXCEPT !.thr[m][k] = th]
  <2>2. zs' = [zs EXCEPT ![q] = z1] /\ orMsgs' = orMsgs
    BY <1>1, <1>4, <1>6, <2>1, Zenon DEF OrderRequest
  <2>3. /\ SetsThread(z, z1, m, k, th)
        /\ z1.h = z.h /\ z1.all_executed_reqs = z.all_executed_reqs
        /\ z1.replies = z.replies
    BY DEF ZenoMutState, SetsThread
  <2> HIDE DEF z1
  <2>4. PICK N, A, S : N = {m} /\ A = {} /\ S = {} OBVIOUS
  <2>5. th.pc \in {"reply", "done"} BY <2>1 DEF Finished
  <2>6. ThreadKeeps(m, z.thr[m][k], th, N, A)
    BY <1>5, <2>1, <2>4 DEF ThreadKeeps, AnswersStrong, Finished
  <2>7. OneAtATime(N, A) BY <2>4 DEF OneAtATime
  <2>8. z.thr[m][k].pc \notin {"awaitOr", "awaitCommit"} BY <1>5
  <2>9. Waits(z1) /\ Queue(z1) /\ Keeps(z, z1, N, A) /\ Still(S, z, z1)
    <3>1. Waits(z1) /\ Queue(z1) /\ Keeps(z, z1, N, A) /\ Still({}, z, z1)
      BY <1>1, <1>3, <2>3, <2>5, <2>6, <2>8, SetThreadStill
    <3> QED BY <2>4, <3>1
  <2>10. Keeps(zs[q], z1, N, A) /\ Still(S, zs[q], z1)
    BY <1>1, <1>2, <2>9 DEF Aside, Tame, Keeps, Still
  <2>11. RepliesGiven(z1, StrongAnswers')
    <3>1. StrongAnswers \subseteq StrongAnswers' BY <2>2, <2>10, ClientsSee DEF IInv
    <3>2. z1.replies = zs[q].replies BY <1>1, <2>3 DEF Tame
    <3> QED BY <3>1, <3>2 DEF RepliesGiven, OrderInv
  <2>12. \A p \in Replica : \A o \in orMsgs'[p] : Made(Ex, Invoked, o)
    BY <2>2 DEF OrderInv
  <2>13. \A o \in S : Made(Ex, Invoked, o) BY <2>4
  <2>14. PanicsOnSlice(z1)
    BY <1>1, <1>2, <1>5, <2>3, OnArrivalAside DEF PanicsOnSlice, SetsThread
  <2> QED BY <2>2, <2>7, <2>9, <2>10, <2>11, <2>12, <2>13, <2>14, StillStep
<1>7. CASE order_message(q, z, m) # NoOr
  <2>1. PICK or \in OrderedRequest : or = order_message(q, z, m) /\ or.d_req = m
    BY <1>7, order_messageType
  <2>2. orMsgs' = send_to_all(orMsgs, q, or) /\ Run(q, z, or, m, k)
    BY <1>1, <1>4, <1>7, <2>1, Zenon DEF OrderRequest
  <2>3. LastT(z, m.c) + 1 = m.t BY <1>7 DEF order_message
  <2>4. or.v = z.v /\ or.n = z.n + 1 /\ or.h = Append(z.h, m) /\ or.i = q
    BY <2>1, <2>3 DEF order_message
  <2>5. InOrder(or.h)
    <3>1. /\ InOrder(z.h) /\ HasLast(z.h)
          /\ Len(z.all_executed_reqs) = Len(z.h)
      BY <1>3 DEF OrderlyServer, OrderlyLog, LogMatches
    <3>2. DOMAIN z.h = DOMAIN z.all_executed_reqs BY <3>1 DEF ZenoMutState
    <3>3. \A j \in DOMAIN z.h : z.all_executed_reqs[j].d_req = z.h[j]
      BY <1>3, <3>2 DEF OrderlyServer, OrderlyLog
    <3> QED BY <2>3, <2>4, <3>1, <3>3, InOrderAppend
  <2>6. Executes(z, or, m)
    BY <1>4, <2>4 DEF Executes, Checks, ZenoMutState
  <2>7. q = get_primary_for_view(or.v)
    BY <1>2, <2>4 DEF OrderRequest, is_primary
  <2>8. or.n <= z.n + 1 BY <2>4 DEF ZenoMutState
  <2>9. \A p \in Replica : \A o \in orMsgs'[p] :
           o \in orMsgs[p] \/ (o = or /\ Executes(z, or, m))
    BY <2>2, <2>6 DEF send_to_all, IInv, TypeOK
  <2>10. z.thr[m][k].pc \in {"new", "gotOr"} BY <1>5
  <2>11. \/ Made(Ex, Invoked, or)
         \/ or.i = q /\ q = get_primary_for_view(or.v) /\ InOrder(or.h)
    BY <2>4, <2>5, <2>7
  <2>12. Run(q, z, or, m, k) BY <2>2
  <2>13. or.d_req = m BY <2>1
  <2>14. Tame(zs[q], z) /\ Moves({}, zs[q], z) /\ Waits(z) /\ Queue(z)
    BY <1>1, <1>2
  <2> QED BY <1>5, <2>8, <2>9, <2>10, <2>11, <2>12, <2>13, <2>14, RunOrderStep
<1> QED BY <1>6, <1>7

LEMMA AwaitOrOrder ==
    ASSUME IInv, OrderInv, NEW q \in Replica, NEW m \in Request, NEW k \in Copy,
           AwaitOr(q, m, k)
    PROVE  OrderInv' /\ Visible
<1>1. PICK z \in ZenoMutState : z = OnArrival(q, m) /\ Tame(zs[q], z)
  BY OnArrivalTame
<1>2. /\ Aside(zs[q], z) /\ Waits(z) /\ Queue(z)
      /\ z.poisoned = zs[q].poisoned
  BY <1>1, OnArrivalAside
<1>3. OrderlyServer(Ex, Invoked, z) BY <1>1, OnArrivalOrderly
<1>4. z.thr[m][k].pc = "new" BY <1>2 DEF Aside, AwaitOr, Arrives
<1>5. \A or \in z.pending_ors : or.d_req = m => ~IsNext(z, or)
  BY <1>2 DEF AwaitOr, IsQueued, IsNext, Aside
<1> DEFINE z1 == [DropOrSender(z, m) EXCEPT !.reqs_without_ors[m] = k,
                                            !.thr[m][k].pc = "awaitOr"]
<1>6. zs' = [zs EXCEPT ![q] = z1] BY <1>1, Zenon DEF AwaitOr
<1>7. /\ Waits(z1)
      /\ Queue(z) /\ (\A or \in z.pending_ors : or.d_req = m => ~IsNext(z, or))
            => Queue(z1)
      /\ z1.poisoned = z.poisoned /\ z1.n = z.n
      /\ z1.pending_ors = z.pending_ors
      /\ \A m1 \in Request, k1 \in Copy :
            IF m1 = m /\ k1 = k THEN z1.thr[m1][k1].pc = "awaitOr"
            ELSE ThreadMoves({}, z.n + 1, z.thr[m1][k1], z1.thr[m1][k1])
  BY <1>2, <1>4, AwaitOrMoves
<1>8. /\ z1.h = z.h /\ z1.all_executed_reqs = z.all_executed_reqs
      /\ z1.replies = z.replies
  BY <1>4, AwaitOrEffect
<1> HIDE DEF z1
<1>9. PICK N, A, S : N = {m} /\ A = {} /\ S = {} OBVIOUS
<1>10. \A m1 \in Request, k1 \in Copy :
          /\ ThreadKeeps(m1, zs[q].thr[m1][k1], z1.thr[m1][k1], N, A)
          /\ z1.thr[m1][k1].pc = "gotOr" => zs[q].thr[m1][k1].pc = "gotOr" /\
                z1.thr[m1][k1].or = zs[q].thr[m1][k1].or
  <2> SUFFICES ASSUME NEW m1 \in Request, NEW k1 \in Copy
               PROVE  /\ ThreadKeeps(m1, z.thr[m1][k1], z1.thr[m1][k1], N, A)
                      /\ z1.thr[m1][k1].pc = "gotOr" => z.thr[m1][k1].pc = "gotOr" /\
                            z1.thr[m1][k1].or = z.thr[m1][k1].or
    BY <1>2 DEF Aside
  <2>1. CASE m1 = m /\ k1 = k
    BY <1>4, <1>7, <1>9, <2>1 DEF ThreadKeeps, AnswersStrong
  <2>2. CASE ~(m1 = m /\ k1 = k)
    <3>1. ThreadMoves({}, z.n + 1, z.thr[m1][k1], z1.thr[m1][k1]) BY <1>7, <2>2
    <3> QED BY <3>1, ThreadMovesKeeps
  <2> QED BY <2>1, <2>2
<1>11. Keeps(zs[q], z1, N, A) BY <1>10 DEF Keeps
<1>12. Still(S, zs[q], z1)
  BY <1>1, <1>2, <1>7, <1>8, <1>10 DEF Still, Aside, Tame
<1>13. OneAtATime(N, A) BY <1>9 DEF OneAtATime
<1>14. RepliesGiven(z1, StrongAnswers')
  <2>1. StrongAnswers \subseteq StrongAnswers' BY <1>6, <1>11, ClientsSee DEF IInv
  <2>2. z1.replies = zs[q].replies BY <1>1, <1>8 DEF Tame
  <2> QED BY <2>1, <2>2 DEF RepliesGiven, OrderInv
<1>15. \A p \in Replica : \A o \in orMsgs'[p] : Made(Ex, Invoked, o)
  BY DEF AwaitOr, OrderInv
<1>16. \A o \in S : Made(Ex, Invoked, o) BY <1>9
<1>17. Waits(z1) /\ Queue(z1) BY <1>2, <1>5, <1>7
<1>18. PanicsOnSlice(z1)
  BY <1>2, <1>7 DEF PanicsOnSlice, AwaitOr, Arrives, Up, Running
<1> QED BY <1>6, <1>11, <1>12, <1>13, <1>14, <1>15, <1>16, <1>17, <1>18,
           StillStep

LEMMA ExecuteReceivedOrder ==
    ASSUME IInv, OrderInv, NEW q \in Replica, NEW m \in Request, NEW k \in Copy,
           ExecuteReceived(q, m, k)
    PROVE  OrderInv' /\ Visible
<1>1. zs[q] \in ZenoMutState BY DEF IInv, TypeOK
<1>2. PICK z \in ZenoMutState : z = DropOrSender(zs[q], m) /\ Tame(zs[q], z)
  BY <1>1, DropOrSenderTame
<1>3. OrderlyServer(Ex, Invoked, zs[q]) BY DEF OrderInv
<1>4. Moves({}, zs[q], z) /\ Waits(z) /\ Queue(z)
  <2>1. Waits(zs[q]) /\ Queue(zs[q]) BY <1>3 DEF OrderlyServer
  <2>2. PICK S : S = {} OBVIOUS
  <2>3. Moves(S, zs[q], z) /\ Waits(z) /\ Queue(z)
    BY <1>1, <1>2, <2>1, DropOrSenderMoves
  <2> QED BY <2>2, <2>3
<1>5. zs[q].thr[m][k].pc = "gotOr" BY DEF ExecuteReceived
<1>6. PICK or \in OrderedRequest : or = zs[q].thr[m][k].or
  BY <1>1, <1>5, GotOrType
<1>7. or.d_req = m BY <1>5, <1>6 DEF IInv, GoodServer, ThreadOK
<1>8. Run(q, z, or, m, k) BY <1>2, <1>6 DEF ExecuteReceived
<1>9. z.thr[m][k].pc \in {"new", "gotOr"}
  BY <1>4, <1>5 DEF Moves, ThreadMoves
<1>10. Made(Ex, Invoked, or) /\ or.n <= z.n + 1
  BY <1>2, <1>3, <1>5, <1>6 DEF OrderlyServer, HandedOver, Tame
<1>11. orMsgs' = orMsgs /\ ~zs[q].poisoned BY DEF ExecuteReceived, Running
<1> QED BY <1>2, <1>4, <1>7, <1>8, <1>9, <1>10, <1>11, RunOrderStep

LEMMA StoreCertificateOrder ==
    ASSUME IInv, OrderInv, NEW q \in Replica, NEW m \in Request, NEW k \in Copy,
           StoreCertificate(q, m, k)
    PROVE  OrderInv' /\ Visible
<1>1. PICK z \in ZenoMutState : z = zs[q] BY DEF IInv, TypeOK
<1>2. z.thr[m][k].pc = "awaitCommit" /\ HasQuorum(z.thr[m][k].cert)
  BY <1>1 DEF StoreCertificate
<1>3. OrderlyServer(Ex, Invoked, z) BY <1>1 DEF OrderInv
<1>4. Waits(z) /\ Queue(z) BY <1>3 DEF OrderlyServer
<1>5. PICK or : or = z.thr[m][k].or OBVIOUS
<1>7. PICK z1 : z1 = Certify(z, m, k) OBVIOUS
<1>8. zs' = [zs EXCEPT ![q] = z1] BY <1>1, <1>7 DEF StoreCertificate
<1>9. /\ z1.h = z.h /\ z1.all_executed_reqs = z.all_executed_reqs
      /\ z1.replies = z.replies
  BY <1>2, <1>7, CertifyEffect
<1>10. /\ Waits(z1) /\ Queue(z1)
       /\ z1.poisoned = z.poisoned /\ z1.n = z.n
       /\ z1.pending_ors = z.pending_ors
       /\ \A m1 \in Request, k1 \in Copy :
             IF m1 = m /\ k1 = k THEN z1.thr[m1][k1] = Replying(or)
             ELSE ThreadMoves({}, z.n + 1, z.thr[m1][k1], z1.thr[m1][k1])
  BY <1>2, <1>4, <1>5, <1>7, CertifyMoves
<1>11. PICK N, A, S : N = {} /\ A = {or} /\ S = {} OBVIOUS
<1>12. \A m1 \in Request, k1 \in Copy :
          /\ ThreadKeeps(m1, z.thr[m1][k1], z1.thr[m1][k1], N, A)
          /\ z1.thr[m1][k1].pc = "gotOr" => z.thr[m1][k1].pc = "gotOr" /\
                z1.thr[m1][k1].or = z.thr[m1][k1].or
  <2> SUFFICES ASSUME NEW m1 \in Request, NEW k1 \in Copy
               PROVE  /\ ThreadKeeps(m1, z.thr[m1][k1], z1.thr[m1][k1], N, A)
                      /\ z1.thr[m1][k1].pc = "gotOr" => z.thr[m1][k1].pc = "gotOr" /\
                            z1.thr[m1][k1].or = z.thr[m1][k1].or
    OBVIOUS
  <2>1. CASE m1 = m /\ k1 = k
    BY <1>2, <1>10, <1>11, <2>1 DEF ThreadKeeps, AnswersStrong, Replying
  <2>2. CASE ~(m1 = m /\ k1 = k)
    <3>1. ThreadMoves({}, z.n + 1, z.thr[m1][k1], z1.thr[m1][k1]) BY <1>10, <2>2
    <3> QED BY <3>1, ThreadMovesKeeps
  <2> QED BY <2>1, <2>2
<1>13. Keeps(zs[q], z1, N, A) BY <1>1, <1>12 DEF Keeps
<1>14. Still(S, zs[q], z1) BY <1>1, <1>9, <1>10, <1>12 DEF Still
<1>15. OneAtATime(N, A) BY <1>11 DEF OneAtATime
<1>16. RepliesGiven(z1, StrongAnswers')
  <2>1. StrongAnswers \subseteq StrongAnswers' BY <1>8, <1>13, ClientsSee DEF IInv
  <2> QED BY <1>1, <1>9, <2>1 DEF RepliesGiven, OrderInv
<1>17. \A p \in Replica : \A o \in orMsgs'[p] : Made(Ex, Invoked, o)
  BY DEF StoreCertificate, OrderInv
<1>18. \A o \in S : Made(Ex, Invoked, o) BY <1>11
<1>19. PanicsOnSlice(z1)
  BY <1>1, <1>10 DEF PanicsOnSlice, StoreCertificate, Running
<1> QED BY <1>8, <1>10, <1>13, <1>14, <1>15, <1>16, <1>17, <1>18, <1>19,
           StillStep

LEMMA CacheReplyOrder ==
    ASSUME IInv, OrderInv, NEW q \in Replica, NEW m \in Request, NEW k \in Copy,
           CacheReply(q, m, k)
    PROVE  OrderInv' /\ Visible
<1>1. PICK z \in ZenoMutState : z = zs[q] BY DEF IInv, TypeOK
<1>2. z.thr[m][k] \in Thread /\ z.thr[m][k].pc = "reply"
  BY <1>1 DEF CacheReply, ZenoMutState
<1>3. PICK or : or = z.thr[m][k].or OBVIOUS
<1>4. PICK th : th = [z.thr[m][k] EXCEPT !.pc = "done"] OBVIOUS
<1>5. th.pc = "done" /\ th.or = or
  <2>1. z.thr[m][k] \in [pc : {"gotOr", "awaitCommit", "reply", "done"},
                         or : OrderedRequest, cert : CommitCertificate]
    BY <1>2 DEF Thread
  <2> QED BY <1>3, <1>4, <2>1
<1>6. PICK N, A : N = {} /\ A = {} OBVIOUS
<1>7. ThreadKeeps(m, z.thr[m][k], th, N, A)
  BY <1>2, <1>3, <1>5 DEF ThreadKeeps, AnswersStrong
<1>8. OneAtATime(N, A) BY <1>6 DEF OneAtATime
<1> DEFINE z1 == [z EXCEPT !.replies[m.c] = or, !.thr[m][k] = th]
<1>9. zs' = [zs EXCEPT ![q] = z1]
  <2>1. zs' = [zs EXCEPT ![q].replies[m.c] = zs[q].thr[m][k].or,
                         ![q].thr[m][k].pc = "done"]
    BY DEF CacheReply
  <2> QED BY <1>1, <1>3, <1>4, <2>1 DEF IInv, TypeOK, ZenoMutState
<1>10. /\ SetsThread(z, z1, m, k, th)
       /\ z1.h = z.h /\ z1.all_executed_reqs = z.all_executed_reqs
  BY DEF ZenoMutState, SetsThread
<1>11. \A c \in Client : z1.replies[c] \in {z.replies[c], or}
  BY DEF ZenoMutState
<1> HIDE DEF z1
<1>12. Waits(z1) /\ Queue(z1) /\ Keeps(z, z1, N, A) /\ Still({}, z, z1)
  <2>1. OrderlyServer(Ex, Invoked, z) BY <1>1 DEF OrderInv
  <2>2. z.thr[m][k].pc \notin {"awaitOr", "awaitCommit"} BY <1>2
  <2>3. th.pc \in {"reply", "done"} BY <1>5
  <2> QED BY <1>1, <1>7, <1>10, <2>1, <2>2, <2>3, SetThreadStill
<1>13. PICK S : S = {} OBVIOUS
<1>14. Keeps(zs[q], z1, N, A) /\ Still(S, zs[q], z1) BY <1>1, <1>12, <1>13
<1>15. RepliesGiven(z1, StrongAnswers')
  <2>1. StrongAnswers \subseteq StrongAnswers' BY <1>9, <1>14, ClientsSee DEF IInv
  <2>2. or # NoOr /\ or.d_req.s => or \in StrongAnswers
    BY <1>1, <1>2, <1>3 DEF StrongAnswers, Threads, AnswersStrong
  <2> QED BY <1>1, <1>11, <2>1, <2>2 DEF RepliesGiven, OrderInv
<1>16. \A p \in Replica : \A o \in orMsgs'[p] : Made(Ex, Invoked, o)
  BY DEF CacheReply, OrderInv
<1>17. \A o \in S : Made(Ex, Invoked, o) BY <1>13
<1>18. PanicsOnSlice(z1)
  BY <1>1, <1>10 DEF PanicsOnSlice, SetsThread, CacheReply, Running
<1> QED BY <1>8, <1>9, <1>12, <1>14, <1>15, <1>16, <1>17, <1>18, StillStep

LEMMA on_ordered_requestOrder ==
    ASSUME IInv, OrderInv, NEW q \in Replica, NEW or \in orMsgs[q],
           on_ordered_request(q, or)
    PROVE  OrderInv' /\ Visible
<1>1. zs[q] \in ZenoMutState /\ or \in OrderedRequest BY DEF IInv, TypeOK
<1>2. PICK z0 \in ZenoMutState :
         z0 = stop_ihatetheprimary_timer(zs[q]) /\ Tame(zs[q], z0)
  BY <1>1, TimerTame
<1>3. Waits(zs[q]) /\ Queue(zs[q]) BY DEF OrderInv, OrderlyServer
<1>4. Aside(zs[q], z0)
  BY <1>1, <1>2 DEF stop_ihatetheprimary_timer, Aside, ZenoMutState
<1>5. /\ Waits(z0) /\ Queue(z0)
      /\ z0.poisoned = zs[q].poisoned /\ ~zs[q].poisoned
  <2>1. z0.poisoned = zs[q].poisoned
    BY <1>1, <1>2 DEF stop_ihatetheprimary_timer, ZenoMutState
  <2> QED BY <1>3, <1>4, <2>1, AsideMoves DEF on_ordered_request, Up, Running
<1>6. PICK S : S = {or} OBVIOUS
<1>7. PICK z1 : z1 = IF FromPrimary(zs[q], or) THEN process_or(z0, or) ELSE zs[q]
  OBVIOUS
<1>8. zs' = [zs EXCEPT ![q] = z1]
  BY <1>2, <1>7, Zenon DEF on_ordered_request
<1>9. Moves(S, zs[q], z1) /\ Waits(z1) /\ Queue(z1) /\ Tame(zs[q], z1)
  <2>1. CASE z1 = zs[q] BY <1>3, <2>1, NoMoves DEF Tame
  <2>2. CASE z1 = process_or(z0, or)
    <3>1. Moves(S, z0, z1) /\ Waits(z1) /\ Queue(z1)
      BY <1>1, <1>5, <1>6, <2>2, process_orMoves
    <3>2. Moves(S, zs[q], z1) BY <1>4, <1>5, <3>1 DEF Aside, Moves
    <3>3. Tame(zs[q], z1) BY <1>1, <1>2, <2>2, process_orTame, TameTransitive
    <3> QED BY <3>1, <3>2, <3>3
  <2> QED BY <1>7, <2>1, <2>2
<1>10. \A p \in Replica : \A o \in orMsgs'[p] : Made(Ex, Invoked, o)
  BY DEF on_ordered_request, Handled, OrderInv, IInv, TypeOK
<1>11. \A o \in S : Made(Ex, Invoked, o) BY <1>6 DEF OrderInv
<1>12. /\ z1.h = zs[q].h /\ z1.all_executed_reqs = zs[q].all_executed_reqs
       /\ z1.replies = zs[q].replies
  BY <1>9 DEF Tame
<1> QED BY <1>5, <1>8, <1>9, <1>10, <1>11, <1>12, MovesStep

\* The commits a thread collected are by different servers.
LEMMA CertificateFinite ==
    ASSUME IInv, NEW q \in Replica, NEW m \in Request, NEW k \in Copy
    PROVE  IsFiniteSet(zs[q].thr[m][k].cert)
<1>1. PICK th \in Thread : th = zs[q].thr[m][k] BY DEF IInv, TypeOK, ZenoMutState
<1>2. CASE th.cert = {} BY <1>1, <1>2, FS_EmptySet
<1>3. CASE th.cert # {}
  <2>1. th.cert \in CommitCertificate
    BY <1>3 DEF Thread, NewThread, Finished, CommitCertificate
  <2>2. \A cm \in th.cert : cm.or = th.or
    BY <1>1 DEF IInv, GoodServer, ThreadOK
  <2>3. \A cm \in th.cert : cm.j \in Replica /\ cm = [or |-> th.or, j |-> cm.j]
    BY <2>1, <2>2 DEF CommitCertificate, Commit
  <2> DEFINE J == {cm.j : cm \in th.cert}
             f == [j \in J |-> [or |-> th.or, j |-> j]]
  <2>4. f \in Surjection(J, th.cert) BY <2>3 DEF Surjection
  <2>5. IsFiniteSet(J) BY <2>3, ReplicaAssumption, FS_Subset
  <2> HIDE DEF J, f
  <2> QED BY <1>1, <2>4, <2>5, FS_Surjection
<1> QED BY <1>2, <1>3

LEMMA on_commitOrder ==
    ASSUME IInv, OrderInv, NEW q \in Replica, NEW cm \in commitMsgs[q],
           on_commit(q, cm)
    PROVE  OrderInv' /\ Visible
<1>1. PICK z \in ZenoMutState : z = zs[q] BY DEF IInv, TypeOK
<1>2. cm \in Commit BY DEF IInv, TypeOK
<1>3. OrderlyServer(Ex, Invoked, z) BY <1>1 DEF OrderInv
<1>4. Waits(z) /\ Queue(z) BY <1>3 DEF OrderlyServer
<1>5. \A m \in Request, k \in Copy : IsFiniteSet(z.thr[m][k].cert)
  BY <1>1, CertificateFinite
<1>6. PICK z1 : z1 = AddCommit(z, cm) OBVIOUS
<1>7. zs' = [zs EXCEPT ![q] = z1] BY <1>1, <1>6 DEF on_commit
<1>8. /\ z1.h = z.h /\ z1.all_executed_reqs = z.all_executed_reqs
      /\ z1.replies = z.replies
  BY <1>2, <1>6, AddCommitEffect
<1>9. /\ Waits(z1) /\ Queue(z1)
      /\ z1.poisoned = z.poisoned /\ z1.n = z.n
      /\ z1.pending_ors = z.pending_ors
      /\ \A m \in Request, k \in Copy :
            /\ z1.thr[m][k].pc = z.thr[m][k].pc
            /\ z1.thr[m][k].or = z.thr[m][k].or
  BY <1>2, <1>4, <1>5, <1>6, AddCommitMoves
<1>10. PICK N, A, S : N = {} /\ A = {} /\ S = {} OBVIOUS
<1>11. Keeps(zs[q], z1, N, A)
  BY <1>1, <1>9 DEF Keeps, ThreadKeeps, AnswersStrong
<1>12. Still(S, zs[q], z1)
  BY <1>1, <1>8, <1>9 DEF Still
<1>13. OneAtATime(N, A) BY <1>10 DEF OneAtATime
<1>14. RepliesGiven(z1, StrongAnswers')
  <2>1. StrongAnswers \subseteq StrongAnswers' BY <1>7, <1>11, ClientsSee DEF IInv
  <2> QED BY <1>1, <1>8, <2>1 DEF RepliesGiven, OrderInv
<1>15. \A p \in Replica : \A o \in orMsgs'[p] : Made(Ex, Invoked, o)
  BY DEF on_commit, OrderInv
<1>16. \A o \in S : Made(Ex, Invoked, o) BY <1>10
<1>17. PanicsOnSlice(z1)
  BY <1>1, <1>9 DEF PanicsOnSlice, on_commit, Up, Running
<1> QED BY <1>7, <1>9, <1>11, <1>12, <1>13, <1>14, <1>15, <1>16, <1>17, StillStep

\* A step that neither executes nor touches a thread.
LEMMA AsideStep ==
    ASSUME IInv, OrderInv, NEW q \in Replica, NEW z1,
           zs' = [zs EXCEPT ![q] = z1], Aside(zs[q], z1), PanicsOnSlice(z1),
           z1.h = zs[q].h, z1.all_executed_reqs = zs[q].all_executed_reqs,
           z1.replies = zs[q].replies,
           \A p \in Replica : \A or \in orMsgs'[p] : Made(Ex, Invoked, or)
    PROVE  OrderInv' /\ Visible
<1>1. Waits(zs[q]) /\ Queue(zs[q]) BY DEF OrderInv, OrderlyServer
<1>2. Waits(z1) /\ Queue(z1) BY <1>1, AsideMoves
<1>3. PICK N, A, S : N = {} /\ A = {} /\ S = {} OBVIOUS
<1>4. Keeps(zs[q], z1, N, A) BY DEF Aside, Keeps, ThreadKeeps
<1>5. Still(S, zs[q], z1) BY DEF Aside, Still
<1>6. OneAtATime(N, A) BY <1>3 DEF OneAtATime
<1>7. StrongAnswers \subseteq StrongAnswers' BY <1>4, ClientsSee DEF IInv
<1>8. RepliesGiven(z1, StrongAnswers') BY <1>7 DEF RepliesGiven, OrderInv
<1>9. \A or \in S : Made(Ex, Invoked, or) BY <1>3
<1> QED BY <1>2, <1>4, <1>5, <1>6, <1>8, <1>9, StillStep

LEMMA on_fillholeOrder ==
    ASSUME IInv, OrderInv, NEW q \in Replica, NEW fhm \in fillHoleMsgs[q],
           on_fillhole(q, fhm)
    PROVE  OrderInv' /\ Visible
<1>1. zs' = [zs EXCEPT ![q] = zs[q]] BY DEF on_fillhole, IInv, TypeOK
<1> DEFINE all == zs[q].all_executed_reqs
           hole == {all[n + 1] : n \in {x \in fhm.n + 1 .. fhm.or_n - 1 :
                                            x + 1 \in DOMAIN all}}
<1>2. \A or \in hole : Made(Ex, Invoked, or)
  BY DEF OrderInv, OrderlyServer, OrderlyLog
<1>3. orMsgs' = IF fhm.i \in Live \ {q}
                THEN [orMsgs EXCEPT ![fhm.i] = @ \cup hole] ELSE orMsgs
  BY Zenon DEF on_fillhole
<1> HIDE DEF hole
<1>4. \A p \in Replica : \A or \in orMsgs'[p] : Made(Ex, Invoked, or)
  BY <1>2, <1>3 DEF OrderInv, IInv, TypeOK
<1>5. Aside(zs[q], zs[q]) /\ PanicsOnSlice(zs[q]) BY DEF Aside, OrderInv
<1> QED BY <1>1, <1>4, <1>5, AsideStep

LEMMA TimerExpiresOrder ==
    ASSUME IInv, OrderInv, NEW q \in Replica, TimerExpires(q)
    PROVE  OrderInv' /\ Visible
<1>1. zs[q] \in ZenoMutState BY DEF IInv, TypeOK
<1> DEFINE F  == zs[q].firing \cup {zs[q].timer}
           z1 == [zs[q] EXCEPT !.timer = -1, !.firing = F]
<1>2. zs' = [zs EXCEPT ![q] = z1]
  BY <1>1 DEF TimerExpires, IInv, TypeOK, ZenoMutState
<1> HIDE DEF F
<1>3. /\ Aside(zs[q], z1)
      /\ z1.h = zs[q].h /\ z1.all_executed_reqs = zs[q].all_executed_reqs
      /\ z1.replies = zs[q].replies /\ z1.poisoned = zs[q].poisoned
  BY <1>1 DEF ZenoMutState, Aside
<1> HIDE DEF z1
<1>4. \A p \in Replica : \A or \in orMsgs'[p] : Made(Ex, Invoked, or)
  BY DEF TimerExpires, OrderInv
<1>5. PanicsOnSlice(z1) BY <1>3 DEF PanicsOnSlice, TimerExpires, Running
<1> QED BY <1>2, <1>3, <1>4, <1>5, AsideStep

\* The log reaches beyond the last certificate, whose commits are of an OR in
\* the log, and none of those has a number past its place.
LEMMA SuffixExists ==
    ASSUME IInv, OrderInv, Calm, NEW q \in Replica
    PROVE  HasSuffix(zs[q])
<1>1. PICK z \in ZenoMutState : z = zs[q] BY DEF IInv, TypeOK
<1>2. OrderlyLog(Ex, Invoked, z) BY <1>1 DEF OrderInv, OrderlyServer
<1> SUFFICES ASSUME z.last_cc # {}
             PROVE  CcN(z.last_cc) + 1 <= Len(z.all_executed_reqs)
  BY <1>1 DEF HasSuffix
<1>3. PICK cm \in z.last_cc : CcN(z.last_cc) = cm.or.n BY DEF CcN
<1>4. z.all_executed_reqs \in Seq(OrderedRequest) BY DEF ZenoMutState
<1>5. /\ Len(z.all_executed_reqs) \in Nat
      /\ DOMAIN z.all_executed_reqs = 1 .. Len(z.all_executed_reqs)
  BY <1>4
<1>6. PICK k \in DOMAIN z.all_executed_reqs : z.all_executed_reqs[k] = cm.or
  BY <1>1, <1>3 DEF Calm, Ex, Range
<1>7. cm.or.n \in Nat
  <2>1. z.all_executed_reqs[k] \in OrderedRequest BY <1>4, <1>5, <1>6
  <2> QED BY <1>6, <2>1 DEF OrderedRequest
<1>8. cm.or.n <= k - 1 BY <1>2, <1>6 DEF OrderlyLog
<1> QED BY <1>3, <1>5, <1>7, <1>8

-----------------------------------------------------------------------------
(* What servers report of a view they leave                                *)

LEMMA ReportGrows ==
    ASSUME NEW E, NEW I, NEW E1, NEW I1, Grows(E, E1), I \subseteq I1,
           NEW vc \in ViewChange, ReportMade(E, I, vc)
    PROVE  ReportMade(E1, I1, vc)
<1>1. vc.o \in Seq(OrderedRequest) BY DEF ViewChange
<1>2. \A i \in DOMAIN vc.o : vc.o[i] \in OrderedRequest BY <1>1
<1> QED BY <1>2, MadeGrows DEF ReportMade

\* A step after which every report is an old one or speaks of ORs that were
\* made.
LEMMA ReportStep ==
    ASSUME IInv, ReportInv, Grows(Ex, Ex'), Invoked \subseteq Invoked',
           \A p \in Replica : \A vc \in zs'[p].view_changes \cup viewChangeMsgs'[p] :
              \/ vc \in zs[p].view_changes \cup viewChangeMsgs[p]
              \/ vc \in ViewChange /\ ReportMade(Ex, Invoked, vc),
           \A p \in Replica : \A nvm \in newViewMsgs'[p] :
              \/ nvm \in newViewMsgs[p]
              \/ /\ nvm \in NewView
                 /\ \A i \in DOMAIN nvm.p : ReportMade(Ex, Invoked, nvm.p[i])
    PROVE  ReportInv'
<1>1. ASSUME NEW p \in Replica,
             NEW vc \in zs'[p].view_changes \cup viewChangeMsgs'[p]
      PROVE  ReportMade(Ex', Invoked', vc)
  <2>1. vc \in ViewChange BY DEF IInv, TypeOK, ZenoMutState
  <2>2. ReportMade(Ex, Invoked, vc) BY DEF ReportInv
  <2> QED BY <2>1, <2>2, ReportGrows
<1>2. ASSUME NEW p \in Replica, NEW nvm \in newViewMsgs'[p], NEW i \in DOMAIN nvm.p
      PROVE  ReportMade(Ex', Invoked', nvm.p[i])
  <2>1. nvm \in NewView BY DEF IInv, TypeOK
  <2>2. nvm.p \in Seq(ViewChange) BY <2>1 DEF NewView
  <2>3. nvm.p[i] \in ViewChange BY <2>2
  <2>4. ReportMade(Ex, Invoked, nvm.p[i]) BY DEF ReportInv
  <2> QED BY <2>3, <2>4, ReportGrows
<1> QED BY <1>1, <1>2 DEF ReportInv

LEMMA ReportsStay ==
    ASSUME IInv, ReportInv, NEW q \in Replica, StaysInView(q), Visible
    PROVE  ReportInv'
<1>1. \A p \in Replica : zs'[p].view_changes = zs[p].view_changes
  BY DEF StaysInView
<1>2. viewChangeMsgs' = viewChangeMsgs /\ newViewMsgs' = newViewMsgs
  BY DEF StaysInView
<1>3. Grows(Ex, Ex') /\ Invoked \subseteq Invoked' BY DEF StaysInView, Visible
<1> QED BY <1>1, <1>2, <1>3, ReportStep

\* A step of server q that executes nothing.
LEMMA IdleGrows ==
    ASSUME IInv, NEW q \in Replica, NEW z1, zs' = [zs EXCEPT ![q] = z1],
           z1.all_executed_reqs = zs[q].all_executed_reqs
    PROVE  /\ Grows(Ex, Ex')
           /\ \A p \in Replica : zs'[p] = IF p = q THEN z1 ELSE zs[p]
<1>1. \A p \in Replica : zs'[p] = IF p = q THEN z1 ELSE zs[p]
  BY DEF IInv, TypeOK
<1>2. \A p \in Replica : zs'[p].all_executed_reqs = zs[p].all_executed_reqs
  BY <1>1
<1> QED BY <1>1, <1>2 DEF Ex, Grows

\* What a server reports is a part of its log.
LEMMA ReportOfLog ==
    ASSUME NEW E, NEW I, NEW q \in Replica, NEW z \in ZenoMutState,
           OrderlyLog(E, I, z), NEW v
    PROVE  ReportMade(E, I, ViewChangeOf(q, z, v))
<1>1. z.all_executed_reqs \in Seq(OrderedRequest) /\ z.last_cc \in CommitCertificate
  BY DEF ZenoMutState
<1>2. PICK o : o = IF z.last_cc = {} THEN <<>>
                   ELSE SubSeq(z.all_executed_reqs, CcN(z.last_cc) + 2,
                               Len(z.all_executed_reqs))
  OBVIOUS
<1>3. ViewChangeOf(q, z, v).o = o BY <1>2 DEF ViewChangeOf
<1>4. ASSUME NEW i \in DOMAIN o
      PROVE  \E k \in DOMAIN z.all_executed_reqs : o[i] = z.all_executed_reqs[k]
  <2>1. CASE z.last_cc = {}
    <3>1. o = <<>> BY <1>2, <2>1, Zenon
    <3> QED BY <1>4, <3>1
  <2>2. CASE z.last_cc # {}
    <3>1. PICK a, b : a = CcN(z.last_cc) + 2 /\ b = Len(z.all_executed_reqs)
      OBVIOUS
    <3>2. a \in Int /\ a >= 1 /\ b \in Nat /\ DOMAIN z.all_executed_reqs = 1 .. b
      BY <1>1, <3>1, CcNType
    <3>3. o = SubSeq(z.all_executed_reqs, a, b) BY <1>2, <2>2, <3>1
    <3>4. \A x \in a .. b : z.all_executed_reqs[x] \in OrderedRequest
      BY <1>1, <3>2
    <3>5. /\ o \in Seq(OrderedRequest)
          /\ Len(o) = IF a <= b THEN b - a + 1 ELSE 0
          /\ \A j \in 1 .. b - a + 1 : o[j] = z.all_executed_reqs[a + j - 1]
      BY <3>2, <3>3, <3>4, SubSeqProperties
    <3>6. i \in 1 .. Len(o) BY <1>4, <3>5
    <3>7. i \in 1 .. b - a + 1 /\ a + i - 1 \in 1 .. b BY <3>2, <3>5, <3>6
    <3> QED BY <3>2, <3>5, <3>7
  <2> QED BY <2>1, <2>2
<1> QED BY <1>3, <1>4 DEF ReportMade, OrderlyLog

-----------------------------------------------------------------------------
(* The steps that are about views                                          *)

LEMMA AccusePrimaryOrder ==
    ASSUME IInv, OrderInv, ReportInv, NEW q \in Replica, NEW view \in zs[q].firing,
           AccusePrimary(q, view)
    PROVE  OrderInv' /\ ReportInv' /\ Visible
<1>1. zs[q] \in ZenoMutState BY DEF IInv, TypeOK
<1> DEFINE F  == zs[q].firing \ {view}
           A  == IF zs[q].v = view THEN zs[q].ihatetheprimary_accusations \cup {q}
                 ELSE zs[q].ihatetheprimary_accusations
           z1 == [zs[q] EXCEPT !.firing = F, !.ihatetheprimary_accusations = A]
<1>2. zs' = [zs EXCEPT ![q] = z1]
  BY <1>1 DEF AccusePrimary, IInv, TypeOK, ZenoMutState
<1> HIDE DEF F, A
<1>3. /\ Aside(zs[q], z1)
      /\ z1.h = zs[q].h /\ z1.all_executed_reqs = zs[q].all_executed_reqs
      /\ z1.replies = zs[q].replies /\ z1.poisoned = zs[q].poisoned
      /\ z1.view_changes = zs[q].view_changes
  BY <1>1 DEF ZenoMutState, Aside
<1> HIDE DEF z1
<1>4. \A p \in Replica : \A or \in orMsgs'[p] : Made(Ex, Invoked, or)
  BY DEF AccusePrimary, OrderInv
<1>5. PanicsOnSlice(z1) BY <1>3 DEF PanicsOnSlice, AccusePrimary, Running
<1>6. OrderInv' /\ Visible BY <1>2, <1>3, <1>4, <1>5, AsideStep
<1>7. /\ Grows(Ex, Ex')
      /\ \A p \in Replica : zs'[p].view_changes = zs[p].view_changes
  <2>1. /\ Grows(Ex, Ex')
        /\ \A p \in Replica : zs'[p] = IF p = q THEN z1 ELSE zs[p]
    BY <1>2, <1>3, IdleGrows
  <2> QED BY <1>3, <2>1
<1>8. viewChangeMsgs' = viewChangeMsgs /\ newViewMsgs' = newViewMsgs
  BY DEF AccusePrimary
<1>9. Invoked \subseteq Invoked' BY <1>6 DEF Visible
<1>10. ReportInv' BY <1>7, <1>8, <1>9, ReportStep
<1> QED BY <1>6, <1>10

LEMMA on_ihatetheprimaryOrder ==
    ASSUME IInv, OrderInv, ReportInv, NEW q \in Replica, NEW msg \in ihtpMsgs[q],
           on_ihatetheprimary(q, msg)
    PROVE  OrderInv' /\ ReportInv' /\ Visible
<1>1. zs[q] \in ZenoMutState BY DEF IInv, TypeOK
<1> DEFINE A  == zs[q].ihatetheprimary_accusations \cup {msg.i}
           z1 == IF msg.v = zs[q].v
                 THEN [zs[q] EXCEPT !.ihatetheprimary_accusations = A] ELSE zs[q]
           leaves == /\ msg.v = zs[q].v
                     /\ is_view_active(zs[q])
                     /\ EnoughAccusations(A)
           z2 == [z1 EXCEPT !.view_state = "ViewChanging", !.v = @ + 1,
                            !.poisoned = ~HasSuffix(zs[q])]
           vc == ViewChangeOf(q, zs[q], zs[q].v + 1)
<1>2. /\ zs' = [zs EXCEPT ![q] = IF leaves THEN z2 ELSE z1]
      /\ viewChangeMsgs' = IF leaves /\ HasSuffix(zs[q])
                           THEN send_to_all(viewChangeMsgs, q, vc)
                           ELSE viewChangeMsgs
  BY DEF on_ihatetheprimary
<1> HIDE DEF vc
<1>3. /\ Aside(zs[q], z1)
      /\ z1.h = zs[q].h /\ z1.all_executed_reqs = zs[q].all_executed_reqs
      /\ z1.last_cc = zs[q].last_cc /\ z1.replies = zs[q].replies
      /\ z1.view_changes = zs[q].view_changes /\ z1.poisoned = zs[q].poisoned
      /\ z1 \in ZenoMutState
  <2>1. A \in SUBSET Replica BY <1>1 DEF IInv, TypeOK, ZenoMutState, IHateThePrimary
  <2> HIDE DEF A
  <2> QED BY <1>1, <2>1 DEF ZenoMutState, Aside
<1> HIDE DEF z1
<1>4. PICK b, view : b = ~HasSuffix(zs[q]) /\ view = z1.v + 1 OBVIOUS
<1> DEFINE z3 == [z1 EXCEPT !.view_state = "ViewChanging", !.v = view,
                            !.poisoned = b]
<1>5. z2 = z3 BY <1>4, Zenon
<1>6. /\ Aside(z1, z3) /\ z3.poisoned = b
      /\ z3.h = z1.h /\ z3.all_executed_reqs = z1.all_executed_reqs
      /\ z3.last_cc = z1.last_cc /\ z3.replies = z1.replies
      /\ z3.view_changes = z1.view_changes
  BY <1>3 DEF ZenoMutState, Aside
<1> HIDE DEF z3, z2, leaves
<1>7. PICK z4 : z4 = IF leaves THEN z2 ELSE z1 OBVIOUS
<1>8. zs' = [zs EXCEPT ![q] = z4] BY <1>2, <1>7
<1>9. z4 = z1 \/ z4 = z3 BY <1>5, <1>7
<1>10. /\ Aside(zs[q], z4)
       /\ z4.h = zs[q].h /\ z4.all_executed_reqs = zs[q].all_executed_reqs
       /\ z4.last_cc = zs[q].last_cc /\ z4.replies = zs[q].replies
       /\ z4.view_changes = zs[q].view_changes
       /\ z4.poisoned \in {zs[q].poisoned, b}
  <2>1. CASE z4 = z1 BY <1>3, <2>1
  <2>2. CASE z4 = z3 BY <1>3, <1>6, <2>2 DEF Aside
  <2> QED BY <1>9, <2>1, <2>2
<1>11. PanicsOnSlice(z4)
  <2>1. HasSuffix(z4) <=> HasSuffix(zs[q]) BY <1>10 DEF HasSuffix
  <2>2. ~zs[q].poisoned BY DEF on_ihatetheprimary, Up, Running
  <2>3. CASE z4.poisoned = zs[q].poisoned BY <2>2, <2>3 DEF PanicsOnSlice
  <2>4. CASE z4.poisoned = b BY <1>4, <2>1, <2>4 DEF PanicsOnSlice
  <2> QED BY <1>10, <2>3, <2>4
<1>12. \A p \in Replica : \A or \in orMsgs'[p] : Made(Ex, Invoked, or)
  BY DEF on_ihatetheprimary, OrderInv
<1>13. OrderInv' /\ Visible BY <1>8, <1>10, <1>11, <1>12, AsideStep
<1>14. /\ Grows(Ex, Ex')
       /\ \A p \in Replica : zs'[p] = IF p = q THEN z4 ELSE zs[p]
  BY <1>8, <1>10, IdleGrows
<1>15. ASSUME NEW p \in Replica, NEW x \in viewChangeMsgs'[p], x \notin viewChangeMsgs[p]
       PROVE  x \in ViewChange /\ ReportMade(Ex, Invoked, x)
  <2>1. viewChangeMsgs \in [Replica -> SUBSET ViewChange] BY DEF IInv, TypeOK
  <2>2. HasSuffix(zs[q]) /\ viewChangeMsgs' = send_to_all(viewChangeMsgs, q, vc)
    BY <1>2, <1>15
  <2>3. x = vc BY <1>15, <2>1, <2>2 DEF send_to_all
  <2>4. vc \in ViewChange
    <3>1. zs[q].v + 1 \in View BY <1>1 DEF ZenoMutState, View
    <3> QED BY <1>1, <2>2, <3>1, ViewChangeOfType DEF vc
  <2>5. ReportMade(Ex, Invoked, vc)
    <3>1. OrderlyLog(Ex, Invoked, zs[q]) BY DEF OrderInv, OrderlyServer
    <3> QED BY <1>1, <3>1, ReportOfLog DEF vc
  <2> QED BY <2>3, <2>4, <2>5
<1>16. newViewMsgs' = newViewMsgs BY DEF on_ihatetheprimary
<1>17. Invoked \subseteq Invoked' BY <1>13 DEF Visible
<1>18. \A p \in Replica : zs'[p].view_changes = zs[p].view_changes
  BY <1>10, <1>14
<1>19. ReportInv' BY <1>14, <1>15, <1>16, <1>17, <1>18, ReportStep
<1> QED BY <1>13, <1>19

\* Starting a view with view changes that report what was made: their ORs are
\* queued or handed over like those that come from the primary itself.
LEMMA ApplyNewViewStep ==
    ASSUME IInv, OrderInv, NEW q \in Replica, ~zs[q].poisoned,
           NEW z \in ZenoMutState, Aside(zs[q], z), z.h = zs[q].h,
           z.all_executed_reqs = zs[q].all_executed_reqs,
           z.replies = zs[q].replies, z.poisoned = zs[q].poisoned,
           NEW V \in SUBSET ViewChange, \A vc \in V : ReportMade(Ex, Invoked, vc),
           NEW nvm \in NewView, nvm.p \in Seq(V),
           zs' = [zs EXCEPT ![q] = apply_new_view(z, nvm)], orMsgs' = orMsgs
    PROVE  /\ OrderInv' /\ Visible /\ Grows(Ex, Ex')
           /\ \A p \in Replica :
                 zs'[p].view_changes = IF p = q THEN z.view_changes
                                       ELSE zs[p].view_changes
<1>1. PICK S \in SUBSET OrderedRequest :
         S = {or \in OrderedRequest : Made(Ex, Invoked, or)}
  OBVIOUS
<1>2. ASSUME NEW vc \in V
      PROVE  vc.o \in Seq(S)
  <2>1. PICK o \in Seq(OrderedRequest) : o = vc.o BY DEF ViewChange
  <2>2. /\ Len(o) \in Nat /\ DOMAIN o = 1 .. Len(o)
        /\ o = [i \in 1 .. Len(o) |-> o[i]]
        /\ \A i \in 1 .. Len(o) : o[i] \in OrderedRequest
    BY <2>1
  <2>3. \A i \in 1 .. Len(o) : o[i] \in S BY <1>1, <2>1, <2>2 DEF ReportMade
  <2>4. o \in [1 .. Len(o) -> S] BY <2>2, <2>3
  <2> QED BY <2>1, <2>2, <2>4
<1>3. nvm.v \in View BY DEF NewView
<1>4. PICK z1 : z1 = apply_new_view(z, nvm) OBVIOUS
<1>5. Applied(V, z, z1) /\ Orderly(S, z, z1)
  BY <1>2, <1>3, <1>4, apply_new_viewEffect
<1>6. Waits(zs[q]) /\ Queue(zs[q]) BY DEF OrderInv, OrderlyServer
<1>7. Waits(z) /\ Queue(z) BY <1>6, AsideMoves
<1>8. Moves(S, z, z1) /\ Waits(z1) /\ Queue(z1) BY <1>5, <1>7 DEF Orderly
<1>9. Moves(S, zs[q], z1) BY <1>8 DEF Aside, Moves
<1>10. zs' = [zs EXCEPT ![q] = z1] BY <1>4
<1>11. /\ z1.h = zs[q].h /\ z1.all_executed_reqs = zs[q].all_executed_reqs
       /\ z1.replies = zs[q].replies /\ z1.view_changes = z.view_changes
  BY <1>5 DEF Applied
<1>12. \A or \in S : Made(Ex, Invoked, or) BY <1>1
<1>13. \A p \in Replica : \A or \in orMsgs'[p] : Made(Ex, Invoked, or)
  BY DEF OrderInv
<1>14. OrderInv' /\ Visible
  BY <1>8, <1>9, <1>10, <1>11, <1>12, <1>13, MovesStep
<1>15. /\ Grows(Ex, Ex')
       /\ \A p \in Replica : zs'[p] = IF p = q THEN z1 ELSE zs[p]
  BY <1>10, <1>11, IdleGrows
<1> QED BY <1>11, <1>14, <1>15

LEMMA on_viewchangeOrder ==
    ASSUME IInv, OrderInv, ReportInv, NEW q \in Replica,
           NEW msg \in viewChangeMsgs[q], on_viewchange(q, msg)
    PROVE  OrderInv' /\ ReportInv' /\ Visible
<1>1. PICK z \in ZenoMutState : z = zs[q] BY DEF IInv, TypeOK
<1>2. PICK V : V = {vc \in z.view_changes : vc.i # msg.i} \cup {msg} OBVIOUS
<1>3. /\ V \in SUBSET ViewChange /\ IsFiniteSet(V)
      /\ V \subseteq z.view_changes \cup viewChangeMsgs[q]
      /\ \A vc \in V : ReportMade(Ex, Invoked, vc)
  <2> DEFINE others == {vc \in z.view_changes : vc.i # msg.i}
  <2>1. IsFiniteSet(others) BY <1>1, FS_Subset DEF IInv, GoodServer
  <2>2. others \subseteq ViewChange /\ msg \in ViewChange
    BY DEF ZenoMutState, IInv, TypeOK
  <2>3. others \subseteq z.view_changes OBVIOUS
  <2> HIDE DEF others
  <2>4. V = others \cup {msg} BY <1>2 DEF others
  <2>5. V \subseteq z.view_changes \cup viewChangeMsgs[q] BY <2>3, <2>4
  <2>6. \A vc \in V : ReportMade(Ex, Invoked, vc)
    BY <1>1, <2>5 DEF ReportInv
  <2> QED BY <2>1, <2>2, <2>4, <2>5, <2>6, FS_AddElement
<1>4. PICK z1 : z1 = IF msg.v = z.v THEN [z EXCEPT !.view_changes = V] ELSE z
  OBVIOUS
<1>5. /\ z1 \in ZenoMutState /\ Aside(z, z1)
      /\ z1.h = z.h /\ z1.all_executed_reqs = z.all_executed_reqs
      /\ z1.replies = z.replies /\ z1.poisoned = z.poisoned
      /\ z1.view_changes \in {V, z.view_changes}
  BY <1>3, <1>4 DEF ZenoMutState, Aside
<1> DEFINE announces == /\ msg.v = z.v
                        /\ is_view_active(z)
                        /\ Cardinality(V) > 2 * max_failures
                        /\ is_primary(q)
           nvm(p) == [v |-> z.v, p |-> p, i |-> q]
<1>6. IF announces
      THEN \E p \in SetToSeqs(V) :
              /\ zs' = [zs EXCEPT ![q] = apply_new_view(z1, nvm(p))]
              /\ newViewMsgs' = send_to_all(newViewMsgs, q, nvm(p))
      ELSE zs' = [zs EXCEPT ![q] = z1] /\ newViewMsgs' = newViewMsgs
  BY <1>1, <1>2, <1>4, Zenon DEF on_viewchange
<1>7. orMsgs' = orMsgs /\ ~z.poisoned BY <1>1 DEF on_viewchange, Up, Running
<1>8. \A p \in Replica : viewChangeMsgs'[p] \subseteq viewChangeMsgs[p]
  BY HandledType DEF on_viewchange, IInv, TypeOK
<1>9. newViewMsgs \in [Replica -> SUBSET NewView] BY DEF IInv, TypeOK
<1>10. PICK m : /\ OrderInv' /\ Visible /\ Grows(Ex, Ex')
                /\ \A p \in Replica :
                      zs'[p].view_changes = IF p = q THEN z1.view_changes
                                            ELSE zs[p].view_changes
                /\ \A p \in Replica : \A nv \in newViewMsgs'[p] :
                      nv \in newViewMsgs[p] \/ nv = m
                /\ newViewMsgs' = newViewMsgs \/ (m \in NewView /\ m.p \in Seq(V))
  <2>1. CASE ~announces
    <3>1. zs' = [zs EXCEPT ![q] = z1] /\ newViewMsgs' = newViewMsgs BY <1>6, <2>1
    <3> HIDE DEF announces
    <3>2. PanicsOnSlice(z1) BY <1>5, <1>7 DEF PanicsOnSlice
    <3>3. \A p \in Replica : \A or \in orMsgs'[p] : Made(Ex, Invoked, or)
      BY <1>7 DEF OrderInv
    <3>4. OrderInv' /\ Visible BY <1>1, <1>5, <3>1, <3>2, <3>3, AsideStep
    <3>5. /\ Grows(Ex, Ex')
          /\ \A p \in Replica : zs'[p] = IF p = q THEN z1 ELSE zs[p]
      BY <1>1, <1>5, <3>1, IdleGrows
    <3> QED BY <3>1, <3>4, <3>5
  <2>2. CASE announces
    <3>1. PICK p \in SetToSeqs(V) :
             /\ zs' = [zs EXCEPT ![q] = apply_new_view(z1, nvm(p))]
             /\ newViewMsgs' = send_to_all(newViewMsgs, q, nvm(p))
      BY <1>6, <2>2
    <3> HIDE DEF announces
    <3>2. p \in Seq(V) BY <1>3, SetToSeqsType
    <3>3. PICK m \in NewView : m = nvm(p) /\ m.p \in Seq(V)
      <4>1. p \in Seq(ViewChange) /\ z.v \in View BY <1>3, <3>2 DEF ZenoMutState
      <4>2. nvm(p) \in NewView BY <4>1 DEF NewView
      <4>3. nvm(p).p = p OBVIOUS
      <4> HIDE DEF nvm
      <4> QED BY <3>2, <4>2, <4>3
    <3>4. /\ zs' = [zs EXCEPT ![q] = apply_new_view(z1, m)]
          /\ newViewMsgs' = send_to_all(newViewMsgs, q, m)
      BY <3>1, <3>3
    <3> HIDE DEF nvm
    <3>5. /\ OrderInv' /\ Visible /\ Grows(Ex, Ex')
          /\ \A r \in Replica :
                zs'[r].view_changes = IF r = q THEN z1.view_changes
                                      ELSE zs[r].view_changes
      BY <1>1, <1>3, <1>5, <1>7, <3>3, <3>4, ApplyNewViewStep
    <3>6. \A r \in Replica : newViewMsgs'[r] \subseteq newViewMsgs[r] \cup {m}
      BY <1>9, <3>4 DEF send_to_all
    <3> QED BY <3>3, <3>5, <3>6
  <2> QED BY <2>1, <2>2
<1> HIDE DEF announces, nvm
<1>11. ASSUME NEW p \in Replica, NEW nv \in newViewMsgs'[p], nv \notin newViewMsgs[p]
       PROVE  nv \in NewView /\ \A i \in DOMAIN nv.p : ReportMade(Ex, Invoked, nv.p[i])
  <2>1. nv \in NewView /\ nv.p \in Seq(V) BY <1>10, <1>11
  <2>2. \A i \in DOMAIN nv.p : nv.p[i] \in V BY <2>1
  <2> QED BY <1>3, <2>1, <2>2
<1>12. \A p \in Replica : \A vc \in zs'[p].view_changes \cup viewChangeMsgs'[p] :
          vc \in zs[p].view_changes \cup viewChangeMsgs[p]
  BY <1>1, <1>3, <1>5, <1>8, <1>10
<1>13. Invoked \subseteq Invoked' BY <1>10 DEF Visible
<1>14. ReportInv' BY <1>10, <1>11, <1>12, <1>13, ReportStep
<1> QED BY <1>10, <1>14

LEMMA on_newviewOrder ==
    ASSUME IInv, OrderInv, ReportInv, NEW q \in Replica, NEW msg \in newViewMsgs[q],
           on_newview(q, msg)
    PROVE  OrderInv' /\ ReportInv' /\ Visible
<1>1. PICK z \in ZenoMutState : z = zs[q] BY DEF IInv, TypeOK
<1>2. msg \in NewView BY DEF IInv, TypeOK
<1>3. PICK V : V = {msg.p[i] : i \in DOMAIN msg.p} OBVIOUS
<1>4. /\ V \in SUBSET ViewChange /\ msg.p \in Seq(V)
      /\ \A vc \in V : ReportMade(Ex, Invoked, vc)
  <2>1. PICK p \in Seq(ViewChange) : p = msg.p BY <1>2 DEF NewView
  <2>2. /\ Len(p) \in Nat /\ DOMAIN p = 1 .. Len(p)
        /\ p = [i \in 1 .. Len(p) |-> p[i]]
        /\ \A i \in 1 .. Len(p) : p[i] \in ViewChange
    BY <2>1
  <2>3. p \in [1 .. Len(p) -> V] BY <1>3, <2>1, <2>2
  <2>4. p \in Seq(V) BY <2>2, <2>3
  <2>5. \A vc \in V : ReportMade(Ex, Invoked, vc) BY <1>3 DEF ReportInv
  <2> QED BY <1>3, <2>1, <2>2, <2>4, <2>5
<1>5. /\ orMsgs' = orMsgs /\ viewChangeMsgs' = viewChangeMsgs
      /\ ~z.poisoned
      /\ \A p \in Replica : newViewMsgs'[p] \subseteq newViewMsgs[p]
  BY <1>1, HandledType DEF on_newview, IInv, TypeOK, Up, Running
<1>6. Aside(z, z) BY DEF Aside
<1>7. /\ OrderInv' /\ Visible /\ Grows(Ex, Ex')
      /\ \A p \in Replica : zs'[p].view_changes = zs[p].view_changes
  <2>1. CASE zs' = [zs EXCEPT ![q] = apply_new_view(z, msg)]
    <3>1. /\ OrderInv' /\ Visible /\ Grows(Ex, Ex')
          /\ \A p \in Replica :
                zs'[p].view_changes = IF p = q THEN z.view_changes
                                      ELSE zs[p].view_changes
      BY <1>1, <1>2, <1>4, <1>5, <1>6, <2>1, ApplyNewViewStep
    <3> QED BY <1>1, <3>1
  <2>2. CASE zs' = [zs EXCEPT ![q] = z]
    <3>1. PanicsOnSlice(z) BY <1>5 DEF PanicsOnSlice
    <3>2. \A p \in Replica : \A or \in orMsgs'[p] : Made(Ex, Invoked, or)
      BY <1>5 DEF OrderInv
    <3>3. OrderInv' /\ Visible BY <1>1, <1>6, <2>2, <3>1, <3>2, AsideStep
    <3>4. /\ Grows(Ex, Ex')
          /\ \A p \in Replica : zs'[p] = IF p = q THEN z ELSE zs[p]
      BY <1>1, <2>2, IdleGrows
    <3> QED BY <1>1, <3>3, <3>4
  <2> QED BY <1>1, <2>1, <2>2, Zenon DEF on_newview
<1>8. Invoked \subseteq Invoked' BY <1>7 DEF Visible
<1>9. ReportInv' BY <1>5, <1>7, <1>8, ReportStep
<1> QED BY <1>7, <1>9

LEMMA haltOrder ==
    ASSUME IInv, OrderInv, NEW q \in Replica, halt(q)
    PROVE  OrderInv' /\ Visible
<1>1. PICK z \in ZenoMutState : z = zs[q] BY DEF IInv, TypeOK
<1>2. Waits(z) /\ Queue(z) BY <1>1 DEF OrderInv, OrderlyServer
<1>3. PICK z1 : z1 = Halted(z) /\ Tame(z, z1) BY HaltedTame
<1>4. zs' = [zs EXCEPT ![q] = z1] BY <1>1, <1>3 DEF halt
<1>5. /\ Waits(z1) /\ Queue(z1)
      /\ z1.poisoned = z.poisoned /\ z1.n = z.n
      /\ z1.pending_ors = z.pending_ors
      /\ \A m \in Request, k \in Copy :
            ThreadMoves({}, z.n + 1, z.thr[m][k], z1.thr[m][k])
  BY <1>2, <1>3, HaltedMoves
<1>6. PICK S : S = {} OBVIOUS
<1>7. Moves(S, zs[q], z1) BY <1>1, <1>5 DEF Moves, ThreadMoves
<1>8. \A p \in Replica : \A or \in orMsgs'[p] : Made(Ex, Invoked, or)
  BY DEF halt, OrderInv
<1>9. \A or \in S : Made(Ex, Invoked, or) BY <1>6
<1>10. /\ z1.h = zs[q].h /\ z1.all_executed_reqs = zs[q].all_executed_reqs
       /\ z1.replies = zs[q].replies
  BY <1>1, <1>3 DEF Tame
<1>11. ~zs[q].poisoned BY DEF halt, Up, Running
<1> QED BY <1>4, <1>5, <1>7, <1>8, <1>9, <1>10, <1>11, MovesStep

-----------------------------------------------------------------------------
(* Every step                                                              *)

LEMMA OrderStepKeeps ==
    ASSUME IInv, OrderInv, ReportInv, NEW q \in Replica, Step(q)
    PROVE  OrderInv' /\ ReportInv' /\ Visible
<1>1. ASSUME OrderInv' /\ Visible, IInv' /\ StaysInView(q)
      PROVE  OrderInv' /\ ReportInv' /\ Visible
  BY <1>1, ReportsStay
<1>2. ASSUME NEW m \in Request, NEW k \in Copy, on_request_message(q, m, k)
      PROVE  OrderInv' /\ ReportInv' /\ Visible
  <2>1. OrderInv' /\ Visible
    BY <1>2, AnswerFromCacheOrder, ExecuteQueuedOrder, OrderRequestOrder,
       AwaitOrOrder DEF on_request_message
  <2>2. IInv' /\ StaysInView(q)
    BY <1>2, AnswerFromCacheStep, ExecuteQueuedStep, OrderRequestStep,
       AwaitOrStep DEF on_request_message
  <2> QED BY <1>1, <2>1, <2>2
<1>3. ASSUME NEW m \in Request, NEW k \in Copy, ThreadStep(q, m, k)
      PROVE  OrderInv' /\ ReportInv' /\ Visible
  <2>1. OrderInv' /\ Visible
    BY <1>3, ExecuteReceivedOrder, StoreCertificateOrder, CacheReplyOrder
       DEF ThreadStep
  <2>2. IInv' /\ StaysInView(q)
    BY <1>3, ExecuteReceivedStep, StoreCertificateStep, CacheReplyStep
       DEF ThreadStep
  <2> QED BY <1>1, <2>1, <2>2
<1>4. ASSUME NEW or \in orMsgs[q], on_ordered_request(q, or)
      PROVE  OrderInv' /\ ReportInv' /\ Visible
  BY <1>1, <1>4, on_ordered_requestOrder, on_ordered_requestStep
<1>5. ASSUME NEW cm \in commitMsgs[q], on_commit(q, cm)
      PROVE  OrderInv' /\ ReportInv' /\ Visible
  BY <1>1, <1>5, on_commitOrder, on_commitStep
<1>6. ASSUME NEW fhm \in fillHoleMsgs[q], on_fillhole(q, fhm)
      PROVE  OrderInv' /\ ReportInv' /\ Visible
  BY <1>1, <1>6, on_fillholeOrder, on_fillholeStep
<1>7. ASSUME TimerExpires(q) PROVE OrderInv' /\ ReportInv' /\ Visible
  BY <1>1, <1>7, TimerExpiresOrder, TimerExpiresStep
<1>8. ASSUME NEW view \in zs[q].firing, AccusePrimary(q, view)
      PROVE  OrderInv' /\ ReportInv' /\ Visible
  BY <1>8, AccusePrimaryOrder
<1>9. ASSUME halt(q) PROVE OrderInv' /\ ReportInv' /\ Visible
  BY <1>1, <1>9, haltOrder, haltStep
<1> QED BY <1>2, <1>3, <1>4, <1>5, <1>6, <1>7, <1>8, <1>9,
           on_ihatetheprimaryOrder, on_viewchangeOrder, on_newviewOrder
        DEF Step

LEMMA OrderStutters ==
    ASSUME UNCHANGED vars
    PROVE  (OrderInv => OrderInv') /\ (ReportInv => ReportInv')
<1>1. /\ zs' = zs /\ orMsgs' = orMsgs
      /\ viewChangeMsgs' = viewChangeMsgs /\ newViewMsgs' = newViewMsgs
  BY DEF vars
<1>2. Ex' = Ex /\ Invoked' = Invoked /\ StrongAnswers' = StrongAnswers
  BY <1>1 DEF Ex, Invoked, StrongAnswers, Threads
<1>3. OrderInv => OrderInv'
  BY <1>1, <1>2 DEF OrderInv, OrderlyServer, OrderlyLog, HandedOver, Made
<1>4. ReportInv => ReportInv' BY <1>1, <1>2 DEF ReportInv, ReportMade, Made
<1> QED BY <1>3, <1>4

LEMMA InitReport == Init => ReportInv
<1> SUFFICES ASSUME Init, NEW q \in Replica
             PROVE  /\ zs[q].view_changes \cup viewChangeMsgs[q] = {}
                    /\ newViewMsgs[q] = {}
  BY DEF ReportInv
<1> QED BY DEF Init, InitialState, Empty

\* In every state the servers reach, whatever messages are lost or reordered,
\* what is executed, queued, handed over, reported or in flight was ordered by
\* the primary of its view and is in its log.
THEOREM OrderInvariance == Spec => [](OrderInv /\ ReportInv)
<1>1. IInv /\ OrderInv /\ ReportInv /\ [Next]_vars => (OrderInv /\ ReportInv)'
  BY OrderStepKeeps, OrderStutters, DeploymentAssumption DEF Next
<1>2. Spec => []IInv BY Invariance, PTL
<1> QED BY <1>1, <1>2, InitOrder, InitReport, PTL DEF Spec

-----------------------------------------------------------------------------
(* What the invariant implies                                              *)

LEMMA OrderedWell == OrderInv => ExactlyOnce /\ NoLostWakeup
BY DEF OrderInv, OrderlyServer, OrderlyLog, Queue, ExactlyOnce, NoLostWakeup

LEMMA NoneStranded == OrderInv => NoStrandedCommit
<1> SUFFICES ASSUME OrderInv, NEW q \in Replica, NEW m \in Request, NEW k \in Copy,
                    zs[q].thr[m][k].pc = "awaitCommit",
                    ~HasQuorum(zs[q].thr[m][k].cert)
             PROVE  /\ zs[q].reqs_without_commits[m] = k
                    /\ \A cm \in zs[q].pending_commits : cm.or # zs[q].thr[m][k].or
  BY DEF NoStrandedCommit
<1>1. Waits(zs[q]) BY DEF OrderInv, OrderlyServer
<1> QED BY <1>1 DEF Waits, WaitsFor

\* No handler panics with the mutex held: the assertions of order_message and
\* check_and_execute_request hold, an OR handed to a thread is not ahead when
\* the thread runs it, and a view change slices the log within its bounds.
THEOREM NeverPanics == Spec => []NoPanic
<1>1. IInv /\ OrderInv /\ Calm => NoPanic
  BY SuffixExists DEF OrderInv, PanicsOnSlice, NoPanic
<1> QED BY <1>1, Invariance, OrderInvariance, PTL

\* check_and_execute_request runs every request of a client once and in
\* timestamp order, however often it arrives and by whatever path.
THEOREM ExecutesInOrder == Spec => []ExactlyOnce
<1>1. OrderInv => ExactlyOnce BY OrderedWell
<1> QED BY <1>1, OrderInvariance, PTL

\* The threads that on_request_message puts to sleep are woken when the OR in
\* front of pending_ors becomes due: process_or and check_and_execute_request
\* look at both maps under one lock.
THEOREM NoWakeupLost == Spec => []NoLostWakeup
<1>1. OrderInv => NoLostWakeup BY OrderedWell
<1> QED BY <1>1, OrderInvariance, PTL

\* Commits that came before the thread of a strong request registered in
\* reqs_without_commits are in its certificate, and later ones are sent to it.
THEOREM NoCommitStranded == Spec => []NoStrandedCommit
<1>1. OrderInv => NoStrandedCommit BY NoneStranded
<1> QED BY <1>1, OrderInvariance, PTL

\* The history behind an entry of the log is the server's up to that entry.
LEMMA HistoryOfEntry ==
    ASSUME IInv, OrderInv, NEW q \in Replica,
           NEW k \in DOMAIN zs[q].all_executed_reqs
    PROVE  /\ zs[q].all_executed_reqs[k] \in OrderedRequest
           /\ Made(Ex, Invoked, zs[q].all_executed_reqs[k])
           /\ HistoryAt(q, k) = zs[q].all_executed_reqs[k].h
<1>1. PICK z \in ZenoMutState : z = zs[q] BY DEF IInv, TypeOK
<1>2. OrderlyLog(Ex, Invoked, z) BY <1>1 DEF OrderInv, OrderlyServer
<1>3. z.all_executed_reqs \in Seq(OrderedRequest) /\ z.h \in Seq(Request)
  BY DEF ZenoMutState
<1>4. PICK or \in OrderedRequest : or = z.all_executed_reqs[k] BY <1>1, <1>3
<1>5. or \in Range(z.all_executed_reqs) BY <1>1, <1>4 DEF Range
<1>6. PICK h \in Seq(Request) : h = or.h BY DEF OrderedRequest
<1>7. IsPrefix(h, z.h) BY <1>1, <1>5, <1>6 DEF IInv, GoodServer, LogOK
<1>8. Len(h) = k /\ k \in Nat /\ Made(Ex, Invoked, or)
  BY <1>1, <1>2, <1>3, <1>4, <1>6 DEF OrderlyLog
<1>9. SubSeq(z.h, 1, k) = h
  <2>1. SubSeq(h, 1, Len(h)) = SubSeq(z.h, 1, Len(h)) BY <1>7 DEF IsPrefix
  <2>2. SubSeq(h, 1, Len(h)) = h OBVIOUS
  <2> QED BY <1>8, <2>1, <2>2
<1> QED BY <1>1, <1>4, <1>6, <1>8, <1>9 DEF HistoryAt

LEMMA OneOrder == IInv /\ OrderInv => OneOrderPerView
<1> SUFFICES ASSUME IInv, OrderInv, NEW p \in Replica, NEW q \in Replica,
                    NEW k \in DOMAIN zs[p].all_executed_reqs,
                    NEW l \in DOMAIN zs[q].all_executed_reqs,
                    zs[p].all_executed_reqs[k].v = zs[q].all_executed_reqs[l].v
             PROVE  Comparable(HistoryAt(p, k), HistoryAt(q, l))
  BY DEF OneOrderPerView
<1>1. PICK or1 \in OrderedRequest, or2 \in OrderedRequest :
         /\ Made(Ex, Invoked, or1) /\ or1.h = HistoryAt(p, k)
         /\ Made(Ex, Invoked, or2) /\ or2.h = HistoryAt(q, l)
         /\ or1.v = or2.v
  BY HistoryOfEntry
<1>2. or1.h \in Seq(Request) /\ or2.h \in Seq(Request) BY DEF OrderedRequest
<1>3. PICK i \in Replica : i = or1.i /\ i = or2.i
  BY <1>1 DEF Made, OrderedRequest
<1>4. PICK z \in ZenoMutState : z = zs[i] BY DEF IInv, TypeOK
<1>5. z.h \in Seq(Request) BY DEF ZenoMutState
<1>6. IsPrefix(or1.h, z.h) /\ IsPrefix(or2.h, z.h)
  BY <1>1, <1>3, <1>4 DEF Made, Ex, IInv, GoodServer, LogOK
<1>7. Comparable(or1.h, or2.h) BY <1>2, <1>5, <1>6, PrefixesComparable
<1> QED BY <1>1, <1>7

\* Whatever servers execute in one view, through process_or, the queue or a
\* FillHole, follows one order: that of the log of the primary of the view.
THEOREM ViewsOrderOnce == Spec => []OneOrderPerView
<1> QED BY OneOrder, Invariance, OrderInvariance, PTL

-----------------------------------------------------------------------------
(* The servers implement the log of module StrongLog: the initial states   *)
(* are mapped to the initial state of the log, and every step to the       *)
(* arrival of one request, to one answer, or to none.                      *)

\* The histories behind strong answers are ones the log may answer with.
AnswersFit ==
    /\ Invoked \subseteq Request
    /\ \A or \in StrongAnswers :
          or.h \in Seq(Invoked) /\ or.h # <<>> /\ IsInjective(or.h)
    /\ Agreement

LEMMA AnswersMade ==
    ASSUME IInv, OrderInv, NEW or \in StrongAnswers
    PROVE  or \in OrderedRequest /\ Made(Ex, Invoked, or)
<1> DEFINE A == {q \in Replica : Executed(q, or)}
<1>1. Cardinality(A) > 2 * max_failures BY StrongAnswersBacked
<1>2. Cardinality(A) # 0 BY <1>1, FailureAssumption
<1>3. A # {} BY <1>2, FS_EmptySet
<1>4. PICK q \in Replica : Executed(q, or) BY <1>3
<1>5. PICK k \in DOMAIN zs[q].all_executed_reqs : or = zs[q].all_executed_reqs[k]
  BY <1>4 DEF Executed, Range
<1> QED BY <1>5, HistoryOfEntry

LEMMA AnswersFitLog ==
    ASSUME Cardinality(Replica) <= 4 * max_failures + 1, IInv, OrderInv
    PROVE  AnswersFit
<1>1. Invoked \subseteq Request BY DEF Invoked
<1>2. ASSUME NEW or \in StrongAnswers
      PROVE  or.h \in Seq(Invoked) /\ or.h # <<>> /\ IsInjective(or.h)
  <2>1. or \in OrderedRequest /\ Made(Ex, Invoked, or) BY AnswersMade
  <2>2. PICK h \in Seq(Request) : h = or.h BY <2>1 DEF OrderedRequest
  <2>3. InOrder(h) /\ h # <<>> /\ \A j \in DOMAIN h : h[j] \in Invoked
    BY <2>1, <2>2 DEF Made
  <2>4. IsInjective(h) BY <2>3, InOrderInjective
  <2>5. h \in Seq(Invoked)
    <3>1. Len(h) \in Nat /\ DOMAIN h = 1 .. Len(h) /\ h = [j \in 1 .. Len(h) |-> h[j]]
      OBVIOUS
    <3>2. h \in [1 .. Len(h) -> Invoked] BY <2>3, <3>1
    <3> QED BY <3>1, <3>2
  <2> QED BY <2>2, <2>3, <2>4, <2>5
<1>3. Agreement BY StrongAnswersAgree
<1> QED BY <1>1, <1>2, <1>3 DEF AnswersFit

\* Before any request there is no answer.
LEMMA InitLog == Init => SL!Init
<1> SUFFICES ASSUME Init PROVE SL!Init
  OBVIOUS
<1>1. \A q \in Replica, m \in Request, k \in Copy : zs[q].thr[m][k].pc = "new"
  BY DEF Init, InitialState, NewThread
<1>2. Invoked = {} BY <1>1 DEF Invoked
<1>3. StrongAnswers = {} BY <1>1 DEF StrongAnswers, Threads, AnswersStrong
<1> QED BY <1>2, <1>3 DEF SL!Init

\* A step of the servers is one of the log, or none.
LEMMA StepLog ==
    ASSUME AnswersFit, AnswersFit', Visible \/ zs' = zs
    PROVE  [SL!Next]_(SL!vars)
<1> DEFINE H == {or.h : or \in StrongAnswers}
<1>1. CASE zs' = zs
  <2>1. Invoked' = Invoked /\ StrongAnswers' = StrongAnswers
    BY <1>1 DEF Invoked, StrongAnswers, Threads
  <2> QED BY <2>1 DEF SL!vars
<1>2. CASE /\ Invoked \subseteq Invoked' /\ StrongAnswers' = StrongAnswers
           /\ \E m : Invoked' \subseteq Invoked \cup {m}
  <2>1. CASE Invoked' = Invoked BY <1>2, <2>1 DEF SL!vars
  <2>2. CASE Invoked' # Invoked
    <3>1. PICK m : m \in Invoked' /\ m \notin Invoked BY <1>2, <2>2
    <3>2. m \in Request BY <3>1 DEF AnswersFit
    <3>3. Invoked' = Invoked \cup {m} BY <1>2, <3>1
    <3>4. H' = H BY <1>2
    <3>5. SL!Invoke(m) BY <3>1, <3>3, <3>4 DEF SL!Invoke
    <3> QED BY <3>2, <3>5 DEF SL!Next
  <2> QED BY <2>1, <2>2
<1>3. CASE /\ StrongAnswers \subseteq StrongAnswers' /\ Invoked' = Invoked
           /\ \E or : StrongAnswers' \subseteq StrongAnswers \cup {or}
  <2>1. CASE H' = H BY <1>3, <2>1 DEF SL!vars
  <2>2. CASE H' # H
    <3>1. PICK or : StrongAnswers' \subseteq StrongAnswers \cup {or} BY <1>3
    <3>2. or \in StrongAnswers' /\ H' = H \cup {or.h} BY <1>3, <2>2, <3>1
    <3>3. or.h \in Seq(Invoked) /\ or.h # <<>> /\ IsInjective(or.h)
      BY <1>3, <3>2 DEF AnswersFit
    <3>4. \A g \in H : IsPrefix(g, or.h) \/ IsPrefix(or.h, g)
      BY <1>3, <3>2 DEF AnswersFit, Agreement, Comparable
    <3>5. SL!Answer(or.h)
      BY <1>3, <3>2, <3>3, <3>4
         DEF SL!Answer, SL!IsInjective, SL!IsPrefix, IsInjective, IsPrefix
    <3>6. or.h \in H' BY <3>2
    <3> QED BY <3>5, <3>6 DEF SL!Next
  <2> QED BY <2>1, <2>2
<1> QED BY <1>1, <1>2, <1>3 DEF Visible

\* To clients with strong requests the servers, their message handlers and
\* their threads are one log that answers each request after a history of
\* distinct requests it received, and all answers after prefixes of one
\* sequence, whatever the view and if strong quorums intersect.
THEOREM OneStrongLog ==
    ASSUME Cardinality(Replica) <= 4 * max_failures + 1
    PROVE  Spec => ImplementsStrongLog
<1>1. IInv /\ OrderInv => AnswersFit BY AnswersFitLog
<1>2. IInv /\ OrderInv /\ ReportInv /\ [Next]_vars => Visible \/ zs' = zs
  BY OrderStepKeeps, DeploymentAssumption DEF Next, vars
<1>3. AnswersFit /\ AnswersFit' /\ (Visible \/ zs' = zs) => [SL!Next]_(SL!vars)
  BY StepLog
<1>4. Spec => []IInv /\ []OrderInv /\ []ReportInv
  BY Invariance, OrderInvariance, PTL
<1> QED BY <1>1, <1>2, <1>3, <1>4, InitLog, PTL
        DEF Spec, ImplementsStrongLog, SL!Spec
================================================================================
