--------------------------- MODULE ZenoStateProofs ---------------------------
(***************************************************************************)
(* What the operators of module ZenoState return and leave alone, for      *)
(* every state of the right type: the lemmas module ZenoProofs rests on.   *)
(***************************************************************************)
EXTENDS ZenoState, TLAPS, FiniteSetTheorems, SequenceTheorems, WellFoundedInduction

-----------------------------------------------------------------------------
(* The operators of module ZenoState                                       *)

\* A thread of m that was woken, with nothing collected yet.
Woken(m, th) == th.pc = "gotOr" /\ th.or.d_req = m /\ th.cert = {}

(***************************************************************************)
(* What the channels, the queue and the timer may change in a state: they  *)
(* end threads or wake them, and leave alone the view, the log, the        *)
(* replies, the commits and the last certificate.                          *)
(***************************************************************************)
Tame(z, z1) ==
    /\ z1.v = z.v /\ z1.view_state = z.view_state
    /\ z1.view_changes = z.view_changes
    /\ z1.ihatetheprimary_accusations = z.ihatetheprimary_accusations
    /\ z1.n = z.n /\ z1.h = z.h /\ z1.all_executed_reqs = z.all_executed_reqs
    /\ z1.replies = z.replies
    /\ z1.pending_commits = z.pending_commits /\ z1.last_cc = z.last_cc
    /\ \A m \in Request, k \in Copy :
          \/ z1.thr[m][k] = z.thr[m][k]
          \/ z1.thr[m][k] = Finished
          \/ Woken(m, z1.thr[m][k])

LEMMA TameTransitive ==
    ASSUME NEW z1, NEW z2, NEW z3, Tame(z1, z2), Tame(z2, z3)
    PROVE  Tame(z1, z3)
BY DEF Tame

LEMMA ThreadTypes ==
    /\ NewThread \in Thread /\ Finished \in Thread
    /\ \A or \in OrderedRequest :
          /\ Replying(or) \in Thread
          /\ [pc |-> "gotOr", or |-> or, cert |-> {}] \in Thread
          /\ \A cert \in CommitCertificate :
                [pc |-> "awaitCommit", or |-> or, cert |-> cert] \in Thread
BY DEF Thread, NewThread, Finished, Replying, CommitCertificate

LEMMA InitialStateType == InitialState \in ZenoMutState
BY ThreadTypes
   DEF InitialState, ZenoMutState, CommitCertificate, View

\* Replacing one thread keeps the type.
LEMMA SetThreadType ==
    ASSUME NEW z \in ZenoMutState, NEW m \in Request, NEW k \in Copy, NEW th \in Thread
    PROVE  [z EXCEPT !.thr[m][k] = th] \in ZenoMutState
BY DEF ZenoMutState

\* What an assignment to one thread does to all of them.
LEMMA OneThread ==
    ASSUME NEW T \in [Request -> [Copy -> Thread]],
           NEW m \in Request, NEW k \in Copy, NEW th
    PROVE  \A m1 \in Request, k1 \in Copy :
              [T EXCEPT ![m][k] = th][m1][k1] =
                  IF m1 = m /\ k1 = k THEN th ELSE T[m1][k1]
OBVIOUS

\* Using up the channel of a thread that waits for its OR.
LEMMA UseOrSender ==
    ASSUME NEW z \in ZenoMutState, NEW m \in Request, NEW k \in Copy,
           NEW th \in Thread,
           th = z.thr[m][k] \/ th = Finished \/ Woken(m, th)
    PROVE  LET z1 == [z EXCEPT !.reqs_without_ors[m] = 0, !.thr[m][k] = th]
           IN  /\ z1 \in ZenoMutState
               /\ Tame(z, z1)
<1> DEFINE z1 == [z EXCEPT !.reqs_without_ors[m] = 0, !.thr[m][k] = th]
<1>1. z1 \in ZenoMutState BY DEF ZenoMutState
<1>2. z1.thr = [z.thr EXCEPT ![m][k] = th] BY DEF ZenoMutState
<1>3. z.thr \in [Request -> [Copy -> Thread]] BY DEF ZenoMutState
<1>4. \A m1 \in Request, k1 \in Copy :
         \/ z1.thr[m1][k1] = z.thr[m1][k1]
         \/ z1.thr[m1][k1] = Finished
         \/ Woken(m1, z1.thr[m1][k1])
  BY <1>2, <1>3, OneThread
<1> QED BY <1>1, <1>2, <1>4 DEF ZenoMutState, Tame

\* Using up the channel of a thread that waits for commits.
LEMMA UseCommitSender ==
    ASSUME NEW z \in ZenoMutState, NEW m \in Request, NEW k \in Copy,
           NEW th \in Thread,
           th = z.thr[m][k] \/ th = Finished \/ Woken(m, th)
    PROVE  LET z1 == [z EXCEPT !.reqs_without_commits[m] = 0, !.thr[m][k] = th]
           IN  /\ z1 \in ZenoMutState
               /\ Tame(z, z1)
<1> DEFINE z1 == [z EXCEPT !.reqs_without_commits[m] = 0, !.thr[m][k] = th]
<1>1. z1 \in ZenoMutState BY DEF ZenoMutState
<1>2. z1.thr = [z.thr EXCEPT ![m][k] = th] BY DEF ZenoMutState
<1>3. z.thr \in [Request -> [Copy -> Thread]] BY DEF ZenoMutState
<1>4. \A m1 \in Request, k1 \in Copy :
         \/ z1.thr[m1][k1] = z.thr[m1][k1]
         \/ z1.thr[m1][k1] = Finished
         \/ Woken(m1, z1.thr[m1][k1])
  BY <1>2, <1>3, OneThread
<1> QED BY <1>1, <1>2, <1>4 DEF ZenoMutState, Tame

LEMMA DropOrSenderTame ==
    ASSUME NEW z \in ZenoMutState, NEW m \in Request
    PROVE  /\ DropOrSender(z, m) \in ZenoMutState
           /\ Tame(z, DropOrSender(z, m))
           /\ \A m1 \in Request, k1 \in Copy :
                 DropOrSender(z, m).thr[m1][k1] \in {z.thr[m1][k1], Finished}
<1>1. CASE z.reqs_without_ors[m] = 0
  BY <1>1 DEF DropOrSender, Tame
<1>2. CASE z.reqs_without_ors[m] # 0
  <2>1. PICK k \in Copy : k = z.reqs_without_ors[m] BY <1>2 DEF ZenoMutState
  <2>2. PICK th \in Thread : th = Finished BY ThreadTypes
  <2> DEFINE z1 == [z EXCEPT !.reqs_without_ors[m] = 0, !.thr[m][k] = th]
  <2>3. DropOrSender(z, m) = z1 BY <1>2, <2>1, <2>2, Zenon DEF DropOrSender
  <2>4. z1 \in ZenoMutState /\ Tame(z, z1) BY <2>2, UseOrSender, Zenon
  <2>5. z1.thr = [z.thr EXCEPT ![m][k] = th] BY DEF ZenoMutState
  <2>6. z.thr \in [Request -> [Copy -> Thread]] BY DEF ZenoMutState
  <2>7. \A m1 \in Request, k1 \in Copy :
           z1.thr[m1][k1] \in {z.thr[m1][k1], Finished}
    BY <2>2, <2>5, <2>6, OneThread
  <2> HIDE DEF z1
  <2> QED BY <2>3, <2>4, <2>7
<1> QED BY <1>1, <1>2

LEMMA DropCommitSenderTame ==
    ASSUME NEW z \in ZenoMutState, NEW m \in Request
    PROVE  /\ DropCommitSender(z, m) \in ZenoMutState
           /\ Tame(z, DropCommitSender(z, m))
           /\ \A k \in Copy : HasQuorum(z.thr[m][k].cert) =>
                 DropCommitSender(z, m).thr[m][k] = z.thr[m][k]
<1>1. CASE z.reqs_without_commits[m] = 0
  BY <1>1 DEF DropCommitSender, Tame
<1>2. CASE z.reqs_without_commits[m] # 0
  <2>1. PICK k \in Copy : k = z.reqs_without_commits[m] BY <1>2 DEF ZenoMutState
  <2>2. PICK th \in Thread :
           th = IF HasQuorum(z.thr[m][k].cert) THEN z.thr[m][k] ELSE Finished
    BY ThreadTypes DEF ZenoMutState
  <2>3. DropCommitSender(z, m) =
           [z EXCEPT !.reqs_without_commits[m] = 0, !.thr[m][k] = th]
    BY <1>2, <2>1, <2>2 DEF DropCommitSender, ZenoMutState
  <2>4. th = z.thr[m][k] \/ th = Finished BY <2>2
  <2>5. /\ DropCommitSender(z, m) \in ZenoMutState
        /\ Tame(z, DropCommitSender(z, m))
        /\ DropCommitSender(z, m).thr = [z.thr EXCEPT ![m][k] = th]
    <3> DEFINE z1 == [z EXCEPT !.reqs_without_commits[m] = 0, !.thr[m][k] = th]
    <3>1. z1 \in ZenoMutState /\ Tame(z, z1) BY <2>4, UseCommitSender, Zenon
    <3>2. z1.thr = [z.thr EXCEPT ![m][k] = th] BY DEF ZenoMutState
    <3> QED BY <2>3, <3>1, <3>2, Zenon
  <2>6. z.thr \in [Request -> [Copy -> Thread]] BY DEF ZenoMutState
  <2> QED BY <2>2, <2>5, <2>6, OneThread
<1> QED BY <1>1, <1>2

LEMMA WakeTame ==
    ASSUME NEW z \in ZenoMutState, NEW or \in OrderedRequest, Waiting(z, or.d_req)
    PROVE  Wake(z, or) \in ZenoMutState /\ Tame(z, Wake(z, or))
<1>1. PICK m \in Request : m = or.d_req BY DEF OrderedRequest
<1>2. PICK k \in Copy : k = z.reqs_without_ors[m]
  BY <1>1 DEF Waiting, ZenoMutState
<1>3. PICK th \in Thread : th = [pc |-> "gotOr", or |-> or, cert |-> {}]
  BY ThreadTypes
<1>4. Wake(z, or) = [z EXCEPT !.reqs_without_ors[m] = 0, !.thr[m][k] = th]
  BY <1>1, <1>2, <1>3 DEF Wake
<1>5. Woken(m, th) BY <1>1, <1>3 DEF Woken
<1> DEFINE z1 == [z EXCEPT !.reqs_without_ors[m] = 0, !.thr[m][k] = th]
<1>6. z1 \in ZenoMutState /\ Tame(z, z1) BY <1>5, UseOrSender, Zenon
<1> QED BY <1>4, <1>6, Zenon

LEMMA queue_orTame ==
    ASSUME NEW z \in ZenoMutState, NEW or \in OrderedRequest
    PROVE  queue_or(z, or) \in ZenoMutState /\ Tame(z, queue_or(z, or))
BY DEF queue_or, ZenoMutState, Tame

LEMMA process_orTame ==
    ASSUME NEW z \in ZenoMutState, NEW or \in OrderedRequest
    PROVE  process_or(z, or) \in ZenoMutState /\ Tame(z, process_or(z, or))
BY WakeTame, queue_orTame DEF process_or, Tame

LEMMA UnqueueTame ==
    ASSUME NEW z \in ZenoMutState, NEW or
    PROVE  LET z1 == [z EXCEPT !.pending_ors = @ \ {or}]
           IN  z1 \in ZenoMutState /\ Tame(z, z1) /\ z1.reqs_without_ors = z.reqs_without_ors
BY DEF ZenoMutState, Tame

LEMMA WakeNextTame ==
    ASSUME NEW z \in ZenoMutState
    PROVE  WakeNext(z) \in ZenoMutState /\ Tame(z, WakeNext(z))
<1> DEFINE ready == {or \in z.pending_ors : IsNext(z, or) /\ Waiting(z, or.d_req)}
           o     == CHOOSE x \in ready : TRUE
           z1    == [z EXCEPT !.pending_ors = @ \ {o}]
<1>1. CASE ready = {}
  BY <1>1 DEF WakeNext, Tame
<1>2. CASE ready # {}
  <2>1. o \in ready BY <1>2
  <2>2. o \in OrderedRequest BY <2>1 DEF ZenoMutState
  <2>3. z1 \in ZenoMutState /\ Tame(z, z1) /\ Waiting(z1, o.d_req)
    BY <2>1, UnqueueTame DEF Waiting
  <2>4. WakeNext(z) = Wake(z1, o) BY <1>2 DEF WakeNext
  <2> QED BY <2>2, <2>3, <2>4, WakeTame, TameTransitive
<1> QED BY <1>1, <1>2

LEMMA TimerTame ==
    ASSUME NEW z \in ZenoMutState
    PROVE  /\ stop_ihatetheprimary_timer(z) \in ZenoMutState
           /\ Tame(z, stop_ihatetheprimary_timer(z))
           /\ start_ihatetheprimary_timer(z) \in ZenoMutState
           /\ Tame(z, start_ihatetheprimary_timer(z))
<1>1. stop_ihatetheprimary_timer(z) \in ZenoMutState
  BY DEF ZenoMutState, stop_ihatetheprimary_timer
<1>2. start_ihatetheprimary_timer(z) \in ZenoMutState
  <2> DEFINE F == IF z.timer = -1 THEN z.firing ELSE z.firing \cup {z.timer}
  <2>1. F \in SUBSET View /\ z.v \in View BY DEF ZenoMutState
  <2>2. start_ihatetheprimary_timer(z) = [z EXCEPT !.timer = z.v, !.firing = F]
    BY DEF start_ihatetheprimary_timer
  <2> HIDE DEF F
  <2> QED BY <2>1, <2>2 DEF ZenoMutState
<1> QED BY <1>1, <1>2
        DEF Tame, stop_ihatetheprimary_timer, start_ihatetheprimary_timer, ZenoMutState

(***************************************************************************)
(* What running request m in its thread k, as or orders it, may change:    *)
(* besides waking and ending threads it appends to the log, if the checks  *)
(* pass, and then this thread answers or collects commits.                 *)
(***************************************************************************)
AwaitingCommits(z, or, th) ==
    th = [pc |-> "awaitCommit", or |-> or,
          cert |-> {cm \in z.pending_commits : cm.or = or}]

RunEffect(z, z1, or, m, k) ==
    /\ z1.v = z.v /\ z1.view_state = z.view_state
    /\ z1.view_changes = z.view_changes
    /\ z1.ihatetheprimary_accusations = z.ihatetheprimary_accusations
    /\ z1.replies = z.replies /\ z1.last_cc = z.last_cc
    /\ z1.pending_commits \subseteq z.pending_commits
    /\ IF Executes(z, or, m)
       THEN /\ z1.h = Append(z.h, m)
            /\ z1.all_executed_reqs = Append(z.all_executed_reqs, or)
       ELSE z1.h = z.h /\ z1.all_executed_reqs = z.all_executed_reqs
    /\ \A m1 \in Request, k1 \in Copy :
          \/ z1.thr[m1][k1] = z.thr[m1][k1]
          \/ z1.thr[m1][k1] = Finished
          \/ Woken(m1, z1.thr[m1][k1])
          \/ /\ m1 = m /\ Executes(z, or, m)
             /\ IF m.s THEN AwaitingCommits(z, or, z1.thr[m1][k1])
                ELSE z1.thr[m1][k1] = Replying(or)

AwaitEffect(z, z1, or, m) ==
    /\ z1.v = z.v /\ z1.view_state = z.view_state
    /\ z1.view_changes = z.view_changes
    /\ z1.ihatetheprimary_accusations = z.ihatetheprimary_accusations
    /\ z1.replies = z.replies /\ z1.last_cc = z.last_cc
    /\ z1.pending_commits \subseteq z.pending_commits
    /\ z1.h = z.h /\ z1.all_executed_reqs = z.all_executed_reqs
    /\ \A m1 \in Request, k1 \in Copy :
          \/ z1.thr[m1][k1] = z.thr[m1][k1]
          \/ z1.thr[m1][k1] = Finished
          \/ Woken(m1, z1.thr[m1][k1])
          \/ m1 = m /\ AwaitingCommits(z, or, z1.thr[m1][k1])

LEMMA AwaitCommitsEffect ==
    ASSUME NEW z \in ZenoMutState, NEW or \in OrderedRequest,
           NEW m \in Request, NEW k \in Copy
    PROVE  /\ AwaitCommits(z, or, m, k) \in ZenoMutState
           /\ AwaitEffect(z, AwaitCommits(z, or, m, k), or, m)
<1>1. PICK d \in ZenoMutState : d = DropCommitSender(z, m) /\ Tame(z, d)
  BY DropCommitSenderTame
<1>2. PICK C \in CommitCertificate : C = {cm \in z.pending_commits : cm.or = or}
  BY DEF ZenoMutState, CommitCertificate
<1>3. PICK th \in Thread : th = [pc |-> "awaitCommit", or |-> or, cert |-> C]
  BY ThreadTypes
<1> DEFINE z1 == [d EXCEPT !.reqs_without_commits[m] = k,
                           !.pending_commits = {cm \in @ : cm.or.d_req # m},
                           !.thr[m][k] = th]
<1>4. AwaitCommits(z, or, m, k) = z1
  BY <1>1, <1>2, <1>3, Zenon DEF AwaitCommits
<1>5. z1 \in ZenoMutState BY DEF ZenoMutState
<1>6. z1.thr = [d.thr EXCEPT ![m][k] = th] BY DEF ZenoMutState
<1>7. d.thr \in [Request -> [Copy -> Thread]] BY DEF ZenoMutState
<1>8. AwaitingCommits(z, or, th) BY <1>2, <1>3 DEF AwaitingCommits
<1>9. \A m1 \in Request, k1 \in Copy :
         \/ z1.thr[m1][k1] = d.thr[m1][k1]
         \/ m1 = m /\ AwaitingCommits(z, or, z1.thr[m1][k1])
  BY <1>6, <1>7, <1>8, OneThread
<1>10. /\ z1.v = d.v /\ z1.view_state = d.view_state
       /\ z1.view_changes = d.view_changes
       /\ z1.ihatetheprimary_accusations = d.ihatetheprimary_accusations
       /\ z1.replies = d.replies /\ z1.last_cc = d.last_cc
       /\ z1.pending_commits \subseteq d.pending_commits
       /\ z1.h = d.h /\ z1.all_executed_reqs = d.all_executed_reqs
  BY DEF ZenoMutState
<1> HIDE DEF z1
<1>11. AwaitEffect(z, z1, or, m) BY <1>1, <1>9, <1>10 DEF AwaitEffect, Tame
<1> QED BY <1>4, <1>5, <1>11, Zenon

LEMMA ExecuteEffect ==
    ASSUME NEW z \in ZenoMutState, NEW or \in OrderedRequest,
           NEW m \in Request, NEW k \in Copy, Executes(z, or, m)
    PROVE  /\ Execute(z, or, m, k) \in ZenoMutState
           /\ RunEffect(z, Execute(z, or, m, k), or, m, k)
<1> DEFINE z0 == [z EXCEPT !.n = @ + 1, !.h = Append(@, m),
                           !.all_executed_reqs = Append(@, or)]
<1>1. z0 \in ZenoMutState
  <2>1. PICK n1 \in Nat \cup {-1} : n1 = z.n + 1 BY DEF ZenoMutState
  <2>2. PICK h1 \in Seq(Request) : h1 = Append(z.h, m)
    <3>1. z.h \in Seq(Request) BY DEF ZenoMutState
    <3> QED BY <3>1, AppendProperties
  <2>3. PICK a1 \in Seq(OrderedRequest) : a1 = Append(z.all_executed_reqs, or)
    <3>1. z.all_executed_reqs \in Seq(OrderedRequest) BY DEF ZenoMutState
    <3> QED BY <3>1, AppendProperties
  <2>4. z0 = [z EXCEPT !.n = n1, !.h = h1, !.all_executed_reqs = a1]
    BY <2>1, <2>2, <2>3, Zenon
  <2>5. [z EXCEPT !.n = n1, !.h = h1, !.all_executed_reqs = a1] \in ZenoMutState
    BY DEF ZenoMutState
  <2> QED BY <2>4, <2>5, Zenon
<1>2. /\ z0.v = z.v /\ z0.view_state = z.view_state
      /\ z0.view_changes = z.view_changes
      /\ z0.ihatetheprimary_accusations = z.ihatetheprimary_accusations
      /\ z0.replies = z.replies /\ z0.last_cc = z.last_cc
      /\ z0.pending_commits = z.pending_commits
      /\ z0.h = Append(z.h, m)
      /\ z0.all_executed_reqs = Append(z.all_executed_reqs, or)
      /\ z0.thr = z.thr
  BY DEF ZenoMutState
<1> HIDE DEF z0
<1>3. PICK w \in ZenoMutState : w = WakeNext(z0) /\ Tame(z0, w)
  BY <1>1, WakeNextTame
<1>4. CASE m.s
  <2>1. Execute(z, or, m, k) = AwaitCommits(w, or, m, k)
    BY <1>3, <1>4, Zenon DEF Execute, z0
  <2>2. PICK a \in ZenoMutState :
           a = AwaitCommits(w, or, m, k) /\ AwaitEffect(w, a, or, m)
    BY AwaitCommitsEffect, Zenon
  <2>3. w.pending_commits = z.pending_commits BY <1>2, <1>3 DEF Tame
  <2>4. \A th : AwaitingCommits(w, or, th) => AwaitingCommits(z, or, th)
    BY <2>3 DEF AwaitingCommits
  <2>5. \A m1 \in Request, k1 \in Copy :
           \/ a.thr[m1][k1] = z.thr[m1][k1]
           \/ a.thr[m1][k1] = Finished
           \/ Woken(m1, a.thr[m1][k1])
           \/ m1 = m /\ AwaitingCommits(z, or, a.thr[m1][k1])
    BY <1>2, <1>3, <2>2, <2>4 DEF Tame, AwaitEffect
  <2>6. RunEffect(z, a, or, m, k)
    BY <1>2, <1>3, <1>4, <2>2, <2>5 DEF RunEffect, Tame, AwaitEffect
  <2> QED BY <2>1, <2>2, <2>6, Zenon
<1>5. CASE ~m.s
  <2>1. PICK th \in Thread : th = Replying(or) BY ThreadTypes
  <2> DEFINE z1 == [w EXCEPT !.thr[m][k] = th]
  <2>2. Execute(z, or, m, k) = z1 BY <1>3, <1>5, <2>1, Zenon DEF Execute, z0
  <2>3. z1 \in ZenoMutState BY SetThreadType, Zenon
  <2>4. z1.thr = [w.thr EXCEPT ![m][k] = th] BY DEF ZenoMutState
  <2>5. w.thr \in [Request -> [Copy -> Thread]] BY DEF ZenoMutState
  <2>6. \A m1 \in Request, k1 \in Copy :
           \/ z1.thr[m1][k1] = w.thr[m1][k1]
           \/ m1 = m /\ z1.thr[m1][k1] = Replying(or)
    BY <2>1, <2>4, <2>5, OneThread
  <2>7. /\ z1.v = w.v /\ z1.view_state = w.view_state
        /\ z1.view_changes = w.view_changes
        /\ z1.ihatetheprimary_accusations = w.ihatetheprimary_accusations
        /\ z1.replies = w.replies /\ z1.last_cc = w.last_cc
        /\ z1.pending_commits = w.pending_commits
        /\ z1.h = w.h /\ z1.all_executed_reqs = w.all_executed_reqs
    BY DEF ZenoMutState
  <2> HIDE DEF z1
  <2>8. RunEffect(z, z1, or, m, k)
    BY <1>2, <1>3, <1>5, <2>6, <2>7 DEF RunEffect, Tame
  <2> QED BY <2>2, <2>3, <2>8
<1> QED BY <1>4, <1>5

LEMMA RunLemma ==
    ASSUME NEW z \in ZenoMutState, NEW or \in OrderedRequest,
           NEW m \in Request, NEW k \in Copy
    PROVE  /\ check_and_execute_request(z, or, m, k) \in ZenoMutState
           /\ RunEffect(z, check_and_execute_request(z, or, m, k), or, m, k)
<1>1. CASE Executes(z, or, m)
  BY <1>1, ExecuteEffect DEF check_and_execute_request
<1>2. CASE ~Executes(z, or, m) /\ Panics(z, or, m)
  <2>1. check_and_execute_request(z, or, m, k) = [z EXCEPT !.poisoned = TRUE]
    BY <1>2, Zenon DEF check_and_execute_request
  <2> DEFINE z1 == [z EXCEPT !.poisoned = TRUE]
  <2>2. z1 \in ZenoMutState BY DEF ZenoMutState
  <2>3. RunEffect(z, z1, or, m, k) BY <1>2 DEF RunEffect, ZenoMutState
  <2> QED BY <2>1, <2>2, <2>3, Zenon
<1>3. CASE ~Executes(z, or, m) /\ ~Panics(z, or, m)
  <2>1. PICK th \in Thread : th = Finished BY ThreadTypes
  <2> DEFINE z1 == [z EXCEPT !.thr[m][k] = th]
  <2>2. check_and_execute_request(z, or, m, k) = z1
    BY <1>3, <2>1, Zenon DEF check_and_execute_request
  <2>3. z1 \in ZenoMutState BY SetThreadType, Zenon
  <2>4. z1.thr = [z.thr EXCEPT ![m][k] = th] BY DEF ZenoMutState
  <2>5. z.thr \in [Request -> [Copy -> Thread]] BY DEF ZenoMutState
  <2>6. \A m1 \in Request, k1 \in Copy :
           z1.thr[m1][k1] = z.thr[m1][k1] \/ z1.thr[m1][k1] = Finished
    BY <2>1, <2>4, <2>5, OneThread
  <2>7. /\ z1.v = z.v /\ z1.view_state = z.view_state
        /\ z1.view_changes = z.view_changes
        /\ z1.ihatetheprimary_accusations = z.ihatetheprimary_accusations
        /\ z1.replies = z.replies /\ z1.last_cc = z.last_cc
        /\ z1.pending_commits = z.pending_commits
        /\ z1.h = z.h /\ z1.all_executed_reqs = z.all_executed_reqs
    BY DEF ZenoMutState
  <2> HIDE DEF z1
  <2>8. RunEffect(z, z1, or, m, k) BY <1>3, <2>6, <2>7 DEF RunEffect
  <2> QED BY <2>2, <2>3, <2>8
<1> QED BY <1>1, <1>2, <1>3

-----------------------------------------------------------------------------
(* The other handlers                                                      *)

LEMMA AwaitOrEffect ==
    ASSUME NEW z \in ZenoMutState, NEW m \in Request, NEW k \in Copy,
           z.thr[m][k].pc = "new"
    PROVE  LET z1 == [DropOrSender(z, m) EXCEPT !.reqs_without_ors[m] = k,
                                                !.thr[m][k].pc = "awaitOr"]
           IN  /\ z1 \in ZenoMutState
               /\ z1.v = z.v /\ z1.view_state = z.view_state
               /\ z1.view_changes = z.view_changes
               /\ z1.ihatetheprimary_accusations = z.ihatetheprimary_accusations
               /\ z1.h = z.h /\ z1.all_executed_reqs = z.all_executed_reqs
               /\ z1.replies = z.replies
               /\ z1.pending_commits = z.pending_commits
               /\ z1.last_cc = z.last_cc
               /\ \A m1 \in Request, k1 \in Copy :
                     \/ z1.thr[m1][k1] \in {z.thr[m1][k1], Finished}
                     \/ z1.thr[m1][k1] = [pc |-> "awaitOr", or |-> NoOr, cert |-> {}]
<1>1. PICK d \in ZenoMutState : d = DropOrSender(z, m) /\ Tame(z, d)
  BY DropOrSenderTame
<1>2. \A m1 \in Request, k1 \in Copy : d.thr[m1][k1] \in {z.thr[m1][k1], Finished}
  BY <1>1, DropOrSenderTame
<1>3. PICK th \in Thread : th = [pc |-> "awaitOr", or |-> NoOr, cert |-> {}]
  BY DEF Thread
<1>4. [d.thr[m][k] EXCEPT !.pc = "awaitOr"] = th
  <2>1. d.thr[m][k] = [pc |-> "new", or |-> NoOr, cert |-> {}]
        \/ d.thr[m][k] = [pc |-> "done", or |-> NoOr, cert |-> {}]
    <3>1. z.thr[m][k] \in Thread BY DEF ZenoMutState
    <3>2. z.thr[m][k] = [pc |-> "new", or |-> NoOr, cert |-> {}]
      BY <3>1 DEF Thread
    <3> QED BY <1>2, <3>2 DEF Finished
  <2>2. CASE d.thr[m][k] = [pc |-> "new", or |-> NoOr, cert |-> {}]
    <3>1. [[pc |-> "new", or |-> NoOr, cert |-> {}] EXCEPT !.pc = "awaitOr"] = th
      BY <1>3
    <3> QED BY <2>2, <3>1, Zenon
  <2>3. CASE d.thr[m][k] = [pc |-> "done", or |-> NoOr, cert |-> {}]
    <3>1. [[pc |-> "done", or |-> NoOr, cert |-> {}] EXCEPT !.pc = "awaitOr"] = th
      BY <1>3
    <3> QED BY <2>3, <3>1, Zenon
  <2> QED BY <2>1, <2>2, <2>3
<1> DEFINE z1 == [d EXCEPT !.reqs_without_ors[m] = k, !.thr[m][k] = th]
<1>5. [DropOrSender(z, m) EXCEPT !.reqs_without_ors[m] = k,
                                 !.thr[m][k].pc = "awaitOr"] = z1
  BY <1>1, <1>4, Zenon
<1>6. z1 \in ZenoMutState BY DEF ZenoMutState
<1>7. z1.thr = [d.thr EXCEPT ![m][k] = th] BY DEF ZenoMutState
<1>8. d.thr \in [Request -> [Copy -> Thread]] BY DEF ZenoMutState
<1>9. \A m1 \in Request, k1 \in Copy :
         z1.thr[m1][k1] = d.thr[m1][k1] \/ z1.thr[m1][k1] = th
  BY <1>7, <1>8, OneThread
<1>10. /\ z1.v = d.v /\ z1.view_state = d.view_state
       /\ z1.view_changes = d.view_changes
       /\ z1.ihatetheprimary_accusations = d.ihatetheprimary_accusations
       /\ z1.replies = d.replies /\ z1.last_cc = d.last_cc
       /\ z1.pending_commits = d.pending_commits
       /\ z1.h = d.h /\ z1.all_executed_reqs = d.all_executed_reqs
  BY DEF ZenoMutState
<1> HIDE DEF z1
<1> QED BY <1>1, <1>2, <1>3, <1>5, <1>6, <1>9, <1>10 DEF Tame

LEMMA AddCommitEffect ==
    ASSUME NEW z \in ZenoMutState, NEW cm \in Commit
    PROVE  LET z1 == AddCommit(z, cm)
           IN  /\ z1 \in ZenoMutState
               /\ z1.v = z.v /\ z1.view_state = z.view_state
               /\ z1.view_changes = z.view_changes
               /\ z1.ihatetheprimary_accusations = z.ihatetheprimary_accusations
               /\ z1.h = z.h /\ z1.all_executed_reqs = z.all_executed_reqs
               /\ z1.replies = z.replies /\ z1.last_cc = z.last_cc
               /\ z1.pending_commits \subseteq z.pending_commits \cup {cm}
               /\ \A m1 \in Request, k1 \in Copy :
                     \/ z1.thr[m1][k1] = z.thr[m1][k1]
                     \/ /\ z.thr[m1][k1].or = cm.or
                        /\ z1.thr[m1][k1] =
                              [z.thr[m1][k1] EXCEPT !.cert = @ \cup {cm}]
<1>1. PICK m \in Request : m = cm.or.d_req BY DEF Commit, OrderedRequest
<1>2. CASE z.reqs_without_commits[m] = 0
  <2> DEFINE z1 == [z EXCEPT !.pending_commits = @ \cup {cm}]
  <2>1. AddCommit(z, cm) = z1 BY <1>1, <1>2, Zenon DEF AddCommit
  <2>2. z1 \in ZenoMutState BY DEF ZenoMutState
  <2>3. /\ z1.v = z.v /\ z1.view_state = z.view_state
        /\ z1.view_changes = z.view_changes
        /\ z1.ihatetheprimary_accusations = z.ihatetheprimary_accusations
        /\ z1.h = z.h /\ z1.all_executed_reqs = z.all_executed_reqs
        /\ z1.replies = z.replies /\ z1.last_cc = z.last_cc
        /\ z1.pending_commits = z.pending_commits \cup {cm}
        /\ z1.thr = z.thr
    BY DEF ZenoMutState
  <2> HIDE DEF z1
  <2> QED BY <2>1, <2>2, <2>3
<1>3. CASE z.reqs_without_commits[m] # 0
  <2>1. PICK k \in Copy : k = z.reqs_without_commits[m] BY <1>3 DEF ZenoMutState
  <2>2. CASE ~(cm.or = z.thr[m][k].or /\ ~HasQuorum(z.thr[m][k].cert))
    BY <1>1, <1>3, <2>1, <2>2 DEF AddCommit
  <2>3. CASE cm.or = z.thr[m][k].or /\ ~HasQuorum(z.thr[m][k].cert)
    <3> DEFINE th == [z.thr[m][k] EXCEPT !.cert = @ \cup {cm}]
               z1 == [z EXCEPT !.thr[m][k] = th]
    <3>1. th \in Thread
      <4>1. z.thr[m][k] \in Thread BY DEF ZenoMutState
      <4>2. z.thr[m][k].or \in OrderedRequest BY <2>3 DEF Commit
      <4>3. z.thr[m][k] \in [pc : {"gotOr", "awaitCommit", "reply", "done"},
                             or : OrderedRequest, cert : CommitCertificate]
        BY <4>1, <4>2, NoOrAssumption DEF Thread
      <4>4. th \in [pc : {"gotOr", "awaitCommit", "reply", "done"},
                    or : OrderedRequest, cert : CommitCertificate]
        BY <4>3 DEF CommitCertificate
      <4> QED BY <4>4 DEF Thread
    <3>2. AddCommit(z, cm) = z1
      BY <1>1, <1>3, <2>1, <2>3, Zenon DEF AddCommit
    <3>3. z1 \in ZenoMutState BY <3>1, SetThreadType, Zenon
    <3> HIDE DEF th
    <3>4. z1.thr = [z.thr EXCEPT ![m][k] = th] BY DEF ZenoMutState
    <3>5. z.thr \in [Request -> [Copy -> Thread]] BY DEF ZenoMutState
    <3>6. \A m1 \in Request, k1 \in Copy :
             z1.thr[m1][k1] = IF m1 = m /\ k1 = k THEN th ELSE z.thr[m1][k1]
      BY <3>4, <3>5, OneThread
    <3>7. /\ z1.v = z.v /\ z1.view_state = z.view_state
          /\ z1.view_changes = z.view_changes
          /\ z1.ihatetheprimary_accusations = z.ihatetheprimary_accusations
          /\ z1.h = z.h /\ z1.all_executed_reqs = z.all_executed_reqs
          /\ z1.replies = z.replies /\ z1.last_cc = z.last_cc
          /\ z1.pending_commits = z.pending_commits
      BY DEF ZenoMutState
    <3> HIDE DEF z1
    <3>8. \A m1 \in Request, k1 \in Copy :
             \/ z1.thr[m1][k1] = z.thr[m1][k1]
             \/ /\ z.thr[m1][k1].or = cm.or
                /\ z1.thr[m1][k1] = [z.thr[m1][k1] EXCEPT !.cert = @ \cup {cm}]
      BY <2>3, <3>6 DEF th
    <3> QED BY <3>2, <3>3, <3>7, <3>8, Zenon
  <2> QED BY <2>2, <2>3
<1> QED BY <1>2, <1>3

LEMMA CertifyEffect ==
    ASSUME NEW z \in ZenoMutState, NEW m \in Request, NEW k \in Copy,
           z.thr[m][k].pc = "awaitCommit", HasQuorum(z.thr[m][k].cert)
    PROVE  LET z1 == Certify(z, m, k)
           IN  /\ z1 \in ZenoMutState
               /\ z1.v = z.v /\ z1.view_state = z.view_state
               /\ z1.view_changes = z.view_changes
               /\ z1.ihatetheprimary_accusations = z.ihatetheprimary_accusations
               /\ z1.h = z.h /\ z1.all_executed_reqs = z.all_executed_reqs
               /\ z1.replies = z.replies
               /\ z1.pending_commits = z.pending_commits
               /\ z1.last_cc = z.thr[m][k].cert
               /\ \A m1 \in Request, k1 \in Copy :
                     \/ z1.thr[m1][k1] = z.thr[m1][k1]
                     \/ z1.thr[m1][k1] = Finished
                     \/ Woken(m1, z1.thr[m1][k1])
                     \/ /\ m1 = m /\ k1 = k
                        /\ z1.thr[m1][k1] = Replying(z.thr[m][k].or)
<1>1. PICK d \in ZenoMutState :
         /\ d = DropCommitSender(z, m) /\ Tame(z, d)
         /\ d.thr[m][k] = z.thr[m][k]
  BY DropCommitSenderTame
<1>2. z.thr[m][k] \in [pc : {"gotOr", "awaitCommit", "reply", "done"},
                       or : OrderedRequest, cert : CommitCertificate]
  <2>1. z.thr[m][k] \in Thread BY DEF ZenoMutState
  <2> QED BY <2>1 DEF Thread
<1>3. PICK cert \in CommitCertificate : cert = z.thr[m][k].cert BY <1>2
<1>4. PICK th \in Thread : th = Replying(z.thr[m][k].or) BY <1>2, ThreadTypes
<1> DEFINE z1 == [d EXCEPT !.last_cc = cert, !.thr[m][k] = th]
<1>5. Certify(z, m, k) = z1 BY <1>1, <1>3, <1>4, Zenon DEF Certify
<1>6. z1 \in ZenoMutState BY DEF ZenoMutState
<1>7. z1.thr = [d.thr EXCEPT ![m][k] = th] BY DEF ZenoMutState
<1>8. d.thr \in [Request -> [Copy -> Thread]] BY DEF ZenoMutState
<1>9. \A m1 \in Request, k1 \in Copy :
         z1.thr[m1][k1] = IF m1 = m /\ k1 = k THEN th ELSE d.thr[m1][k1]
  BY <1>7, <1>8, OneThread
<1>10. /\ z1.v = d.v /\ z1.view_state = d.view_state
       /\ z1.view_changes = d.view_changes
       /\ z1.ihatetheprimary_accusations = d.ihatetheprimary_accusations
       /\ z1.replies = d.replies /\ z1.last_cc = cert
       /\ z1.pending_commits = d.pending_commits
       /\ z1.h = d.h /\ z1.all_executed_reqs = d.all_executed_reqs
  BY DEF ZenoMutState
<1> HIDE DEF z1
<1> QED BY <1>1, <1>3, <1>4, <1>5, <1>6, <1>9, <1>10 DEF Tame

LEMMA HaltedTame ==
    ASSUME NEW z \in ZenoMutState
    PROVE  Halted(z) \in ZenoMutState /\ Tame(z, Halted(z))
<1> DEFINE T == [m \in Request |-> [k \in Copy |->
                  IF \/ z.thr[m][k].pc = "awaitOr"
                     \/ z.thr[m][k].pc = "awaitCommit" /\ ~HasQuorum(z.thr[m][k].cert)
                  THEN Finished ELSE z.thr[m][k]]]
           O == [m \in Request |-> 0]
           z1 == [z EXCEPT !.alive = FALSE, !.reqs_without_ors = O,
                           !.reqs_without_commits = O, !.thr = T]
<1>1. Halted(z) = z1 BY Zenon DEF Halted
<1>2. T \in [Request -> [Copy -> Thread]] BY ThreadTypes DEF ZenoMutState
<1>3. O \in [Request -> Copy \cup {0}] OBVIOUS
<1>4. \A m \in Request, k \in Copy : T[m][k] = z.thr[m][k] \/ T[m][k] = Finished
  OBVIOUS
<1> HIDE DEF T, O
<1>5. z1 \in ZenoMutState BY <1>2, <1>3 DEF ZenoMutState
<1>6. Tame(z, z1) BY <1>4 DEF ZenoMutState, Tame
<1> QED BY <1>1, <1>5, <1>6, Zenon

LEMMA order_messageType ==
    ASSUME NEW q \in Replica, NEW z \in ZenoMutState, NEW m \in Request,
           order_message(q, z, m) # NoOr
    PROVE  /\ order_message(q, z, m) \in OrderedRequest
           /\ order_message(q, z, m).d_req = m
<1>1. z.v \in View /\ z.n + 1 \in Nat /\ z.h \in Seq(Request) BY DEF ZenoMutState
<1>2. PICK h \in Seq(Request) : h = Append(z.h, m) BY <1>1, AppendProperties
<1>3. order_message(q, z, m) =
         [v |-> z.v, n |-> z.n + 1, h |-> h, d_req |-> m, i |-> q]
  BY <1>2 DEF order_message
<1> QED BY <1>1, <1>3 DEF OrderedRequest

LEMMA CcNType ==
    ASSUME NEW cc \in CommitCertificate
    PROVE  CcN(cc) \in Int /\ CcN(cc) >= -1
BY DEF CcN, CommitCertificate, Commit, OrderedRequest

LEMMA ViewChangeOfType ==
    ASSUME NEW q \in Replica, NEW z \in ZenoMutState, NEW v \in View, HasSuffix(z)
    PROVE  ViewChangeOf(q, z, v) \in ViewChange /\ ViewChangeOf(q, z, v).v = v
<1>1. z.all_executed_reqs \in Seq(OrderedRequest) /\ z.last_cc \in CommitCertificate
  BY DEF ZenoMutState
<1>2. PICK o \in Seq(OrderedRequest) :
         o = IF z.last_cc = {} THEN <<>>
             ELSE SubSeq(z.all_executed_reqs, CcN(z.last_cc) + 2,
                         Len(z.all_executed_reqs))
  <2>1. CASE z.last_cc = {}
    <3>1. <<>> \in Seq(OrderedRequest) OBVIOUS
    <3> QED BY <2>1, <3>1, Zenon
  <2>2. CASE z.last_cc # {}
    <3>1. /\ CcN(z.last_cc) + 2 \in Int /\ CcN(z.last_cc) + 2 >= 1
          /\ Len(z.all_executed_reqs) \in Int
      BY <1>1, CcNType
    <3>2. \A x \in CcN(z.last_cc) + 2 .. Len(z.all_executed_reqs) :
             z.all_executed_reqs[x] \in OrderedRequest
      BY <1>1, <3>1
    <3>3. SubSeq(z.all_executed_reqs, CcN(z.last_cc) + 2,
                 Len(z.all_executed_reqs)) \in Seq(OrderedRequest)
      BY <3>1, <3>2, SubSeqProperties
    <3> QED BY <2>2, <3>3
  <2> QED BY <2>1, <2>2
<1>3. ViewChangeOf(q, z, v) = [v |-> v, cc |-> z.last_cc, i |-> q, o |-> o]
  BY <1>2 DEF ViewChangeOf
<1> QED BY <1>1, <1>3 DEF ViewChange

LEMMA PrimaryType ==
    ASSUME NEW v \in View
    PROVE  get_primary_for_view(v) \in Replica
<1>1. PICK L \in Nat : L = Len(Pubkeys) /\ L > 0 /\ Pubkeys \in Seq(Replica)
  BY ReplicaAssumption
<1>2. (v % L) + 1 \in 1 .. L BY <1>1 DEF View
<1> QED BY <1>1, <1>2 DEF get_primary_for_view

-----------------------------------------------------------------------------
(* Threads that wait, and the queue                                        *)

(***************************************************************************)
(* Of request m: the channels registered for it, ro and rc, are those of   *)
(* threads of T that wait for an OR and for commits; and a thread that     *)
(* still needs commits is the one they are sent to, with none left in the  *)
(* queue C that it needs.                                                  *)
(***************************************************************************)
WaitsFor(m, ro, rc, T, C) ==
    /\ ro # 0 => T[ro].pc = "awaitOr"
    /\ rc # 0 => T[rc].pc = "awaitCommit"
    /\ \A k \in Copy : T[k].pc = "awaitCommit" =>
          /\ T[k].or.d_req = m
          /\ HasQuorum(T[k].cert) \/ (rc = k /\ \A cm \in C : cm.or # T[k].or)

Waits(z) ==
    \A m \in Request :
        WaitsFor(m, z.reqs_without_ors[m], z.reqs_without_commits[m], z.thr[m],
                 z.pending_commits)

UniqueNs(z) == \A o1, o2 \in z.pending_ors : o1.n = o2.n => o1 = o2

\* Nobody waits for the OR in front of the queue if its turn has come.
Queue(z) ==
    /\ UniqueNs(z)
    /\ \A or \in z.pending_ors : ~(IsNext(z, or) /\ Waiting(z, or.d_req))

\* What others may do to a thread th: end it if it waits, or hand it an
\* ordered request of S, if it waits for one, that is not ahead of n.
ThreadMoves(S, n, th, th1) ==
    \/ th1 = th
    \/ th.pc \in {"awaitOr", "awaitCommit"} /\ th1 = Finished
    \/ /\ th.pc = "awaitOr"
       /\ \E or \in S : or.n <= n /\ th1 = [pc |-> "gotOr", or |-> or, cert |-> {}]

\* What the channels and the queue may change when the ORs in S come in.
Moves(S, z, z1) ==
    /\ z1.poisoned = z.poisoned /\ z1.n = z.n
    /\ z1.pending_ors \subseteq z.pending_ors \cup S
    /\ \A m \in Request, k \in Copy :
          ThreadMoves(z.pending_ors \cup S, z.n + 1, z.thr[m][k], z1.thr[m][k])

LEMMA MoreMoves ==
    ASSUME NEW S, NEW S1, NEW n, NEW th, NEW th1, ThreadMoves(S, n, th, th1)
    PROVE  ThreadMoves(S1 \cup S, n, th, th1)
BY Zenon DEF ThreadMoves

LEMMA MoveTwice ==
    ASSUME NEW S, NEW S1, S1 \subseteq S, NEW n, NEW th, NEW th1, NEW th2,
           ThreadMoves(S, n, th, th1), ThreadMoves(S1, n, th1, th2)
    PROVE  ThreadMoves(S, n, th, th2)
<1>1. Finished.pc = "done" BY DEF Finished
<1>2. \A or : [pc |-> "gotOr", or |-> or, cert |-> {}].pc = "gotOr" OBVIOUS
<1>3. th1 = th \/ th1.pc \in {"done", "gotOr"}
  BY <1>1, <1>2, Zenon DEF ThreadMoves
<1> QED BY <1>3 DEF ThreadMoves

LEMMA MovesTransitive ==
    ASSUME NEW S, NEW z1, NEW z2, NEW z3, Moves(S, z1, z2), Moves(S, z2, z3)
    PROVE  Moves(S, z1, z3)
<1>1. ASSUME NEW m \in Request, NEW k \in Copy
      PROVE  ThreadMoves(z1.pending_ors \cup S, z1.n + 1, z1.thr[m][k], z3.thr[m][k])
  <2>1. /\ ThreadMoves(z1.pending_ors \cup S, z1.n + 1, z1.thr[m][k], z2.thr[m][k])
        /\ ThreadMoves(z2.pending_ors \cup S, z2.n + 1, z2.thr[m][k], z3.thr[m][k])
    BY DEF Moves
  <2>2. z2.pending_ors \cup S \subseteq z1.pending_ors \cup S /\ z2.n = z1.n
    BY DEF Moves
  <2>3. z2.thr[m][k] = z1.thr[m][k] \/ z2.thr[m][k].pc \in {"done", "gotOr"}
    <3>1. Finished.pc = "done" BY DEF Finished
    <3>2. \A or : [pc |-> "gotOr", or |-> or, cert |-> {}].pc = "gotOr" OBVIOUS
    <3> QED BY <2>1, <3>1, <3>2, Zenon DEF ThreadMoves
  <2> QED BY <2>1, <2>2, <2>3 DEF ThreadMoves
<1> QED BY <1>1 DEF Moves

\* Replacing a thread that waits for its OR by one that does not.
LEMMA OrSenderUsed ==
    ASSUME NEW m, NEW ro \in Copy, NEW rc, NEW T \in [Copy -> Thread], NEW C,
           WaitsFor(m, ro, rc, T, C),
           NEW th, th.pc \notin {"awaitOr", "awaitCommit"}
    PROVE  WaitsFor(m, 0, rc, [T EXCEPT ![ro] = th], C)
<1> DEFINE T1 == [T EXCEPT ![ro] = th]
<1>1. \A k \in Copy : T1[k] = IF k = ro THEN th ELSE T[k] OBVIOUS
<1>2. T[ro].pc = "awaitOr" /\ rc # ro BY DEF WaitsFor, Copy
<1>3. rc # 0 => T1[rc].pc = "awaitCommit" BY <1>2 DEF WaitsFor
<1> HIDE DEF T1
<1> QED BY <1>1, <1>2, <1>3 DEF WaitsFor

\* Replacing a thread that does not wait by another one.
LEMMA OtherThread ==
    ASSUME NEW m, NEW ro, NEW rc, NEW T \in [Copy -> Thread], NEW C,
           WaitsFor(m, ro, rc, T, C), NEW k \in Copy,
           T[k].pc \notin {"awaitOr", "awaitCommit"},
           NEW th, th.pc \notin {"awaitOr", "awaitCommit"}
    PROVE  WaitsFor(m, ro, rc, [T EXCEPT ![k] = th], C)
<1> DEFINE T1 == [T EXCEPT ![k] = th]
<1>1. \A j \in Copy : T1[j] = IF j = k THEN th ELSE T[j] OBVIOUS
<1>2. (ro # 0 => ro # k) /\ (rc # 0 => rc # k) BY DEF WaitsFor
<1>3. ro # 0 => T1[ro].pc = "awaitOr" BY <1>2 DEF WaitsFor
<1>4. rc # 0 => T1[rc].pc = "awaitCommit" BY <1>2 DEF WaitsFor
<1> HIDE DEF T1
<1> QED BY <1>1, <1>3, <1>4 DEF WaitsFor

\* A change that concerns the threads and channels of one request.
LEMMA WaitsChange ==
    ASSUME NEW z, NEW z1, NEW m \in Request, Waits(z),
           \A m1 \in Request : m1 # m =>
              /\ z1.reqs_without_ors[m1] = z.reqs_without_ors[m1]
              /\ z1.reqs_without_commits[m1] = z.reqs_without_commits[m1]
              /\ z1.thr[m1] = z.thr[m1],
           z1.pending_commits \subseteq z.pending_commits,
           WaitsFor(m, z1.reqs_without_ors[m], z1.reqs_without_commits[m],
                    z1.thr[m], z1.pending_commits)
    PROVE  Waits(z1)
BY DEF Waits, WaitsFor

\* The queue and the channels of waiting threads do not gain anything.
LEMMA QueueKept ==
    ASSUME NEW z, NEW z1, Queue(z), z1.n = z.n, z1.pending_ors = z.pending_ors,
           \A m \in Request :
              z1.reqs_without_ors[m] \in {0, z.reqs_without_ors[m]},
           z.pending_ors \subseteq OrderedRequest
    PROVE  Queue(z1)
BY DEF Queue, UniqueNs, IsNext, Waiting, OrderedRequest

\* A thread whose channel was closed, or carried an OR of S not beyond n.
Served(S, n, th) ==
    \/ th = Finished
    \/ \E or \in S : or.n <= n /\ th = [pc |-> "gotOr", or |-> or, cert |-> {}]

\* Thread ro of m is left as th, and its channel is gone.
UsesOrSender(z, z1, m, ro, th) ==
    /\ z1.poisoned = z.poisoned /\ z1.n = z.n
    /\ z1.pending_ors = z.pending_ors
    /\ z1.pending_commits = z.pending_commits
    /\ z1.reqs_without_commits = z.reqs_without_commits
    /\ z1.reqs_without_ors = [z.reqs_without_ors EXCEPT ![m] = 0]
    /\ z1.thr = [z.thr EXCEPT ![m][ro] = th]

LEMMA UseOrSenderMoves ==
    ASSUME NEW z \in ZenoMutState, NEW m \in Request, NEW S, Waits(z),
           NEW ro \in Copy, ro = z.reqs_without_ors[m],
           NEW th, Served(S, z.n + 1, th), NEW z1, UsesOrSender(z, z1, m, ro, th)
    PROVE  /\ Moves(S, z, z1) /\ Waits(z1)
           /\ Queue(z) => Queue(z1)
<1>1. /\ z1.poisoned = z.poisoned /\ z1.n = z.n
      /\ z1.pending_ors = z.pending_ors
      /\ z1.pending_commits = z.pending_commits
      /\ z1.reqs_without_commits = z.reqs_without_commits
      /\ z1.reqs_without_ors = [z.reqs_without_ors EXCEPT ![m] = 0]
      /\ z1.thr = [z.thr EXCEPT ![m][ro] = th]
  BY DEF UsesOrSender
<1>2. /\ z.thr \in [Request -> [Copy -> Thread]]
      /\ z.reqs_without_ors \in [Request -> Copy \cup {0}]
      /\ z.pending_ors \subseteq OrderedRequest
  BY DEF ZenoMutState
<1>3. z1.thr[m] = [z.thr[m] EXCEPT ![ro] = th] BY <1>1, <1>2
<1>4. \A m1 \in Request : m1 # m => z1.thr[m1] = z.thr[m1] BY <1>1, <1>2
<1>5. z1.reqs_without_ors[m] = 0
      /\ \A m1 \in Request :
            m1 # m => z1.reqs_without_ors[m1] = z.reqs_without_ors[m1]
  BY <1>1, <1>2
<1>6. WaitsFor(m, ro, z.reqs_without_commits[m], z.thr[m], z.pending_commits)
  BY DEF Waits
<1>7. th.pc \notin {"awaitOr", "awaitCommit"} BY DEF Served, Finished
<1>8. z.thr[m] \in [Copy -> Thread] BY <1>1, <1>2
<1>9. WaitsFor(m, 0, z.reqs_without_commits[m], z1.thr[m], z.pending_commits)
  BY <1>3, <1>6, <1>7, <1>8, OrSenderUsed
<1>10. Waits(z1)
  <2>1. WaitsFor(m, z1.reqs_without_ors[m], z1.reqs_without_commits[m],
                 z1.thr[m], z1.pending_commits)
    BY <1>1, <1>5, <1>9, Zenon
  <2>2. z1.pending_commits \subseteq z.pending_commits BY <1>1
  <2>3. \A m1 \in Request : m1 # m =>
           /\ z1.reqs_without_ors[m1] = z.reqs_without_ors[m1]
           /\ z1.reqs_without_commits[m1] = z.reqs_without_commits[m1]
           /\ z1.thr[m1] = z.thr[m1]
    BY <1>1, <1>4, <1>5
  <2> QED BY <2>1, <2>2, <2>3, WaitsChange
<1>11. z.thr[m][ro].pc = "awaitOr" BY <1>6 DEF WaitsFor, Copy
<1>12. \A m1 \in Request, k1 \in Copy :
          ThreadMoves(S, z.n + 1, z.thr[m1][k1], z1.thr[m1][k1])
  <2> TAKE m1 \in Request, k1 \in Copy
  <2>1. z1.thr[m1][k1] = IF m1 = m /\ k1 = ro THEN th ELSE z.thr[m1][k1]
    BY <1>1, <1>2, OneThread
  <2> QED BY <1>11, <2>1 DEF ThreadMoves, Served
<1>13. Moves(S, z, z1)
  <2>1. \A m1 \in Request, k1 \in Copy :
           ThreadMoves(z.pending_ors \cup S, z.n + 1, z.thr[m1][k1], z1.thr[m1][k1])
    BY <1>12, MoreMoves
  <2> QED BY <1>1, <2>1 DEF Moves
<1>14. Queue(z) => Queue(z1) BY <1>1, <1>2, <1>5, QueueKept
<1> QED BY <1>10, <1>13, <1>14

\* Thread k of m is replaced by th.
SetsThread(z, z1, m, k, th) ==
    /\ z1.poisoned = z.poisoned /\ z1.n = z.n
    /\ z1.pending_ors = z.pending_ors
    /\ z1.pending_commits = z.pending_commits
    /\ z1.reqs_without_ors = z.reqs_without_ors
    /\ z1.reqs_without_commits = z.reqs_without_commits
    /\ z1.thr = [z.thr EXCEPT ![m][k] = th]

LEMMA SetThreadMoves ==
    ASSUME NEW z \in ZenoMutState, NEW m \in Request, NEW k \in Copy, Waits(z),
           z.thr[m][k].pc \notin {"awaitOr", "awaitCommit"},
           NEW th, th.pc \notin {"awaitOr", "awaitCommit"},
           NEW z1, SetsThread(z, z1, m, k, th)
    PROVE  /\ Waits(z1)
           /\ Queue(z) => Queue(z1)
           /\ z1.poisoned = z.poisoned /\ z1.n = z.n
           /\ z1.pending_ors = z.pending_ors
           /\ \A m1 \in Request, k1 \in Copy :
                 z1.thr[m1][k1] = IF m1 = m /\ k1 = k THEN th ELSE z.thr[m1][k1]
<1>1. z.thr \in [Request -> [Copy -> Thread]] BY DEF ZenoMutState
<1>2. /\ z1.thr[m] = [z.thr[m] EXCEPT ![k] = th] /\ z.thr[m] \in [Copy -> Thread]
      /\ \A m1 \in Request : m1 # m => z1.thr[m1] = z.thr[m1]
  BY <1>1 DEF SetsThread
<1>3. WaitsFor(m, z.reqs_without_ors[m], z.reqs_without_commits[m], z.thr[m],
               z.pending_commits)
  BY DEF Waits
<1>4. WaitsFor(m, z.reqs_without_ors[m], z.reqs_without_commits[m], z1.thr[m],
               z.pending_commits)
  BY <1>2, <1>3, OtherThread
<1>5. Waits(z1)
  <2>1. WaitsFor(m, z1.reqs_without_ors[m], z1.reqs_without_commits[m], z1.thr[m],
                 z1.pending_commits)
    BY <1>4 DEF SetsThread
  <2>2. \A m1 \in Request : m1 # m =>
           /\ z1.reqs_without_ors[m1] = z.reqs_without_ors[m1]
           /\ z1.reqs_without_commits[m1] = z.reqs_without_commits[m1]
           /\ z1.thr[m1] = z.thr[m1]
    BY <1>2 DEF SetsThread
  <2>3. z1.pending_commits \subseteq z.pending_commits BY DEF SetsThread
  <2> QED BY <2>1, <2>2, <2>3, WaitsChange
<1>6. Queue(z) => Queue(z1)
  BY DEF SetsThread, Queue, UniqueNs, IsNext, Waiting
<1>7. \A m1 \in Request, k1 \in Copy :
         z1.thr[m1][k1] = IF m1 = m /\ k1 = k THEN th ELSE z.thr[m1][k1]
  BY <1>1, OneThread DEF SetsThread
<1> QED BY <1>5, <1>6, <1>7 DEF SetsThread

LEMMA NoMoves ==
    ASSUME NEW S, NEW z
    PROVE  Moves(S, z, z)
BY DEF Moves, ThreadMoves

LEMMA DropOrSenderMoves ==
    ASSUME NEW z \in ZenoMutState, NEW m \in Request, NEW S, Waits(z)
    PROVE  LET z1 == DropOrSender(z, m)
           IN  /\ Moves(S, z, z1) /\ Waits(z1)
               /\ Queue(z) => Queue(z1)
               /\ z1.pending_ors = z.pending_ors
               /\ z1.reqs_without_commits = z.reqs_without_commits
               /\ \A m1 \in Request :
                     z1.reqs_without_ors[m1] =
                         IF m1 = m THEN 0 ELSE z.reqs_without_ors[m1]
<1>1. CASE z.reqs_without_ors[m] = 0
  BY <1>1, NoMoves DEF DropOrSender
<1>2. CASE z.reqs_without_ors[m] # 0
  <2>1. PICK th : th = Finished OBVIOUS
  <2>2. PICK ro \in Copy : ro = z.reqs_without_ors[m] BY <1>2 DEF ZenoMutState
  <2> DEFINE z1 == [z EXCEPT !.reqs_without_ors[m] = 0, !.thr[m][ro] = th]
  <2>3. DropOrSender(z, m) = z1 BY <1>2, <2>1, <2>2, Zenon DEF DropOrSender
  <2>4. UsesOrSender(z, z1, m, ro, th) BY DEF ZenoMutState, UsesOrSender
  <2> HIDE DEF z1
  <2>5. Served(S, z.n + 1, th) BY <2>1 DEF Served
  <2>6. Moves(S, z, z1) /\ Waits(z1) /\ (Queue(z) => Queue(z1))
    BY <2>2, <2>4, <2>5, UseOrSenderMoves
  <2>7. \A m1 \in Request :
           z1.reqs_without_ors[m1] = IF m1 = m THEN 0 ELSE z.reqs_without_ors[m1]
    BY <2>4 DEF UsesOrSender, ZenoMutState
  <2> QED BY <2>3, <2>4, <2>6, <2>7 DEF UsesOrSender
<1> QED BY <1>1, <1>2

LEMMA DropCommitSenderMoves ==
    ASSUME NEW z \in ZenoMutState, NEW m \in Request, NEW S, Waits(z)
    PROVE  LET z1 == DropCommitSender(z, m)
           IN  /\ Moves(S, z, z1) /\ Waits(z1)
               /\ z1.pending_ors = z.pending_ors
               /\ z1.reqs_without_ors = z.reqs_without_ors
               /\ \A m1 \in Request, k1 \in Copy :
                     ThreadMoves({}, z.n + 1, z.thr[m1][k1], z1.thr[m1][k1])
               /\ \A m1 \in Request :
                     z1.reqs_without_commits[m1] =
                         IF m1 = m THEN 0 ELSE z.reqs_without_commits[m1]
<1>1. CASE z.reqs_without_commits[m] = 0
  BY <1>1, NoMoves DEF DropCommitSender, ThreadMoves
<1>2. CASE z.reqs_without_commits[m] # 0
  <2>1. PICK rc \in Copy : rc = z.reqs_without_commits[m] BY <1>2 DEF ZenoMutState
  <2>2. PICK th : th = IF HasQuorum(z.thr[m][rc].cert) THEN z.thr[m][rc]
                       ELSE Finished
    OBVIOUS
  <2> DEFINE z1 == [z EXCEPT !.reqs_without_commits[m] = 0, !.thr[m][rc] = th]
  <2>3. DropCommitSender(z, m) = z1
    BY <1>2, <2>1, <2>2 DEF DropCommitSender, ZenoMutState
  <2>4. /\ z1.poisoned = z.poisoned /\ z1.n = z.n
        /\ z1.pending_ors = z.pending_ors
        /\ z1.pending_commits = z.pending_commits
        /\ z1.reqs_without_ors = z.reqs_without_ors
        /\ z1.reqs_without_commits = [z.reqs_without_commits EXCEPT ![m] = 0]
        /\ z1.thr = [z.thr EXCEPT ![m][rc] = th]
    BY DEF ZenoMutState
  <2>5. /\ z.thr \in [Request -> [Copy -> Thread]]
        /\ z.reqs_without_commits \in [Request -> Copy \cup {0}]
    BY DEF ZenoMutState
  <2>6. /\ z1.thr[m] = [z.thr[m] EXCEPT ![rc] = th] /\ z.thr[m] \in [Copy -> Thread]
        /\ \A m1 \in Request : m1 # m => z1.thr[m1] = z.thr[m1]
    BY <2>4, <2>5
  <2>7. \A m1 \in Request :
           z1.reqs_without_commits[m1] =
               IF m1 = m THEN 0 ELSE z.reqs_without_commits[m1]
    BY <2>4, <2>5
  <2> HIDE DEF z1
  <2>8. WaitsFor(m, z.reqs_without_ors[m], rc, z.thr[m], z.pending_commits)
    BY <2>1 DEF Waits
  <2>9. z.thr[m][rc].pc = "awaitCommit" BY <2>8 DEF WaitsFor, Copy
  <2>10. WaitsFor(m, z.reqs_without_ors[m], 0, z1.thr[m], z.pending_commits)
    <3>1. \A k \in Copy : z1.thr[m][k] = IF k = rc THEN th ELSE z.thr[m][k]
      BY <2>6
    <3>2. z.reqs_without_ors[m] # 0 =>
             /\ z.reqs_without_ors[m] # rc
             /\ z.reqs_without_ors[m] \in Copy
      BY <2>8, <2>9 DEF WaitsFor, ZenoMutState
    <3>3. th.pc = "awaitCommit" => th = z.thr[m][rc] /\ HasQuorum(th.cert)
      BY <2>2 DEF Finished
    <3> QED BY <2>8, <3>1, <3>2, <3>3 DEF WaitsFor, Copy
  <2>11. Waits(z1)
    <3>1. z1.reqs_without_commits[m] = 0 BY <2>7
    <3>2. WaitsFor(m, z1.reqs_without_ors[m], z1.reqs_without_commits[m],
                   z1.thr[m], z1.pending_commits)
      BY <2>4, <2>10, <3>1, Zenon
    <3>3. z1.pending_commits \subseteq z.pending_commits BY <2>4
    <3>4. \A m1 \in Request : m1 # m =>
             /\ z1.reqs_without_ors[m1] = z.reqs_without_ors[m1]
             /\ z1.reqs_without_commits[m1] = z.reqs_without_commits[m1]
             /\ z1.thr[m1] = z.thr[m1]
      BY <2>4, <2>6, <2>7
    <3> QED BY <3>2, <3>3, <3>4, WaitsChange
  <2>12. \A m1 \in Request, k1 \in Copy :
            z1.thr[m1][k1] = IF m1 = m /\ k1 = rc THEN th ELSE z.thr[m1][k1]
    BY <2>4, <2>5, OneThread
  <2>13. \A m1 \in Request, k1 \in Copy :
            ThreadMoves({}, z.n + 1, z.thr[m1][k1], z1.thr[m1][k1])
    BY <2>2, <2>9, <2>12 DEF ThreadMoves
  <2>14. Moves(S, z, z1) BY <2>4, <2>13 DEF Moves, ThreadMoves
  <2> QED BY <2>3, <2>4, <2>7, <2>11, <2>13, <2>14
<1> QED BY <1>1, <1>2

LEMMA WakeMoves ==
    ASSUME NEW z \in ZenoMutState, NEW or \in OrderedRequest,
           Waiting(z, or.d_req), Waits(z), NEW S, or \in S, or.n <= z.n + 1
    PROVE  LET z1 == Wake(z, or)
           IN  /\ Moves(S, z, z1) /\ Waits(z1)
               /\ Queue(z) => Queue(z1)
               /\ z1.pending_ors = z.pending_ors
<1>1. PICK m \in Request : m = or.d_req BY DEF OrderedRequest
<1>2. PICK th : th = [pc |-> "gotOr", or |-> or, cert |-> {}] OBVIOUS
<1>3. PICK ro \in Copy : ro = z.reqs_without_ors[m]
  BY <1>1 DEF Waiting, ZenoMutState
<1> DEFINE z1 == [z EXCEPT !.reqs_without_ors[m] = 0, !.thr[m][ro] = th]
<1>4. Wake(z, or) = z1 BY <1>1, <1>2, <1>3, Zenon DEF Wake
<1>5. UsesOrSender(z, z1, m, ro, th) BY DEF ZenoMutState, UsesOrSender
<1> HIDE DEF z1
<1>6. Served(S, z.n + 1, th) BY <1>2 DEF Served
<1>7. Moves(S, z, z1) /\ Waits(z1) /\ (Queue(z) => Queue(z1))
  BY <1>3, <1>5, <1>6, UseOrSenderMoves
<1> QED BY <1>4, <1>5, <1>7 DEF UsesOrSender

LEMMA queue_orMoves ==
    ASSUME NEW z \in ZenoMutState, NEW or \in OrderedRequest, Waits(z),
           ~(Waiting(z, or.d_req) /\ or.n = z.n + 1)
    PROVE  LET z1 == queue_or(z, or)
           IN  /\ Moves({or}, z, z1) /\ Waits(z1)
               /\ Queue(z) => Queue(z1)
<1>1. CASE \E o \in z.pending_ors : o.n = or.n
  BY <1>1, NoMoves DEF queue_or
<1>2. CASE ~\E o \in z.pending_ors : o.n = or.n
  <2> DEFINE z1 == [z EXCEPT !.pending_ors = @ \cup {or}]
  <2>1. queue_or(z, or) = z1 BY <1>2, Zenon DEF queue_or
  <2>2. /\ z1.poisoned = z.poisoned /\ z1.n = z.n
        /\ z1.pending_ors = z.pending_ors \cup {or}
        /\ z1.pending_commits = z.pending_commits
        /\ z1.reqs_without_ors = z.reqs_without_ors
        /\ z1.reqs_without_commits = z.reqs_without_commits
        /\ z1.thr = z.thr
    BY DEF ZenoMutState
  <2> HIDE DEF z1
  <2>3. Moves({or}, z, z1) BY <2>2 DEF Moves, ThreadMoves
  <2>4. Waits(z1) BY <2>2 DEF Waits
  <2>5. Queue(z) => Queue(z1)
    BY <1>2, <2>2 DEF Queue, UniqueNs, IsNext, Waiting
  <2> QED BY <2>1, <2>3, <2>4, <2>5
<1> QED BY <1>1, <1>2

LEMMA process_orMoves ==
    ASSUME NEW z \in ZenoMutState, NEW or \in OrderedRequest, Waits(z)
    PROVE  LET z1 == process_or(z, or)
           IN  /\ Moves({or}, z, z1) /\ Waits(z1)
               /\ Queue(z) => Queue(z1)
<1>1. CASE or.n <= z.n BY <1>1, NoMoves DEF process_or
<1>2. CASE ~(or.n <= z.n) /\ Waiting(z, or.d_req) /\ or.n = z.n + 1
  <2>1. process_or(z, or) = Wake(z, or) BY <1>2 DEF process_or
  <2>2. or.n <= z.n + 1 BY <1>2 DEF OrderedRequest
  <2> QED BY <1>2, <2>1, <2>2, WakeMoves
<1>3. CASE ~(or.n <= z.n) /\ ~(Waiting(z, or.d_req) /\ or.n = z.n + 1)
  BY <1>3, queue_orMoves DEF process_or
<1> QED BY <1>1, <1>2, <1>3

\* Taking the OR in front off the queue: no other has its number.
LEMMA UnqueueMoves ==
    ASSUME NEW z \in ZenoMutState, NEW or \in z.pending_ors, Waits(z),
           UniqueNs(z), IsNext(z, or), NEW S
    PROVE  LET z1 == [z EXCEPT !.pending_ors = @ \ {or}]
           IN  /\ Moves(S, z, z1) /\ Waits(z1) /\ Queue(z1)
               /\ z1.reqs_without_ors = z.reqs_without_ors /\ z1.thr = z.thr
<1> DEFINE z1 == [z EXCEPT !.pending_ors = @ \ {or}]
<1>1. /\ z1.poisoned = z.poisoned /\ z1.n = z.n
      /\ z1.pending_ors = z.pending_ors \ {or}
      /\ z1.pending_commits = z.pending_commits
      /\ z1.reqs_without_ors = z.reqs_without_ors
      /\ z1.reqs_without_commits = z.reqs_without_commits
      /\ z1.thr = z.thr
  BY DEF ZenoMutState
<1> HIDE DEF z1
<1>2. Moves(S, z, z1) BY <1>1 DEF Moves, ThreadMoves
<1>3. Waits(z1) BY <1>1 DEF Waits
<1>4. Queue(z1) BY <1>1 DEF Queue, UniqueNs, IsNext
<1> QED BY <1>1, <1>2, <1>3, <1>4 DEF z1

LEMMA WakeNextMoves ==
    ASSUME NEW z \in ZenoMutState, Waits(z), UniqueNs(z), NEW S
    PROVE  Moves(S, z, WakeNext(z)) /\ Waits(WakeNext(z)) /\ Queue(WakeNext(z))
<1> DEFINE ready == {or \in z.pending_ors : IsNext(z, or) /\ Waiting(z, or.d_req)}
           o     == CHOOSE x \in ready : TRUE
           z1    == [z EXCEPT !.pending_ors = @ \ {o}]
<1>1. CASE ready = {}
  <2>1. WakeNext(z) = z BY <1>1 DEF WakeNext
  <2> QED BY <1>1, <2>1, NoMoves DEF Queue
<1>2. CASE ready # {}
  <2>1. o \in ready BY <1>2
  <2>2. o \in OrderedRequest /\ o \in z.pending_ors /\ IsNext(z, o)
    BY <2>1 DEF ZenoMutState
  <2>3. z1 \in ZenoMutState BY UnqueueTame
  <2>4. /\ Moves(S \cup {o}, z, z1) /\ Waits(z1) /\ Queue(z1)
        /\ z1.reqs_without_ors = z.reqs_without_ors
    BY <2>2, UnqueueMoves
  <2>5. Waiting(z1, o.d_req) BY <2>1, <2>4 DEF Waiting
  <2>6. o.n <= z1.n + 1 BY <2>2, <2>4 DEF IsNext, Moves, OrderedRequest
  <2>7. WakeNext(z) = Wake(z1, o) BY <1>2 DEF WakeNext
  <2> HIDE DEF o, z1, ready
  <2>8. /\ Moves(S \cup {o}, z1, WakeNext(z)) /\ Waits(WakeNext(z))
        /\ Queue(WakeNext(z)) /\ WakeNext(z).pending_ors = z1.pending_ors
    BY <2>2, <2>3, <2>4, <2>5, <2>6, <2>7, WakeMoves
  <2>9. Moves(S \cup {o}, z, WakeNext(z)) BY <2>4, <2>8, MovesTransitive
  <2>10. z1.pending_ors \subseteq z.pending_ors BY DEF z1, ZenoMutState
  <2>11. z.pending_ors \cup (S \cup {o}) = z.pending_ors \cup S BY <2>2
  <2>12. Moves(S, z, WakeNext(z))
    BY <2>8, <2>9, <2>10, <2>11 DEF Moves
  <2> QED BY <2>8, <2>12
<1> QED BY <1>1, <1>2

(***************************************************************************)
(* Running request m in its thread k, which was not waiting: the others    *)
(* move as ever, an OR of the queue may become due by the execution, and   *)
(* thread k answers, collects commits or ends.                             *)
(***************************************************************************)
Ran(z, z1, or, m, k) ==
    /\ z1.poisoned = z.poisoned
    /\ z1.n = IF Executes(z, or, m) THEN z.n + 1 ELSE z.n
    /\ z1.pending_ors \subseteq z.pending_ors
    /\ \A m1 \in Request, k1 \in Copy :
          IF m1 = m /\ k1 = k
          THEN \/ /\ Executes(z, or, m) /\ m.s
                  /\ z1.thr[m1][k1].pc = "awaitCommit" /\ z1.thr[m1][k1].or = or
               \/ Executes(z, or, m) /\ ~m.s /\ z1.thr[m1][k1] = Replying(or)
               \/ ~Executes(z, or, m) /\ z1.thr[m1][k1] = Finished
          ELSE ThreadMoves(z.pending_ors, z1.n + 1, z.thr[m1][k1], z1.thr[m1][k1])

LEMMA AwaitCommitsMoves ==
    ASSUME NEW z \in ZenoMutState, NEW or \in OrderedRequest,
           NEW m \in Request, NEW k \in Copy, or.d_req = m, Waits(z), Queue(z),
           z.thr[m][k].pc \in {"new", "gotOr"}
    PROVE  LET z1 == AwaitCommits(z, or, m, k)
           IN  /\ Waits(z1) /\ Queue(z1)
               /\ z1.poisoned = z.poisoned /\ z1.n = z.n
               /\ z1.pending_ors = z.pending_ors
               /\ \A m1 \in Request, k1 \in Copy :
                     IF m1 = m /\ k1 = k
                     THEN z1.thr[m1][k1].pc = "awaitCommit" /\ z1.thr[m1][k1].or = or
                     ELSE ThreadMoves(z.pending_ors, z.n + 1,
                                      z.thr[m1][k1], z1.thr[m1][k1])
<1>1. PICK d \in ZenoMutState :
         /\ d = DropCommitSender(z, m) /\ Tame(z, d)
         /\ Moves({}, z, d) /\ Waits(d)
         /\ d.pending_ors = z.pending_ors
         /\ d.reqs_without_ors = z.reqs_without_ors
         /\ d.reqs_without_commits[m] = 0
  BY DropCommitSenderTame, DropCommitSenderMoves
<1>2. PICK th : th = [pc |-> "awaitCommit", or |-> or,
                      cert |-> {cm \in z.pending_commits : cm.or = or}]
  OBVIOUS
<1>3. PICK C : C = {cm \in d.pending_commits : cm.or.d_req # m} OBVIOUS
<1> DEFINE z1 == [d EXCEPT !.reqs_without_commits[m] = k,
                           !.pending_commits = C, !.thr[m][k] = th]
<1>4. AwaitCommits(z, or, m, k) = z1
  BY <1>1, <1>2, <1>3, Zenon DEF AwaitCommits
<1>5. /\ z1.poisoned = d.poisoned /\ z1.n = d.n
      /\ z1.pending_ors = d.pending_ors
      /\ z1.pending_commits = C
      /\ z1.reqs_without_ors = d.reqs_without_ors
      /\ z1.reqs_without_commits = [d.reqs_without_commits EXCEPT ![m] = k]
      /\ z1.thr = [d.thr EXCEPT ![m][k] = th]
  BY DEF ZenoMutState
<1>6. /\ d.thr \in [Request -> [Copy -> Thread]]
      /\ d.reqs_without_commits \in [Request -> Copy \cup {0}]
      /\ d.reqs_without_ors \in [Request -> Copy \cup {0}]
      /\ z.pending_ors \subseteq OrderedRequest
  BY DEF ZenoMutState
<1> HIDE DEF z1
<1>7. /\ \A j \in Copy : z1.thr[m][j] = IF j = k THEN th ELSE d.thr[m][j]
      /\ \A m1 \in Request : m1 # m => z1.thr[m1] = d.thr[m1]
  BY <1>5, <1>6
<1>8. /\ z1.reqs_without_commits[m] = k
      /\ \A m1 \in Request : m1 # m =>
            z1.reqs_without_commits[m1] = d.reqs_without_commits[m1]
  BY <1>5, <1>6
<1>9. z1.pending_commits \subseteq d.pending_commits BY <1>3, <1>5
<1>10. d.thr[m][k] = z.thr[m][k]
  BY <1>1 DEF Moves, ThreadMoves
<1>11. WaitsFor(m, d.reqs_without_ors[m], 0, d.thr[m], d.pending_commits)
  BY <1>1 DEF Waits
<1>12. WaitsFor(m, z1.reqs_without_ors[m], z1.reqs_without_commits[m],
                z1.thr[m], z1.pending_commits)
  <2>1. z1.reqs_without_ors[m] = d.reqs_without_ors[m]
        /\ d.reqs_without_ors[m] \in Copy \cup {0}
    BY <1>5, <1>6
  <2>2. z1.reqs_without_ors[m] # 0 =>
           z1.thr[m][z1.reqs_without_ors[m]].pc = "awaitOr"
    BY <1>7, <1>10, <1>11, <2>1 DEF WaitsFor
  <2>3. z1.thr[m][k].pc = "awaitCommit" /\ z1.thr[m][k].or = or
    BY <1>2, <1>7
  <2>4. \A cm \in z1.pending_commits : cm.or # or BY <1>3, <1>5
  <2>5. \A j \in Copy : j # k /\ z1.thr[m][j].pc = "awaitCommit" =>
           z1.thr[m][j].or.d_req = m /\ HasQuorum(z1.thr[m][j].cert)
    BY <1>7, <1>11 DEF WaitsFor, Copy
  <2> QED BY <1>8, <2>2, <2>3, <2>4, <2>5 DEF WaitsFor
<1>13. Waits(z1)
  <2>1. \A m1 \in Request : m1 # m =>
           /\ z1.reqs_without_ors[m1] = d.reqs_without_ors[m1]
           /\ z1.reqs_without_commits[m1] = d.reqs_without_commits[m1]
           /\ z1.thr[m1] = d.thr[m1]
    BY <1>5, <1>7, <1>8
  <2> QED BY <1>1, <1>9, <1>12, <2>1, WaitsChange
<1>14. Queue(z1)
  <2>1. z1.n = z.n /\ z1.pending_ors = z.pending_ors
        /\ z1.reqs_without_ors = z.reqs_without_ors
    BY <1>1, <1>5 DEF Moves
  <2> QED BY <1>6, <2>1, QueueKept
<1>15. ASSUME NEW m1 \in Request, NEW k1 \in Copy
       PROVE  IF m1 = m /\ k1 = k
              THEN z1.thr[m1][k1].pc = "awaitCommit" /\ z1.thr[m1][k1].or = or
              ELSE ThreadMoves(z.pending_ors, z.n + 1,
                               z.thr[m1][k1], z1.thr[m1][k1])
  <2>1. z1.thr[m1][k1] = IF m1 = m /\ k1 = k THEN th ELSE d.thr[m1][k1]
    BY <1>5, <1>6, OneThread
  <2>2. ThreadMoves(z.pending_ors, z.n + 1, z.thr[m1][k1], d.thr[m1][k1])
    <3>1. z.pending_ors \cup {} = z.pending_ors OBVIOUS
    <3> QED BY <1>1, <3>1 DEF Moves
  <2> QED BY <1>2, <2>1, <2>2
<1> QED BY <1>1, <1>4, <1>5, <1>13, <1>14, <1>15 DEF Moves

LEMMA ExecuteMoves ==
    ASSUME NEW z \in ZenoMutState, NEW or \in OrderedRequest,
           NEW m \in Request, NEW k \in Copy, or.d_req = m, Waits(z), UniqueNs(z),
           z.thr[m][k].pc \in {"new", "gotOr"}, Executes(z, or, m)
    PROVE  LET z1 == Execute(z, or, m, k)
           IN  Waits(z1) /\ Queue(z1) /\ Ran(z, z1, or, m, k)
<1> DEFINE z0 == [z EXCEPT !.n = @ + 1, !.h = Append(@, m),
                           !.all_executed_reqs = Append(@, or)]
<1>1. z0 \in ZenoMutState
  <2>1. PICK n1 \in Nat \cup {-1} : n1 = z.n + 1 BY DEF ZenoMutState
  <2>2. PICK h1 \in Seq(Request) : h1 = Append(z.h, m)
    <3>1. z.h \in Seq(Request) BY DEF ZenoMutState
    <3> QED BY <3>1, AppendProperties
  <2>3. PICK a1 \in Seq(OrderedRequest) : a1 = Append(z.all_executed_reqs, or)
    <3>1. z.all_executed_reqs \in Seq(OrderedRequest) BY DEF ZenoMutState
    <3> QED BY <3>1, AppendProperties
  <2>4. z0 = [z EXCEPT !.n = n1, !.h = h1, !.all_executed_reqs = a1]
    BY <2>1, <2>2, <2>3, Zenon
  <2>5. [z EXCEPT !.n = n1, !.h = h1, !.all_executed_reqs = a1] \in ZenoMutState
    BY DEF ZenoMutState
  <2> QED BY <2>4, <2>5, Zenon
<1>2. /\ z0.poisoned = z.poisoned /\ z0.n = z.n + 1
      /\ z0.pending_ors = z.pending_ors
      /\ z0.pending_commits = z.pending_commits
      /\ z0.reqs_without_ors = z.reqs_without_ors
      /\ z0.reqs_without_commits = z.reqs_without_commits
      /\ z0.thr = z.thr
  BY DEF ZenoMutState
<1>3. Waits(z0) /\ UniqueNs(z0) BY <1>2 DEF Waits, UniqueNs
<1> HIDE DEF z0
<1>4. PICK w \in ZenoMutState : /\ w = WakeNext(z0)
                                /\ Moves({}, z0, w) /\ Waits(w) /\ Queue(w)
  BY <1>1, <1>3, WakeNextTame, WakeNextMoves
<1>5. /\ w.poisoned = z.poisoned /\ w.n = z.n + 1
      /\ w.pending_ors \subseteq z.pending_ors
      /\ \A m1 \in Request, k1 \in Copy :
            ThreadMoves(z.pending_ors, w.n + 1, z.thr[m1][k1], w.thr[m1][k1])
  <2>1. z.pending_ors \cup {} = z.pending_ors OBVIOUS
  <2> QED BY <1>2, <1>4, <2>1 DEF Moves
<1>6. w.thr[m][k] = z.thr[m][k] BY <1>5 DEF ThreadMoves
<1>7. CASE m.s
  <2>1. PICK z1 : z1 = AwaitCommits(w, or, m, k) OBVIOUS
  <2>2. Execute(z, or, m, k) = z1
    BY <1>4, <1>7, <2>1, Zenon DEF Execute, z0
  <2>3. /\ Waits(z1) /\ Queue(z1)
        /\ z1.poisoned = w.poisoned /\ z1.n = w.n
        /\ z1.pending_ors = w.pending_ors
        /\ \A m1 \in Request, k1 \in Copy :
              IF m1 = m /\ k1 = k
              THEN z1.thr[m1][k1].pc = "awaitCommit" /\ z1.thr[m1][k1].or = or
              ELSE ThreadMoves(w.pending_ors, w.n + 1,
                               w.thr[m1][k1], z1.thr[m1][k1])
    BY <1>4, <1>6, <2>1, AwaitCommitsMoves
  <2>4. ASSUME NEW m1 \in Request, NEW k1 \in Copy, ~(m1 = m /\ k1 = k)
        PROVE  ThreadMoves(z.pending_ors, z1.n + 1, z.thr[m1][k1], z1.thr[m1][k1])
    BY <1>5, <2>3, <2>4, MoveTwice
  <2>5. Ran(z, z1, or, m, k) BY <1>5, <1>7, <2>3, <2>4 DEF Ran
  <2> QED BY <2>2, <2>3, <2>5
<1>8. CASE ~m.s
  <2>1. PICK th : th = Replying(or) OBVIOUS
  <2> DEFINE z1 == [w EXCEPT !.thr[m][k] = th]
  <2>2. Execute(z, or, m, k) = z1 BY <1>4, <1>8, <2>1, Zenon DEF Execute, z0
  <2>3. SetsThread(w, z1, m, k, th) BY DEF ZenoMutState, SetsThread
  <2> HIDE DEF z1
  <2>4. th.pc \notin {"awaitOr", "awaitCommit"} BY <2>1 DEF Replying
  <2>5. /\ Waits(z1) /\ Queue(z1)
        /\ z1.poisoned = w.poisoned /\ z1.n = w.n
        /\ z1.pending_ors = w.pending_ors
        /\ \A m1 \in Request, k1 \in Copy :
              z1.thr[m1][k1] = IF m1 = m /\ k1 = k THEN th ELSE w.thr[m1][k1]
    BY <1>4, <1>6, <2>3, <2>4, SetThreadMoves
  <2>6. Ran(z, z1, or, m, k)
    BY <1>5, <1>8, <2>1, <2>5 DEF Ran
  <2> QED BY <2>2, <2>5, <2>6
<1> QED BY <1>7, <1>8

LEMMA RunMoves ==
    ASSUME NEW z \in ZenoMutState, NEW or \in OrderedRequest,
           NEW m \in Request, NEW k \in Copy, or.d_req = m, Waits(z), Queue(z),
           z.thr[m][k].pc \in {"new", "gotOr"}, ~Panics(z, or, m)
    PROVE  LET z1 == check_and_execute_request(z, or, m, k)
           IN  Waits(z1) /\ Queue(z1) /\ Ran(z, z1, or, m, k)
<1>1. CASE Executes(z, or, m)
  <2>1. check_and_execute_request(z, or, m, k) = Execute(z, or, m, k)
    BY <1>1 DEF check_and_execute_request
  <2>2. UniqueNs(z) BY DEF Queue
  <2> QED BY <1>1, <2>1, <2>2, ExecuteMoves
<1>2. CASE ~Executes(z, or, m)
  <2>1. PICK th : th = Finished OBVIOUS
  <2> DEFINE z1 == [z EXCEPT !.thr[m][k] = th]
  <2>2. check_and_execute_request(z, or, m, k) = z1
    BY <1>2, <2>1, Zenon DEF check_and_execute_request
  <2>3. SetsThread(z, z1, m, k, th) BY DEF ZenoMutState, SetsThread
  <2> HIDE DEF z1
  <2>4. th.pc \notin {"awaitOr", "awaitCommit"} BY <2>1 DEF Finished
  <2>5. /\ Waits(z1) /\ Queue(z1)
        /\ z1.poisoned = z.poisoned /\ z1.n = z.n
        /\ z1.pending_ors = z.pending_ors
        /\ \A m1 \in Request, k1 \in Copy :
              z1.thr[m1][k1] = IF m1 = m /\ k1 = k THEN th ELSE z.thr[m1][k1]
    BY <2>3, <2>4, SetThreadMoves
  <2>6. Ran(z, z1, or, m, k)
    BY <1>2, <2>1, <2>5 DEF Ran, ThreadMoves
  <2> QED BY <2>2, <2>5, <2>6
<1> QED BY <1>1, <1>2

\* Request m waits in thread k: no other request starts to wait.
LEMMA AwaitOrMoves ==
    ASSUME NEW z \in ZenoMutState, NEW m \in Request, NEW k \in Copy,
           Waits(z), z.thr[m][k].pc = "new"
    PROVE  LET z1 == [DropOrSender(z, m) EXCEPT !.reqs_without_ors[m] = k,
                                                !.thr[m][k].pc = "awaitOr"]
           IN  /\ Waits(z1)
               /\ Queue(z) /\ (\A or \in z.pending_ors : or.d_req = m => ~IsNext(z, or))
                     => Queue(z1)
               /\ z1.poisoned = z.poisoned /\ z1.n = z.n
               /\ z1.pending_ors = z.pending_ors
               /\ \A m1 \in Request, k1 \in Copy :
                     IF m1 = m /\ k1 = k THEN z1.thr[m1][k1].pc = "awaitOr"
                     ELSE ThreadMoves({}, z.n + 1, z.thr[m1][k1], z1.thr[m1][k1])
<1>1. PICK d \in ZenoMutState :
         /\ d = DropOrSender(z, m) /\ Tame(z, d)
         /\ Waits(d) /\ (Queue(z) => Queue(d))
         /\ Moves({}, z, d)
         /\ d.pending_ors = z.pending_ors
         /\ \A m1 \in Request :
               d.reqs_without_ors[m1] = IF m1 = m THEN 0 ELSE z.reqs_without_ors[m1]
  BY DropOrSenderTame, DropOrSenderMoves
<1>2. \A m1 \in Request, k1 \in Copy : d.thr[m1][k1] \in {z.thr[m1][k1], Finished}
  BY <1>1, DropOrSenderTame
<1>3. d.thr[m][k] = z.thr[m][k]
  BY <1>1 DEF Moves, ThreadMoves
<1>4. PICK th : th = [d.thr[m][k] EXCEPT !.pc = "awaitOr"] OBVIOUS
<1>5. th.pc = "awaitOr"
  <2>1. d.thr[m][k] \in Thread BY DEF ZenoMutState
  <2> QED BY <1>4, <2>1 DEF Thread
<1> DEFINE z1 == [d EXCEPT !.reqs_without_ors[m] = k, !.thr[m][k] = th]
<1>6. [DropOrSender(z, m) EXCEPT !.reqs_without_ors[m] = k,
                                 !.thr[m][k].pc = "awaitOr"] = z1
  BY <1>1, <1>4, Zenon
<1>7. /\ z1.poisoned = d.poisoned /\ z1.n = d.n
      /\ z1.pending_ors = d.pending_ors
      /\ z1.pending_commits = d.pending_commits
      /\ z1.reqs_without_ors = [d.reqs_without_ors EXCEPT ![m] = k]
      /\ z1.reqs_without_commits = d.reqs_without_commits
      /\ z1.thr = [d.thr EXCEPT ![m][k] = th]
  BY DEF ZenoMutState
<1>8. /\ d.thr \in [Request -> [Copy -> Thread]]
      /\ d.reqs_without_commits \in [Request -> Copy \cup {0}]
      /\ d.reqs_without_ors \in [Request -> Copy \cup {0}]
  BY DEF ZenoMutState
<1> HIDE DEF z1
<1>9. /\ \A j \in Copy : z1.thr[m][j] = IF j = k THEN th ELSE d.thr[m][j]
      /\ \A m1 \in Request : m1 # m => z1.thr[m1] = d.thr[m1]
  BY <1>7, <1>8
<1>10. /\ z1.reqs_without_ors[m] = k
       /\ \A m1 \in Request : m1 # m =>
             z1.reqs_without_ors[m1] = d.reqs_without_ors[m1]
  BY <1>7, <1>8
<1>11. WaitsFor(m, 0, d.reqs_without_commits[m], d.thr[m], d.pending_commits)
  BY <1>1 DEF Waits
<1>12. WaitsFor(m, k, d.reqs_without_commits[m], z1.thr[m], d.pending_commits)
  <2>1. z1.thr[m][k].pc = "awaitOr" BY <1>5, <1>9
  <2>2. d.reqs_without_commits[m] # 0 =>
           d.reqs_without_commits[m] \in Copy /\ d.reqs_without_commits[m] # k
    BY <1>3, <1>8, <1>11 DEF WaitsFor
  <2>3. d.reqs_without_commits[m] # 0 =>
           z1.thr[m][d.reqs_without_commits[m]].pc = "awaitCommit"
    BY <1>9, <1>11, <2>2 DEF WaitsFor
  <2> QED BY <1>5, <1>9, <1>11, <2>1, <2>3 DEF WaitsFor
<1>13. Waits(z1)
  <2>1. WaitsFor(m, z1.reqs_without_ors[m], z1.reqs_without_commits[m], z1.thr[m],
                 z1.pending_commits)
    BY <1>7, <1>10, <1>12
  <2>2. \A m1 \in Request : m1 # m =>
           /\ z1.reqs_without_ors[m1] = d.reqs_without_ors[m1]
           /\ z1.reqs_without_commits[m1] = d.reqs_without_commits[m1]
           /\ z1.thr[m1] = d.thr[m1]
    BY <1>7, <1>9, <1>10
  <2>3. z1.pending_commits \subseteq d.pending_commits BY <1>7
  <2> QED BY <1>1, <2>1, <2>2, <2>3, WaitsChange
<1>14. ASSUME Queue(z), \A or \in z.pending_ors : or.d_req = m => ~IsNext(z, or)
       PROVE  Queue(z1)
  <2>1. Queue(d) BY <1>1, <1>14
  <2>2. d.n = z.n BY <1>1 DEF Moves
  <2>3. \A or \in z1.pending_ors : IsNext(z1, or) => IsNext(d, or) /\ IsNext(z, or)
    BY <1>1, <1>7, <2>2 DEF IsNext
  <2>4. ASSUME NEW or \in z1.pending_ors, IsNext(z1, or)
        PROVE  ~Waiting(z1, or.d_req)
    <3>1. or \in z.pending_ors /\ or.d_req # m
      BY <1>1, <1>7, <1>14, <2>3, <2>4
    <3>2. or.d_req \in Request BY <3>1 DEF ZenoMutState, OrderedRequest
    <3>3. ~Waiting(d, or.d_req) BY <1>7, <2>1, <2>3, <2>4 DEF Queue
    <3> QED BY <1>10, <3>1, <3>2, <3>3 DEF Waiting
  <2> QED BY <1>7, <2>1, <2>4 DEF Queue, UniqueNs
<1>15. ASSUME NEW m1 \in Request, NEW k1 \in Copy
       PROVE  IF m1 = m /\ k1 = k THEN z1.thr[m1][k1].pc = "awaitOr"
              ELSE ThreadMoves({}, z.n + 1, z.thr[m1][k1], z1.thr[m1][k1])
  <2>1. z1.thr[m1][k1] = IF m1 = m /\ k1 = k THEN th ELSE d.thr[m1][k1]
    BY <1>7, <1>8, OneThread
  <2>2. ThreadMoves({}, z.n + 1, z.thr[m1][k1], d.thr[m1][k1])
    <3>1. ThreadMoves(z.pending_ors \cup {}, z.n + 1, z.thr[m1][k1], d.thr[m1][k1])
      BY <1>1 DEF Moves
    <3>2. d.thr[m1][k1] \in {z.thr[m1][k1], Finished} BY <1>2
    <3>3. Finished.pc = "done" BY DEF Finished
    <3>4. \A or : [pc |-> "gotOr", or |-> or, cert |-> {}].pc = "gotOr" OBVIOUS
    <3>5. d.thr[m1][k1].pc # "gotOr" \/ d.thr[m1][k1] = z.thr[m1][k1]
      BY <3>2, <3>3
    <3> QED BY <3>1, <3>4, <3>5, Zenon DEF ThreadMoves
  <2> QED BY <1>5, <2>1, <2>2
<1> QED BY <1>1, <1>6, <1>7, <1>13, <1>14, <1>15 DEF Moves

\* A commit reaches the one thread that needs it, or the queue if there is none.
LEMMA AddCommitMoves ==
    ASSUME NEW z \in ZenoMutState, NEW cm \in Commit, Waits(z),
           \A m \in Request, k \in Copy : IsFiniteSet(z.thr[m][k].cert)
    PROVE  LET z1 == AddCommit(z, cm)
           IN  /\ Waits(z1)
               /\ Queue(z) => Queue(z1)
               /\ z1.poisoned = z.poisoned /\ z1.n = z.n
               /\ z1.pending_ors = z.pending_ors
               /\ \A m \in Request, k \in Copy :
                     /\ z1.thr[m][k].pc = z.thr[m][k].pc
                     /\ z1.thr[m][k].or = z.thr[m][k].or
<1>1. PICK m \in Request : m = cm.or.d_req BY DEF Commit, OrderedRequest
<1>2. CASE z.reqs_without_commits[m] = 0
  <2> DEFINE z1 == [z EXCEPT !.pending_commits = @ \cup {cm}]
  <2>1. AddCommit(z, cm) = z1 BY <1>1, <1>2, Zenon DEF AddCommit
  <2>2. /\ z1.poisoned = z.poisoned /\ z1.n = z.n
        /\ z1.pending_ors = z.pending_ors
        /\ z1.pending_commits = z.pending_commits \cup {cm}
        /\ z1.reqs_without_ors = z.reqs_without_ors
        /\ z1.reqs_without_commits = z.reqs_without_commits
        /\ z1.thr = z.thr
    BY DEF ZenoMutState
  <2> HIDE DEF z1
  <2>3. ASSUME NEW m1 \in Request
        PROVE  WaitsFor(m1, z.reqs_without_ors[m1], z.reqs_without_commits[m1],
                        z.thr[m1], z.pending_commits \cup {cm})
    <3>1. WaitsFor(m1, z.reqs_without_ors[m1], z.reqs_without_commits[m1],
                   z.thr[m1], z.pending_commits)
      BY DEF Waits
    <3>2. CASE m1 = m BY <1>2, <3>1, <3>2 DEF WaitsFor, Copy
    <3>3. CASE m1 # m BY <1>1, <3>1, <3>3 DEF WaitsFor
    <3> QED BY <3>2, <3>3
  <2>4. Waits(z1) BY <2>2, <2>3 DEF Waits
  <2>5. Queue(z) => Queue(z1) BY <2>2 DEF Queue, UniqueNs, IsNext, Waiting
  <2> QED BY <2>1, <2>2, <2>4, <2>5
<1>3. CASE z.reqs_without_commits[m] # 0
  <2>1. PICK k \in Copy : k = z.reqs_without_commits[m] BY <1>3 DEF ZenoMutState
  <2>2. CASE ~(cm.or = z.thr[m][k].or /\ ~HasQuorum(z.thr[m][k].cert))
    BY <1>1, <1>3, <2>1, <2>2 DEF AddCommit
  <2>3. CASE cm.or = z.thr[m][k].or /\ ~HasQuorum(z.thr[m][k].cert)
    <3>1. PICK th : th = [z.thr[m][k] EXCEPT !.cert = @ \cup {cm}] OBVIOUS
    <3> DEFINE z1 == [z EXCEPT !.thr[m][k] = th]
    <3>2. AddCommit(z, cm) = z1
      BY <1>1, <1>3, <2>1, <2>3, <3>1, Zenon DEF AddCommit
    <3>3. SetsThread(z, z1, m, k, th) BY DEF ZenoMutState, SetsThread
    <3> HIDE DEF z1
    <3>4. th.pc = z.thr[m][k].pc /\ th.or = z.thr[m][k].or
          /\ th.cert = z.thr[m][k].cert \cup {cm}
      <4>1. z.thr[m][k] \in Thread BY DEF ZenoMutState
      <4> QED BY <3>1, <4>1 DEF Thread
    <3>5. z.thr \in [Request -> [Copy -> Thread]] BY DEF ZenoMutState
    <3>6. /\ \A j \in Copy : z1.thr[m][j] = IF j = k THEN th ELSE z.thr[m][j]
          /\ \A m1 \in Request : m1 # m => z1.thr[m1] = z.thr[m1]
      BY <3>3, <3>5 DEF SetsThread
    <3>7. WaitsFor(m, z.reqs_without_ors[m], k, z.thr[m], z.pending_commits)
      BY <2>1 DEF Waits
    <3>8. WaitsFor(m, z.reqs_without_ors[m], k, z1.thr[m], z.pending_commits)
      <4>1. z.thr[m][k].pc = "awaitCommit" BY <3>7 DEF WaitsFor, Copy
      <4>2. z.reqs_without_ors[m] # 0 =>
               z.reqs_without_ors[m] \in Copy /\ z.reqs_without_ors[m] # k
        BY <3>7, <4>1 DEF WaitsFor, ZenoMutState
      <4> QED BY <2>3, <3>4, <3>6, <3>7, <4>1, <4>2 DEF WaitsFor
    <3>9. Waits(z1)
      <4>1. WaitsFor(m, z1.reqs_without_ors[m], z1.reqs_without_commits[m],
                     z1.thr[m], z1.pending_commits)
        BY <2>1, <3>3, <3>8 DEF SetsThread
      <4>2. \A m1 \in Request : m1 # m =>
               /\ z1.reqs_without_ors[m1] = z.reqs_without_ors[m1]
               /\ z1.reqs_without_commits[m1] = z.reqs_without_commits[m1]
               /\ z1.thr[m1] = z.thr[m1]
        BY <3>3, <3>6 DEF SetsThread
      <4>3. z1.pending_commits \subseteq z.pending_commits BY <3>3 DEF SetsThread
      <4> QED BY <4>1, <4>2, <4>3, WaitsChange
    <3>10. Queue(z) => Queue(z1)
      BY <3>3 DEF SetsThread, Queue, UniqueNs, IsNext, Waiting
    <3>11. \A m1 \in Request, k1 \in Copy :
              z1.thr[m1][k1] = IF m1 = m /\ k1 = k THEN th ELSE z.thr[m1][k1]
      BY <3>3, <3>5, OneThread DEF SetsThread
    <3> QED BY <3>2, <3>3, <3>4, <3>9, <3>10, <3>11 DEF SetsThread
  <2> QED BY <2>2, <2>3
<1> QED BY <1>2, <1>3

LEMMA CertifyMoves ==
    ASSUME NEW z \in ZenoMutState, NEW m \in Request, NEW k \in Copy, Waits(z),
           z.thr[m][k].pc = "awaitCommit", HasQuorum(z.thr[m][k].cert)
    PROVE  LET z1 == Certify(z, m, k)
           IN  /\ Waits(z1)
               /\ Queue(z) => Queue(z1)
               /\ z1.poisoned = z.poisoned /\ z1.n = z.n
               /\ z1.pending_ors = z.pending_ors
               /\ \A m1 \in Request, k1 \in Copy :
                     IF m1 = m /\ k1 = k
                     THEN z1.thr[m1][k1] = Replying(z.thr[m][k].or)
                     ELSE ThreadMoves({}, z.n + 1, z.thr[m1][k1], z1.thr[m1][k1])
<1>1. PICK d \in ZenoMutState :
         /\ d = DropCommitSender(z, m)
         /\ d.thr[m][k] = z.thr[m][k]
         /\ d.n = z.n /\ d.poisoned = z.poisoned
         /\ Waits(d)
         /\ d.pending_ors = z.pending_ors
         /\ d.reqs_without_ors = z.reqs_without_ors
         /\ d.reqs_without_commits[m] = 0
         /\ \A m1 \in Request, k1 \in Copy :
               ThreadMoves({}, z.n + 1, z.thr[m1][k1], d.thr[m1][k1])
  <2> DEFINE d == DropCommitSender(z, m)
  <2>1. d \in ZenoMutState /\ d.thr[m][k] = z.thr[m][k]
    BY DropCommitSenderTame
  <2>2. /\ Moves({}, z, d) /\ Waits(d)
        /\ d.pending_ors = z.pending_ors
        /\ d.reqs_without_ors = z.reqs_without_ors
        /\ d.reqs_without_commits[m] = 0
        /\ \A m1 \in Request, k1 \in Copy :
              ThreadMoves({}, z.n + 1, z.thr[m1][k1], d.thr[m1][k1])
    BY DropCommitSenderMoves
  <2>3. d.n = z.n /\ d.poisoned = z.poisoned BY <2>2 DEF Moves
  <2> HIDE DEF d
  <2> QED BY <2>1, <2>2, <2>3, Zenon DEF d
<1>2. PICK th : th = Replying(z.thr[m][k].or) OBVIOUS
<1>3. PICK cert : cert = z.thr[m][k].cert OBVIOUS
<1> DEFINE z1 == [d EXCEPT !.last_cc = cert, !.thr[m][k] = th]
<1>4. Certify(z, m, k) = z1 BY <1>1, <1>2, <1>3, Zenon DEF Certify
<1>5. SetsThread(d, z1, m, k, th) BY DEF ZenoMutState, SetsThread
<1> HIDE DEF z1
<1>6. d.thr \in [Request -> [Copy -> Thread]] BY DEF ZenoMutState
<1>7. /\ \A j \in Copy : z1.thr[m][j] = IF j = k THEN th ELSE d.thr[m][j]
      /\ \A m1 \in Request : m1 # m => z1.thr[m1] = d.thr[m1]
  BY <1>5, <1>6 DEF SetsThread
<1>8. WaitsFor(m, d.reqs_without_ors[m], 0, d.thr[m], d.pending_commits)
  BY <1>1 DEF Waits
<1>9. WaitsFor(m, d.reqs_without_ors[m], 0, z1.thr[m], d.pending_commits)
  <2>1. d.reqs_without_ors[m] # 0 =>
           d.reqs_without_ors[m] \in Copy /\ d.reqs_without_ors[m] # k
    BY <1>1, <1>8 DEF WaitsFor, ZenoMutState
  <2>2. th.pc = "reply" BY <1>2 DEF Replying
  <2> QED BY <1>7, <1>8, <2>1, <2>2 DEF WaitsFor
<1>10. Waits(z1)
  <2>1. WaitsFor(m, z1.reqs_without_ors[m], z1.reqs_without_commits[m],
                 z1.thr[m], z1.pending_commits)
    BY <1>1, <1>5, <1>9 DEF SetsThread
  <2>2. \A m1 \in Request : m1 # m =>
           /\ z1.reqs_without_ors[m1] = d.reqs_without_ors[m1]
           /\ z1.reqs_without_commits[m1] = d.reqs_without_commits[m1]
           /\ z1.thr[m1] = d.thr[m1]
    BY <1>5, <1>7 DEF SetsThread
  <2>3. z1.pending_commits \subseteq d.pending_commits BY <1>5 DEF SetsThread
  <2> QED BY <1>1, <2>1, <2>2, <2>3, WaitsChange
<1>11. Queue(z) => Queue(z1)
  BY <1>1, <1>5 DEF SetsThread, Queue, UniqueNs, IsNext, Waiting
<1>12. \A m1 \in Request, k1 \in Copy :
          z1.thr[m1][k1] = IF m1 = m /\ k1 = k THEN th ELSE d.thr[m1][k1]
  BY <1>5, <1>6, OneThread DEF SetsThread
<1> QED BY <1>1, <1>2, <1>4, <1>5, <1>10, <1>11, <1>12 DEF SetsThread

LEMMA HaltedMoves ==
    ASSUME NEW z \in ZenoMutState, Waits(z)
    PROVE  LET z1 == Halted(z)
           IN  /\ Waits(z1)
               /\ Queue(z) => Queue(z1)
               /\ z1.poisoned = z.poisoned /\ z1.n = z.n
               /\ z1.pending_ors = z.pending_ors
               /\ \A m \in Request, k \in Copy :
                     ThreadMoves({}, z.n + 1, z.thr[m][k], z1.thr[m][k])
<1> DEFINE T == [m \in Request |-> [k \in Copy |->
                  IF \/ z.thr[m][k].pc = "awaitOr"
                     \/ z.thr[m][k].pc = "awaitCommit" /\ ~HasQuorum(z.thr[m][k].cert)
                  THEN Finished ELSE z.thr[m][k]]]
           O == [m \in Request |-> 0]
           z1 == [z EXCEPT !.alive = FALSE, !.reqs_without_ors = O,
                           !.reqs_without_commits = O, !.thr = T]
<1>1. Halted(z) = z1 BY Zenon DEF Halted
<1>2. /\ z1.poisoned = z.poisoned /\ z1.n = z.n
      /\ z1.pending_ors = z.pending_ors
      /\ z1.pending_commits = z.pending_commits
      /\ z1.reqs_without_ors = O /\ z1.reqs_without_commits = O /\ z1.thr = T
  BY DEF ZenoMutState
<1>3. \A m \in Request, k \in Copy :
         T[m][k] = IF \/ z.thr[m][k].pc = "awaitOr"
                      \/ z.thr[m][k].pc = "awaitCommit" /\ ~HasQuorum(z.thr[m][k].cert)
                   THEN Finished ELSE z.thr[m][k]
  OBVIOUS
<1>4. \A m \in Request : O[m] = 0 OBVIOUS
<1> HIDE DEF T, O, z1
<1>5. Waits(z1)
  <2> SUFFICES ASSUME NEW m \in Request
               PROVE  WaitsFor(m, 0, 0, T[m], z.pending_commits)
    BY <1>2, <1>4 DEF Waits
  <2>1. ASSUME NEW k \in Copy, T[m][k].pc = "awaitCommit"
        PROVE  T[m][k].or.d_req = m /\ HasQuorum(T[m][k].cert)
    <3>1. T[m][k] = z.thr[m][k] /\ HasQuorum(z.thr[m][k].cert)
      BY <1>3, <2>1 DEF Finished
    <3> QED BY <2>1, <3>1 DEF Waits, WaitsFor
  <2> QED BY <2>1 DEF WaitsFor
<1>6. Queue(z) => Queue(z1)
  BY <1>2, <1>4 DEF Queue, UniqueNs, IsNext, Waiting, ZenoMutState, OrderedRequest
<1>7. \A m \in Request, k \in Copy :
         ThreadMoves({}, z.n + 1, z.thr[m][k], z1.thr[m][k])
  BY <1>2, <1>3 DEF ThreadMoves
<1> QED BY <1>1, <1>2, <1>5, <1>6, <1>7

-----------------------------------------------------------------------------
(* Folds: apply_new_view handles sequences of ordered requests and of view *)
(* changes with FoldLeft.  What a fold keeps is shown by induction over    *)
(* the sets of positions handled.                                          *)

\* Induction over the natural numbers, on a set instead of a predicate.
LEMMA SetInduction ==
    ASSUME NEW S, 0 \in S, \A n \in Nat : n \in S => n + 1 \in S
    PROVE  Nat \subseteq S
<1> SUFFICES ASSUME Nat \ S # {} PROVE FALSE
  OBVIOUS
<1> DEFINE R == {ss \in Nat \X Nat : ss[1] < ss[2]}
<1>1. IsWellFoundedOn(R, Nat) BY NatLessThanWellFounded DEF OpToRel
<1>2. \A y, x \in Nat : y < x => <<y, x>> \in R OBVIOUS
<1> HIDE DEF R
<1>3. PICK T : T = Nat \ S OBVIOUS
<1>4. T \subseteq Nat /\ T # {} BY <1>3
<1>5. PICK x \in T : \A y \in T : ~(<<y, x>> \in R) BY <1>1, <1>4, WFMin
<1>6. \A y \in T : ~(y < x) BY <1>2, <1>3, <1>5
<1>7. x - 1 \in Nat /\ x - 1 < x /\ (x - 1) + 1 = x BY <1>3
<1> QED BY <1>3, <1>6, <1>7

LEMMA MaxOfNext ==
    ASSUME NEW n \in Nat, NEW s \in SUBSET (1 .. n + 1)
    PROVE  /\ n + 1 \in s => Max(s) = n + 1 /\ s \ {n + 1} \in SUBSET (1 .. n)
           /\ n + 1 \notin s => s \in SUBSET (1 .. n)
<1>1. n + 1 \notin s => s \in SUBSET (1 .. n) OBVIOUS
<1>2. ASSUME n + 1 \in s
      PROVE  Max(s) = n + 1 /\ s \ {n + 1} \in SUBSET (1 .. n)
  <2>1. \A y \in s : n + 1 >= y OBVIOUS
  <2>2. Max(s) \in s /\ Max(s) >= n + 1 BY <1>2, <2>1 DEF Max
  <2>3. PICK x \in s : x = Max(s) /\ x >= n + 1 BY <2>2
  <2>4. x = n + 1 BY <2>3
  <2>5. \A y \in s \ {n + 1} : y \in 1 .. n OBVIOUS
  <2> QED BY <2>3, <2>4, <2>5
<1> QED BY <1>1, <1>2

\* A property that every step of a fold keeps holds of what it returns.
LEMMA FoldStays ==
    ASSUME NEW P, NEW N \in Nat, NEW iter, iter[{}] \in P,
           \A s \in SUBSET (1 .. N) :
              s # {} /\ Max(s) \in 1 .. N /\ iter[s \ {Max(s)}] \in P => iter[s] \in P
    PROVE  \A s \in SUBSET (1 .. N) : iter[s] \in P
<1> DEFINE S == {n \in Nat : n <= N => \A s \in SUBSET (1 .. n) : iter[s] \in P}
<1>1. 0 \in S
  <2>1. \A s \in SUBSET (1 .. 0) : s = {} OBVIOUS
  <2> QED BY <2>1
<1>2. ASSUME NEW n \in Nat, n \in S PROVE n + 1 \in S
  <2> SUFFICES ASSUME n + 1 <= N, NEW s \in SUBSET (1 .. n + 1)
               PROVE  iter[s] \in P
    OBVIOUS
  <2>1. CASE n + 1 \notin s BY <1>2, <2>1, MaxOfNext
  <2>2. CASE n + 1 \in s
    <3>1. Max(s) = n + 1 /\ s \ {n + 1} \in SUBSET (1 .. n) BY <2>2, MaxOfNext
    <3>2. iter[s \ {Max(s)}] \in P BY <1>2, <3>1
    <3>3. s # {} /\ s \in SUBSET (1 .. N) /\ Max(s) \in 1 .. N BY <2>2, <3>1
    <3> QED BY <3>2, <3>3
  <2> QED BY <2>1, <2>2
<1> HIDE DEF S
<1>3. Nat \subseteq S BY <1>1, <1>2, SetInduction
<1> QED BY <1>3 DEF S

\* f is the iteration a fold of g over o from z is defined by.
IsFold(f, g, z, o) ==
    /\ f[{}] = z
    /\ \A s \in SUBSET DOMAIN o : s # {} =>
          Max(s) \in s /\ f[s] = g[<<f[s \ {Max(s)}], o[Max(s)]>>]

LEMMA FoldExists ==
    ASSUME NEW P, NEW E, NEW g \in [P \X E -> P], NEW z \in P, NEW o \in Seq(E)
    PROVE  \E f \in [SUBSET DOMAIN o -> P] : IsFold(f, g, z, o)
<1> DEFINE Iterates(n, f) ==
             /\ f[{}] = z
             /\ \A s \in SUBSET (1 .. n) : s # {} =>
                   /\ Max(s) \in s
                   /\ f[s] = g[<<f[s \ {Max(s)}], o[Max(s)]>>]
           S == {n \in Nat : n <= Len(o) =>
                    \E f \in [SUBSET (1 .. n) -> P] : Iterates(n, f)}
<1>1. Len(o) \in Nat /\ DOMAIN o = 1 .. Len(o) /\ \A i \in 1 .. Len(o) : o[i] \in E
  OBVIOUS
<1> HIDE DEF Iterates
<1>2. 0 \in S
  <2>1. PICK f : f = [s \in SUBSET (1 .. 0) |-> z] OBVIOUS
  <2>2. \A s \in SUBSET (1 .. 0) : s = {} OBVIOUS
  <2>3. f \in [SUBSET (1 .. 0) -> P] /\ Iterates(0, f)
    BY <2>1, <2>2 DEF Iterates
  <2> QED BY <2>3
<1>3. ASSUME NEW n \in Nat, n \in S PROVE n + 1 \in S
  <2>0. n + 1 \in Nat OBVIOUS
  <2> SUFFICES ASSUME n + 1 <= Len(o)
               PROVE  \E f \in [SUBSET (1 .. n + 1) -> P] : Iterates(n + 1, f)
    BY <2>0, Zenon
  <2>1. n <= Len(o) /\ n + 1 \in 1 .. Len(o) BY <1>1
  <2>2. PICK f \in [SUBSET (1 .. n) -> P] : Iterates(n, f) BY <1>3, <2>1
  <2>3. o[n + 1] \in E BY <1>1, <2>1
  <2> DEFINE f1 == [s \in SUBSET (1 .. n + 1) |->
                       IF n + 1 \in s THEN g[<<f[s \ {n + 1}], o[n + 1]>>] ELSE f[s]]
  <2>4. f1 \in [SUBSET (1 .. n + 1) -> P]
    <3> SUFFICES ASSUME NEW s \in SUBSET (1 .. n + 1)
                 PROVE  (IF n + 1 \in s THEN g[<<f[s \ {n + 1}], o[n + 1]>>]
                         ELSE f[s]) \in P
      BY Zenon
    <3>1. CASE n + 1 \in s
      <4>1. s \ {n + 1} \in SUBSET (1 .. n) BY <3>1, MaxOfNext
      <4>2. f[s \ {n + 1}] \in P BY <4>1
      <4> QED BY <2>3, <3>1, <4>2
    <3>2. CASE n + 1 \notin s
      <4>1. s \in SUBSET (1 .. n) BY <3>2, MaxOfNext
      <4> QED BY <3>2, <4>1
    <3> QED BY <3>1, <3>2
  <2>5. \A s \in SUBSET (1 .. n) : f1[s] = f[s]
    <3>1. \A s \in SUBSET (1 .. n) : s \in SUBSET (1 .. n + 1) /\ n + 1 \notin s
      OBVIOUS
    <3> QED BY <3>1
  <2>6. ASSUME NEW s \in SUBSET (1 .. n + 1), s # {}
        PROVE  Max(s) \in s /\ f1[s] = g[<<f1[s \ {Max(s)}], o[Max(s)]>>]
    <3>1. CASE n + 1 \in s
      <4>1. Max(s) = n + 1 /\ s \ {n + 1} \in SUBSET (1 .. n) BY <3>1, MaxOfNext
      <4>2. f1[s] = g[<<f[s \ {n + 1}], o[n + 1]>>] BY <3>1
      <4>3. f1[s \ {n + 1}] = f[s \ {n + 1}] BY <2>5, <4>1
      <4> HIDE DEF f1
      <4> QED BY <3>1, <4>1, <4>2, <4>3
    <3>2. CASE n + 1 \notin s
      <4>1. s \in SUBSET (1 .. n) BY <3>2, MaxOfNext
      <4>2. Max(s) \in s /\ f[s] = g[<<f[s \ {Max(s)}], o[Max(s)]>>]
        BY <2>2, <2>6, <4>1 DEF Iterates
      <4>3. s \ {Max(s)} \in SUBSET (1 .. n) BY <4>1
      <4>4. f1[s] = f[s] /\ f1[s \ {Max(s)}] = f[s \ {Max(s)}] BY <2>5, <4>1, <4>3
      <4> HIDE DEF f1
      <4> QED BY <4>2, <4>4
    <3> QED BY <3>1, <3>2
  <2>7. f1[{}] = z
    <3>1. {} \in SUBSET (1 .. n) OBVIOUS
    <3> QED BY <2>2, <2>5, <3>1 DEF Iterates
  <2> HIDE DEF f1
  <2>8. Iterates(n + 1, f1) BY <2>6, <2>7 DEF Iterates
  <2> QED BY <2>4, <2>8
<1> HIDE DEF S
<1>4. Nat \subseteq S BY <1>2, <1>3, SetInduction
<1>5. Len(o) \in S /\ Len(o) <= Len(o) BY <1>1, <1>4
<1>6. \E f \in [SUBSET (1 .. Len(o)) -> P] : Iterates(Len(o), f)
  BY <1>5, Zenon DEF S
<1> QED BY <1>1, <1>6 DEF Iterates, IsFold

\* Handling ordered requests one after the other, as apply_new_view does.
LEMMA FoldOrs ==
    ASSUME NEW P, NEW E, NEW z \in P, NEW o \in Seq(E),
           \A x \in P, e \in E : process_or(x, e) \in P
    PROVE  FoldLeft(process_or, z, o) \in P
<1> DEFINE Iterates(iter) ==
              iter = [s \in SUBSET DOMAIN o |->
                         IF s = {} THEN z
                         ELSE LET x == Max(s) IN process_or(iter[s \ {x}], o[x])]
           it == CHOOSE iter : Iterates(iter)
<1>1. FoldLeft(process_or, z, o) = it[DOMAIN o]
  BY Zenon DEF FoldLeft, MapThenFoldSet
<1>2. Len(o) \in Nat /\ DOMAIN o = 1 .. Len(o) /\ \A i \in 1 .. Len(o) : o[i] \in E
  OBVIOUS
<1>3. \E iter : Iterates(iter)
  <2> DEFINE g == [xe \in P \X E |-> process_or(xe[1], xe[2])]
  <2>1. g \in [P \X E -> P] OBVIOUS
  <2>2. PICK h \in [P \X E -> P] :
           \A x \in P, e \in E : h[<<x, e>>] = process_or(x, e)
    <3>1. \A x \in P, e \in E : g[<<x, e>>] = process_or(x, e) OBVIOUS
    <3> QED BY <2>1, <3>1
  <2> HIDE DEF Iterates, it
  <2>3. PICK f \in [SUBSET DOMAIN o -> P] : IsFold(f, h, z, o) BY FoldExists
  <2>4. ASSUME NEW s \in SUBSET DOMAIN o, s # {}
        PROVE  f[s] = process_or(f[s \ {Max(s)}], o[Max(s)])
    <3>1. Max(s) \in s /\ f[s] = h[<<f[s \ {Max(s)}], o[Max(s)]>>] BY <2>3, <2>4 DEF IsFold
    <3>2. o[Max(s)] \in E BY <1>2, <3>1
    <3>3. s \ {Max(s)} \in SUBSET DOMAIN o OBVIOUS
    <3>4. f[s \ {Max(s)}] \in P BY <3>3
    <3> QED BY <2>2, <3>1, <3>2, <3>4
  <2>5. Iterates(f) BY <2>3, <2>4 DEF Iterates, IsFold
  <2> QED BY <2>5
<1>4. Iterates(it) BY <1>3
<1>5. it[{}] \in P
  <2>1. {} \in SUBSET DOMAIN o OBVIOUS
  <2> HIDE DEF it
  <2> QED BY <1>4, <2>1
<1>6. ASSUME NEW s \in SUBSET (1 .. Len(o)), s # {}, Max(s) \in 1 .. Len(o),
             it[s \ {Max(s)}] \in P
      PROVE  it[s] \in P
  <2>1. o[Max(s)] \in E BY <1>2, <1>6
  <2>2. it[s] = process_or(it[s \ {Max(s)}], o[Max(s)])
    <3> HIDE DEF it
    <3> QED BY <1>2, <1>4, <1>6
  <2> QED BY <1>6, <2>1, <2>2
<1> HIDE DEF it
<1>7. \A s \in SUBSET (1 .. Len(o)) : it[s] \in P BY <1>2, <1>5, <1>6, FoldStays
<1> QED BY <1>1, <1>2, <1>7
\* Applying the view changes of a NewView one after the other.
LEMMA FoldViewChanges ==
    ASSUME NEW P, NEW E, NEW z \in P, NEW o \in Seq(E),
           \A x \in P, e \in E : ApplyViewChange(x, e) \in P
    PROVE  FoldLeft(ApplyViewChange, z, o) \in P
<1> DEFINE Iterates(iter) ==
              iter = [s \in SUBSET DOMAIN o |->
                         IF s = {} THEN z
                         ELSE LET x == Max(s) IN ApplyViewChange(iter[s \ {x}], o[x])]
           it == CHOOSE iter : Iterates(iter)
<1>1. FoldLeft(ApplyViewChange, z, o) = it[DOMAIN o]
  BY Zenon DEF FoldLeft, MapThenFoldSet
<1>2. Len(o) \in Nat /\ DOMAIN o = 1 .. Len(o) /\ \A i \in 1 .. Len(o) : o[i] \in E
  OBVIOUS
<1>3. \E iter : Iterates(iter)
  <2> DEFINE g == [xe \in P \X E |-> ApplyViewChange(xe[1], xe[2])]
  <2>1. g \in [P \X E -> P] OBVIOUS
  <2>2. PICK h \in [P \X E -> P] :
           \A x \in P, e \in E : h[<<x, e>>] = ApplyViewChange(x, e)
    <3>1. \A x \in P, e \in E : g[<<x, e>>] = ApplyViewChange(x, e) OBVIOUS
    <3> QED BY <2>1, <3>1
  <2> HIDE DEF Iterates, it
  <2>3. PICK f \in [SUBSET DOMAIN o -> P] : IsFold(f, h, z, o) BY FoldExists
  <2>4. ASSUME NEW s \in SUBSET DOMAIN o, s # {}
        PROVE  f[s] = ApplyViewChange(f[s \ {Max(s)}], o[Max(s)])
    <3>1. Max(s) \in s /\ f[s] = h[<<f[s \ {Max(s)}], o[Max(s)]>>] BY <2>3, <2>4 DEF IsFold
    <3>2. o[Max(s)] \in E BY <1>2, <3>1
    <3>3. s \ {Max(s)} \in SUBSET DOMAIN o OBVIOUS
    <3>4. f[s \ {Max(s)}] \in P BY <3>3
    <3> QED BY <2>2, <3>1, <3>2, <3>4
  <2>5. Iterates(f) BY <2>3, <2>4 DEF Iterates, IsFold
  <2> QED BY <2>5
<1>4. Iterates(it) BY <1>3
<1>5. it[{}] \in P
  <2>1. {} \in SUBSET DOMAIN o OBVIOUS
  <2> HIDE DEF it
  <2> QED BY <1>4, <2>1
<1>6. ASSUME NEW s \in SUBSET (1 .. Len(o)), s # {}, Max(s) \in 1 .. Len(o),
             it[s \ {Max(s)}] \in P
      PROVE  it[s] \in P
  <2>1. o[Max(s)] \in E BY <1>2, <1>6
  <2>2. it[s] = ApplyViewChange(it[s \ {Max(s)}], o[Max(s)])
    <3> HIDE DEF it
    <3> QED BY <1>2, <1>4, <1>6
  <2> QED BY <1>6, <2>1, <2>2
<1> HIDE DEF it
<1>7. \A s \in SUBSET (1 .. Len(o)) : it[s] \in P BY <1>2, <1>5, <1>6, FoldStays
<1> QED BY <1>1, <1>2, <1>7

(***************************************************************************)
(* What apply_new_view may change for the view changes V of a NewView: it  *)
(* ends and wakes threads, and takes over the certificate of one of them.  *)
(***************************************************************************)
Applied(V, z, z1) ==
    /\ z1.view_state = z.view_state
    /\ z1.view_changes = z.view_changes
    /\ z1.ihatetheprimary_accusations = z.ihatetheprimary_accusations
    /\ z1.n = z.n /\ z1.h = z.h /\ z1.all_executed_reqs = z.all_executed_reqs
    /\ z1.replies = z.replies /\ z1.pending_commits = z.pending_commits
    /\ z1.last_cc = z.last_cc \/ \E vc \in V : z1.last_cc = vc.cc
    /\ \A m \in Request, k \in Copy :
          \/ z1.thr[m][k] = z.thr[m][k]
          \/ z1.thr[m][k] = Finished
          \/ Woken(m, z1.thr[m][k])

\* It queues or hands over ordered requests of S only.
Orderly(S, z, z1) ==
    Waits(z) /\ Queue(z) => Moves(S, z, z1) /\ Waits(z1) /\ Queue(z1)

\* The states in between: ordered requests of S and view changes of V came in.
Between(V, S, z) ==
    {z1 \in ZenoMutState : Applied(V, z, z1) /\ Orderly(S, z, z1)}

LEMMA OrComesIn ==
    ASSUME NEW V, NEW S \in SUBSET OrderedRequest, NEW z \in ZenoMutState,
           NEW x \in Between(V, S, z), NEW or \in S
    PROVE  process_or(x, or) \in Between(V, S, z)
<1>1. x \in ZenoMutState /\ Applied(V, z, x) /\ Orderly(S, z, x) BY DEF Between
<1>2. PICK y \in ZenoMutState : y = process_or(x, or) /\ Tame(x, y)
  BY <1>1, process_orTame
<1>3. Applied(V, z, y) BY <1>1, <1>2 DEF Applied, Tame
<1>4. ASSUME Waits(z), Queue(z)
      PROVE  Moves(S, z, y) /\ Waits(y) /\ Queue(y)
  <2>1. Moves(S, z, x) /\ Waits(x) /\ Queue(x) BY <1>1, <1>4 DEF Orderly
  <2>2. Moves({or}, x, y) /\ Waits(y) /\ Queue(y)
    BY <1>1, <1>2, <2>1, process_orMoves
  <2>3. Moves(S, x, y)
    <3>1. S = S \cup {or} OBVIOUS
    <3>2. x.pending_ors \cup S = S \cup (x.pending_ors \cup {or}) BY <3>1
    <3>3. \A m \in Request, k \in Copy :
             ThreadMoves(x.pending_ors \cup S, x.n + 1, x.thr[m][k], y.thr[m][k])
      BY <2>2, <3>2, MoreMoves DEF Moves
    <3> QED BY <2>2, <3>3 DEF Moves
  <2> QED BY <2>1, <2>2, <2>3, MovesTransitive
<1> QED BY <1>2, <1>3, <1>4 DEF Between, Orderly

LEMMA ViewChangeComesIn ==
    ASSUME NEW V \in SUBSET ViewChange, NEW S \in SUBSET OrderedRequest,
           \A vc \in V : vc.o \in Seq(S), NEW z \in ZenoMutState,
           NEW x \in Between(V, S, z), NEW vc \in V
    PROVE  ApplyViewChange(x, vc) \in Between(V, S, z)
<1>1. PICK B : B = Between(V, S, z) OBVIOUS
<1>2. \A x1 \in B, or \in S : process_or(x1, or) \in B BY <1>1, OrComesIn
<1>3. PICK o \in Seq(S) : o = vc.o OBVIOUS
<1>4. FoldLeft(process_or, x, o) \in B BY <1>1, <1>2, FoldOrs
<1>5. PICK y \in B : y = FoldLeft(process_or, x, vc.o) BY <1>3, <1>4
<1>6. y \in ZenoMutState /\ Applied(V, z, y) /\ Orderly(S, z, y)
  BY <1>1 DEF Between
<1>7. CASE ~(CcN(vc.cc) > CcN(y.last_cc))
  <2>1. ApplyViewChange(x, vc) = y BY <1>5, <1>7 DEF ApplyViewChange
  <2> QED BY <1>1, <2>1
<1>8. CASE CcN(vc.cc) > CcN(y.last_cc)
  <2> DEFINE y1 == [y EXCEPT !.last_cc = vc.cc]
  <2>1. ApplyViewChange(x, vc) = y1 BY <1>5, <1>8 DEF ApplyViewChange
  <2>2. vc.cc \in CommitCertificate BY DEF ViewChange
  <2>3. y1 \in ZenoMutState BY <1>6, <2>2 DEF ZenoMutState
  <2>4. /\ y1.view_state = y.view_state
        /\ y1.view_changes = y.view_changes
        /\ y1.ihatetheprimary_accusations = y.ihatetheprimary_accusations
        /\ y1.n = y.n /\ y1.h = y.h /\ y1.all_executed_reqs = y.all_executed_reqs
        /\ y1.replies = y.replies /\ y1.pending_commits = y.pending_commits
        /\ y1.last_cc = vc.cc /\ y1.thr = y.thr
        /\ y1.poisoned = y.poisoned /\ y1.pending_ors = y.pending_ors
        /\ y1.reqs_without_ors = y.reqs_without_ors
        /\ y1.reqs_without_commits = y.reqs_without_commits
    BY <1>6 DEF ZenoMutState
  <2> HIDE DEF y1
  <2>5. Applied(V, z, y1) BY <1>6, <2>4 DEF Applied
  <2>6. Orderly(S, z, y1)
    BY <1>6, <2>4 DEF Orderly, Moves, Waits, Queue, UniqueNs, IsNext, Waiting
  <2> QED BY <2>1, <2>3, <2>5, <2>6 DEF Between
<1> QED BY <1>7, <1>8

LEMMA apply_new_viewEffect ==
    ASSUME NEW V \in SUBSET ViewChange, NEW S \in SUBSET OrderedRequest,
           \A vc \in V : vc.o \in Seq(S), NEW z \in ZenoMutState,
           NEW nvm, nvm.p \in Seq(V), nvm.v \in View
    PROVE  /\ apply_new_view(z, nvm) \in ZenoMutState
           /\ apply_new_view(z, nvm).v = nvm.v
           /\ Applied(V, z, apply_new_view(z, nvm))
           /\ Orderly(S, z, apply_new_view(z, nvm))
<1>1. PICK B : B = Between(V, S, z) OBVIOUS
<1>2. z \in B
  <2>1. Applied(V, z, z) BY DEF Applied
  <2>2. Orderly(S, z, z) BY NoMoves DEF Orderly
  <2> QED BY <1>1, <2>1, <2>2 DEF Between
<1>3. \A x \in B, vc \in V : ApplyViewChange(x, vc) \in B
  BY <1>1, ViewChangeComesIn
<1>4. PICK p \in Seq(V) : p = nvm.p OBVIOUS
<1>5. FoldLeft(ApplyViewChange, z, p) \in B BY <1>2, <1>3, FoldViewChanges
<1>6. PICK y \in B : y = FoldLeft(ApplyViewChange, z, nvm.p) BY <1>4, <1>5
<1>7. y \in ZenoMutState /\ Applied(V, z, y) /\ Orderly(S, z, y)
  BY <1>1 DEF Between
<1> DEFINE y1 == [y EXCEPT !.timer = -1, !.v = nvm.v]
<1>8. apply_new_view(z, nvm) = y1
  <2>1. PICK y0 : y0 = stop_ihatetheprimary_timer(y) OBVIOUS
  <2>2. apply_new_view(z, nvm) = [y0 EXCEPT !.v = nvm.v]
    BY <1>6, <2>1 DEF apply_new_view
  <2> QED BY <1>7, <2>1, <2>2 DEF stop_ihatetheprimary_timer, ZenoMutState
<1>9. y1 \in ZenoMutState BY <1>7 DEF ZenoMutState
<1>10. /\ y1.v = nvm.v /\ y1.view_state = y.view_state
       /\ y1.view_changes = y.view_changes
       /\ y1.ihatetheprimary_accusations = y.ihatetheprimary_accusations
       /\ y1.n = y.n /\ y1.h = y.h /\ y1.all_executed_reqs = y.all_executed_reqs
       /\ y1.replies = y.replies /\ y1.pending_commits = y.pending_commits
       /\ y1.last_cc = y.last_cc /\ y1.thr = y.thr
       /\ y1.poisoned = y.poisoned /\ y1.pending_ors = y.pending_ors
       /\ y1.reqs_without_ors = y.reqs_without_ors
       /\ y1.reqs_without_commits = y.reqs_without_commits
  BY <1>7 DEF ZenoMutState
<1> HIDE DEF y1
<1>11. Applied(V, z, y1) BY <1>7, <1>10 DEF Applied
<1>12. Orderly(S, z, y1)
  BY <1>7, <1>10 DEF Orderly, Moves, Waits, Queue, UniqueNs, IsNext, Waiting
<1> QED BY <1>8, <1>9, <1>10, <1>11, <1>12

\* A set enumerated in any order is a sequence of its elements.
LEMMA SetToSeqsType ==
    ASSUME NEW V, IsFiniteSet(V)
    PROVE  /\ \A p \in SetToSeqs(V) : p \in Seq(V)
           /\ SetToSeq(V) \in Seq(V)
<1>1. Cardinality(V) \in Nat BY FS_CardinalityType
<1>2. \A p \in SetToSeqs(V) : p \in [1 .. Cardinality(V) -> V]
  BY DEF SetToSeqs
<1>3. SetToSeq(V) \in [1 .. Cardinality(V) -> V]
  <2>1. \E f : f \in Bijection(1 .. Cardinality(V), V)
    BY FS_CardinalityType DEF ExistsBijection
  <2>2. \E f \in [1 .. Cardinality(V) -> V] : IsInjective(f)
    BY <2>1 DEF Bijection, Injection, IsInjective
  <2> QED BY <2>2 DEF SetToSeq
<1> QED BY <1>1, <1>2, <1>3

==============================================================================
