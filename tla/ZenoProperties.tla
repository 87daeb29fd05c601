--------------------------- MODULE ZenoProperties ---------------------------
(***************************************************************************)
(* What the servers of module Zeno must guarantee, and what the comments   *)
(* and tests of src/src/zeno.rs say of them that does not hold.            *)
(***************************************************************************)
EXTENDS Zeno

\* The type of the servers' state and of the messages in flight.  It also
\* says that sequence numbers sent are never negative (n is i64 in a server
\* and u64 in a message) and that no log holds an OR of a wrong shape.
TypeOK ==
    /\ zs \in [Replica -> ZenoMutState]
    /\ orMsgs \in [Replica -> SUBSET OrderedRequest]
    /\ commitMsgs \in [Replica -> SUBSET Commit]
    /\ fillHoleMsgs \in [Replica -> SUBSET FillHole]
    /\ ihtpMsgs \in [Replica -> SUBSET IHateThePrimary]
    /\ viewChangeMsgs \in [Replica -> SUBSET ViewChange]
    /\ newViewMsgs \in [Replica -> SUBSET NewView]

-----------------------------------------------------------------------------
(* Safety *)

Executed(q, or) == or \in Range(zs[q].all_executed_reqs)

Comparable(h1, h2) == IsPrefix(h1, h2) \/ IsPrefix(h2, h1)

Threads == {zs[q].thr[m][k] : q \in Replica, m \in Request, k \in Copy}

\* th answers a strong request, or did so.
AnswersStrong(th) == th.pc \in {"reply", "done"} /\ th.or # NoOr /\ th.or.d_req.s

\* What some server answers a strong request with.
StrongAnswers == {th.or : th \in {t \in Threads : AnswersStrong(t)}}

\* Any two strong requests that were answered were executed in one order:
\* the history behind one answer extends the history behind the other, also
\* when they were ordered in different views or the answer was cached.
Agreement ==
    \A or1, or2 \in StrongAnswers : Comparable(or1.h, or2.h)

\* A strong request is answered only when 2f + 1 servers have executed the
\* very ordered request behind the answer (commit_cert counts 2f others).
StrongReplyQuorum ==
    \A or \in StrongAnswers :
        Cardinality({q \in Replica : Executed(q, or)}) > 2 * max_failures

\* The requests some server has received.
Invoked == {m \in Request : \E q \in Replica, k \in Copy : zs[q].thr[m][k].pc # "new"}

SL == INSTANCE StrongLog WITH
    Op <- Request, invoked <- Invoked, answered <- {or.h : or \in StrongAnswers}

\* To the clients with strong requests the servers are one log: an answer, once
\* given, stays one a single sequential server could have given, whatever is
\* answered later, by whom and in which view.
ImplementsStrongLog == SL!Spec

\* Every commit anywhere, in flight, queued, collected by a thread or in a
\* stored certificate, is by a server that has executed what it commits to.
CertificatesRestOnExecution ==
    \A q \in Replica :
        \A cm \in UNION ({commitMsgs[q], zs[q].pending_commits, zs[q].last_cc} \cup
                         {zs[q].thr[m][k].cert : m \in Request, k \in Copy}) :
            Executed(cm.j, cm.or)

\* The history of server q up to the k-th request it executed.
HistoryAt(q, k) == SubSeq(zs[q].h, 1, k)

\* The servers that execute requests in the same view do so after the same
\* history: its primary imposes one order, also on weak requests.
OneOrderPerView ==
    \A p, q \in Replica :
        \A k \in DOMAIN zs[p].all_executed_reqs, l \in DOMAIN zs[q].all_executed_reqs :
            zs[p].all_executed_reqs[k].v = zs[q].all_executed_reqs[l].v
                => Comparable(HistoryAt(p, k), HistoryAt(q, l))

\* In a history the requests of a client have the timestamps 0, 1, 2 and so on.
InOrder(h) ==
    \A j \in DOMAIN h :
        /\ \A i \in 1 .. j - 1 : h[i].c = h[j].c => h[i].t < h[j].t
        /\ h[j].t # 0 =>
              \E i \in 1 .. j - 1 : h[i].c = h[j].c /\ h[i].t = h[j].t - 1

\* A server executes every request of a client once and in timestamp order,
\* however often and through whatever path it receives them.
ExactlyOnce == \A q \in Replica : InOrder(zs[q].h)

\* No thread sleeps on its OR while that OR is at the front of the queue and
\* its turn has come: nobody would ever wake the thread.
NoLostWakeup ==
    \A q \in Replica : \A or \in zs[q].pending_ors :
        ~(IsNext(zs[q], or) /\ Waiting(zs[q], or.d_req))

\* A thread that still collects commits is the one they are sent to, and no
\* commit it needs is left in the queue, which it reads only once.
NoStrandedCommit ==
    \A q \in Replica, m \in Request, k \in Copy :
        LET th == zs[q].thr[m][k]
        IN  th.pc = "awaitCommit" /\ ~HasQuorum(th.cert) =>
                /\ zs[q].reqs_without_commits[m] = k
                /\ \A cm \in zs[q].pending_commits : cm.or # th.or

\* No thread ever panics with the mutex held: an OR handed to a thread is
\* still next in order when the thread takes the mutex, and the log reaches
\* beyond the last commit certificate when a view change slices it.
NoPanic == \A q \in Replica : ~zs[q].poisoned

\* view_state never becomes active again: after one view change a server
\* takes part in no other, and no new view is ever announced.
AtMostOneViewChange ==
    \A q \in Replica : zs[q].v <= 1 /\ newViewMsgs[q] = {}

-----------------------------------------------------------------------------
(* Liveness *)

\* Every client gets the result of every request from enough servers, in
\* whatever order requests, ordered requests and commits arrive.
EveryRequestAccepted == \A m \in Request : <>Accepted(m)

-----------------------------------------------------------------------------
(* What comments and tests say and the code does not do *)

\* The tests compare each result with the one the operation must have: the
\* result a client takes for a request is that of the request, never the
\* cached result of an earlier one.
ClientGetsOwnResult ==
    \A m \in Request : \A h \in AcceptedResults(m) : h[Len(h)] = m

\* "possibility 2: we have the OR already and can execute it now": a request
\* does not wait while the OR of the current view that makes it the next one
\* to execute is queued.
QueuedRequestRuns ==
    \A q \in Replica : \A or \in zs[q].pending_ors :
        or.v = zs[q].v /\ or.n = zs[q].n + 1 => ~Waiting(zs[q], or.d_req)
=============================================================================
