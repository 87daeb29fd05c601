----------------------------- MODULE ZenoState ------------------------------
(***************************************************************************)
(* The state a Zeno server keeps behind its mutex (ZenoMutState in         *)
(* src/src/zeno.rs) with the threads that handle client requests, and the  *)
(* functions of zeno.rs that compute on that state.  Every operator here   *)
(* takes the state z of one server and returns the state the function      *)
(* leaves; the handlers, which also send messages, are in module Zeno.     *)
(***************************************************************************)
EXTENDS ZenoMessages, SequencesExt

(***************************************************************************)
(* A request handler runs in the thread of its connection:                 *)
(*   new          the transmission has not arrived                         *)
(*   awaitOr      blocked in rx.recv() until the OrderedRequest comes      *)
(*   gotOr        got it from the channel, has yet to take the mutex again *)
(*   awaitCommit  executed a strong request, collecting commits in cert    *)
(*   reply        on_request_message returned the answer computed from or  *)
(*   done         the answer (None when or = NoOr) was given back          *)
(* An answer is a function of the ordered request it is computed from: the *)
(* application is deterministic and or.h fixes everything it executed.     *)
(***************************************************************************)
Thread ==
    [pc : {"new", "awaitOr", "done"}, or : {NoOr}, cert : {{}}] \cup
    [pc : {"gotOr", "awaitCommit", "reply", "done"},
     or : OrderedRequest, cert : CommitCertificate]

NewThread == [pc |-> "new", or |-> NoOr, cert |-> {}]
Finished  == [pc |-> "done", or |-> NoOr, cert |-> {}]
Replying(or) == [pc |-> "reply", or |-> or, cert |-> {}]

(***************************************************************************)
(* reqs_without_ors and reqs_without_commits map a request to the thread   *)
(* whose channel is registered for it, 0 when there is none.  pending_ors  *)
(* is kept sorted without two entries of one n: it is a set, the front of  *)
(* the vector is its least n.  timer is the view a running                 *)
(* ihatetheprimary timer was started in, -1 when no stopper is stored;     *)
(* firing holds the views of the timer threads whose recv_timeout returned *)
(* an error and that have yet to take the mutex.  poisoned: a thread       *)
(* panicked while it held the mutex, so that every later lock() panics.    *)
(***************************************************************************)
ZenoMutState ==
    [alive : BOOLEAN,
     poisoned : BOOLEAN,
     n : Nat \cup {-1},
     v : View,
     h : Seq(Request),
     all_executed_reqs : Seq(OrderedRequest),
     replies : [Client -> OrderedRequest \cup {NoOr}],
     reqs_without_ors : [Request -> Copy \cup {0}],
     reqs_without_commits : [Request -> Copy \cup {0}],
     pending_ors : SUBSET OrderedRequest,
     pending_commits : SUBSET Commit,
     last_cc : CommitCertificate,
     timer : View \cup {-1},
     firing : SUBSET View,
     ihatetheprimary_accusations : SUBSET Replica,
     view_changes : SUBSET ViewChange,
     view_state : {"ViewActive", "ViewChanging"},
     thr : [Request -> [Copy -> Thread]]]

InitialState ==
    [alive |-> TRUE,
     poisoned |-> FALSE,
     n |-> -1,
     v |-> 0,
     h |-> <<>>,
     all_executed_reqs |-> <<>>,
     replies |-> [c \in Client |-> NoOr],
     reqs_without_ors |-> [m \in Request |-> 0],
     reqs_without_commits |-> [m \in Request |-> 0],
     pending_ors |-> {},
     pending_commits |-> {},
     last_cc |-> {},
     timer |-> -1,
     firing |-> {},
     ihatetheprimary_accusations |-> {},
     view_changes |-> {},
     view_state |-> "ViewActive",
     thr |-> [m \in Request |-> [k \in Copy |-> NewThread]]]

-----------------------------------------------------------------------------
(* Channels.  Overwriting or removing a map entry drops the sender stored  *)
(* there: the receiver drains what was sent and then fails, and the        *)
(* handler returns None.                                                   *)

DropOrSender(z, m) ==
    LET k == z.reqs_without_ors[m]
    IN  IF k = 0 THEN z
        ELSE [z EXCEPT !.reqs_without_ors[m] = 0, !.thr[m][k] = Finished]

\* Variant with a bug: a weak quorum of f others is enough.
HasQuorum_Weak(cert) == Cardinality(cert) >= max_failures

HasQuorum(cert) == Cardinality(cert) >= 2 * max_failures

DropCommitSender(z, m) ==
    LET k == z.reqs_without_commits[m]
    IN  IF k = 0 THEN z
        ELSE [z EXCEPT !.reqs_without_commits[m] = 0,
                       !.thr[m][k] = IF HasQuorum(@.cert) THEN @ ELSE Finished]

Waiting(z, m) == z.reqs_without_ors[m] # 0

\* tx.send(sor): the channel hands or to the thread waiting for its request.
Wake(z, or) ==
    [z EXCEPT !.reqs_without_ors[or.d_req] = 0,
              !.thr[or.d_req][z.reqs_without_ors[or.d_req]] =
                  [pc |-> "gotOr", or |-> or, cert |-> {}]]

-----------------------------------------------------------------------------
(* Ordered requests.                                                       *)

\* or is pending_ors[0] and its turn is next.
IsNext(z, or) ==
    /\ or \in z.pending_ors
    /\ \A o \in z.pending_ors : or.n <= o.n
    /\ or.n = z.n + 1

queue_or(z, or) ==
    IF \E o \in z.pending_ors : o.n = or.n THEN z
    ELSE [z EXCEPT !.pending_ors = @ \cup {or}]

\* Variant with a bug: an OR that is ahead reaches the waiting thread at once.
process_or_Eager(z, or) ==
    IF or.n <= z.n THEN z
    ELSE IF Waiting(z, or.d_req) THEN Wake(z, or)
    ELSE queue_or(z, or)

\* Variant with a bug: an OR that is ahead is dropped if its thread waits.
process_or_Drop(z, or) ==
    IF or.n <= z.n THEN z
    ELSE IF Waiting(z, or.d_req)
         THEN IF or.n = z.n + 1 THEN Wake(z, or) ELSE z
    ELSE queue_or(z, or)

process_or(z, or) ==
    IF or.n <= z.n THEN z
    ELSE IF Waiting(z, or.d_req) /\ or.n = z.n + 1 THEN Wake(z, or)
    ELSE queue_or(z, or)

\* Variant with a bug: nobody looks at the queue after an execution.
WakeNext_Never(z) == z

\* If we already have a next request queued, let that thread know.
WakeNext(z) ==
    LET ready == {or \in z.pending_ors : IsNext(z, or) /\ Waiting(z, or.d_req)}
    IN  IF ready = {} THEN z
        ELSE LET or == CHOOSE o \in ready : TRUE
             IN  Wake([z EXCEPT !.pending_ors = @ \ {or}], or)

-----------------------------------------------------------------------------
(* Execution.                                                              *)

\* The positions of client c's requests in the log (executed_reqs[c]).
executed_reqs(z, c) ==
    {k \in DOMAIN z.all_executed_reqs : z.all_executed_reqs[k].d_req.c = c}

\* Variant with a bug: the request before the last one, an off-by-one.
LastT_Previous(z, c) ==
    LET mine == executed_reqs(z, c)
        rest == mine \ {Max(mine)}
    IN  IF Cardinality(mine) < 2 THEN -1 ELSE z.all_executed_reqs[Max(rest)].d_req.t

\* Timestamp of the last request of client c we executed, -1 when there is none.
LastT(z, c) ==
    LET mine == executed_reqs(z, c)
    IN  IF mine = {} THEN -1 ELSE z.all_executed_reqs[Max(mine)].d_req.t

already_handled_msg(z, m) == LastT(z, m.c) >= m.t

\* Variant with a bug: numbers the request with the last sequence number.
order_message_SameN(q, z, m) ==
    IF LastT(z, m.c) + 1 # m.t THEN NoOr
    ELSE [v |-> z.v, n |-> z.n, h |-> Append(z.h, m), d_req |-> m, i |-> q]

\* The ordered request server q makes of m; NoOr unless m is c's next request.
order_message(q, z, m) ==
    IF LastT(z, m.c) + 1 # m.t THEN NoOr
    ELSE [v |-> z.v, n |-> z.n + 1, h |-> Append(z.h, m), d_req |-> m, i |-> q]

\* What order_message and check_and_execute_request assert: n numbers the log.
LogMatches(z) == Len(z.all_executed_reqs) = z.n + 1

\* The checks of check_and_execute_request all pass.
Checks(z, or, m) ==
    or.v = z.v /\ or.n <= z.n + 1 /\ or.h = Append(z.h, m)

Executes(z, or, m) == Checks(z, or, m) /\ LogMatches(z)

\* It panics: the sequence number is ahead, or the assertion fails.
Panics(z, or, m) ==
    \/ or.v = z.v /\ or.n > z.n + 1
    \/ Checks(z, or, m) /\ ~LogMatches(z)

\* Variant with a bug: the commits that came early stay in the queue.
AwaitCommits_Late(z, or, m, k) ==
    [DropCommitSender(z, m) EXCEPT
        !.reqs_without_commits[m] = k,
        !.thr[m][k] = [pc |-> "awaitCommit", or |-> or, cert |-> {}]]

\* Strong: take the commits that came early and register for the others.
AwaitCommits(z, or, m, k) ==
    [DropCommitSender(z, m) EXCEPT
        !.reqs_without_commits[m] = k,
        !.pending_commits = {cm \in @ : cm.or.d_req # m},
        !.thr[m][k] = [pc |-> "awaitCommit", or |-> or,
                       cert |-> {cm \in z.pending_commits : cm.or = or}]]

Execute(z, or, m, k) ==
    LET z1 == WakeNext([z EXCEPT !.n = @ + 1,
                                 !.h = Append(@, m),
                                 !.all_executed_reqs = Append(@, or)])
    IN  IF m.s THEN AwaitCommits(z1, or, m, k)
        ELSE [z1 EXCEPT !.thr[m][k] = Replying(or)]

\* Thread k of request m runs it as or says, if or checks out.
check_and_execute_request(z, or, m, k) ==
    IF Executes(z, or, m) THEN Execute(z, or, m, k)
    ELSE IF Panics(z, or, m) THEN [z EXCEPT !.poisoned = TRUE]
    ELSE [z EXCEPT !.thr[m][k] = Finished]

\* Variant with a bug: any commit for the same request counts.
AddCommit_AnyOr(z, cm) ==
    LET m == cm.or.d_req
        k == z.reqs_without_commits[m]
    IN  IF k = 0 THEN [z EXCEPT !.pending_commits = @ \cup {cm}]
        ELSE IF ~HasQuorum(z.thr[m][k].cert)
             THEN [z EXCEPT !.thr[m][k].cert = @ \cup {cm}]
             ELSE z

\* A commit goes to the thread that waits for it or is kept for a later one.
AddCommit(z, cm) ==
    LET m == cm.or.d_req
        k == z.reqs_without_commits[m]
    IN  IF k = 0 THEN [z EXCEPT !.pending_commits = @ \cup {cm}]
        ELSE IF cm.or = z.thr[m][k].or /\ ~HasQuorum(z.thr[m][k].cert)
             THEN [z EXCEPT !.thr[m][k].cert = @ \cup {cm}]
             ELSE z

\* Thread k of m has its commit certificate and takes the mutex again.
Certify(z, m, k) ==
    LET cert == z.thr[m][k].cert
    IN  [DropCommitSender(z, m) EXCEPT !.last_cc = cert,
                                       !.thr[m][k] = Replying(@.or)]

-----------------------------------------------------------------------------
(* The timer and the view change.                                          *)

stop_ihatetheprimary_timer(z) == [z EXCEPT !.timer = -1]

\* Storing the new stopper drops the old one: the old thread's wait fails.
start_ihatetheprimary_timer(z) ==
    [z EXCEPT !.timer = z.v,
              !.firing = IF z.timer = -1 THEN @ ELSE @ \cup {z.timer}]

\* Variant with a bug: a view that is changing counts as active.
is_view_active_Always(z) == z.view_state \in {"ViewActive", "ViewChanging"}

is_view_active(z) == z.view_state = "ViewActive"

\* The slice all_executed_reqs[last_committed + 1 ..] has a valid start.
HasSuffix(z) == z.last_cc = {} \/ CcN(z.last_cc) + 1 <= Len(z.all_executed_reqs)

\* What server q reports of view v: the ordered requests after its last
\* commit certificate, nothing when it has no certificate.
ViewChangeOf(q, z, v) ==
    [v |-> v, cc |-> z.last_cc, i |-> q,
     o |-> IF z.last_cc = {} THEN <<>>
           ELSE SubSeq(z.all_executed_reqs, CcN(z.last_cc) + 2,
                       Len(z.all_executed_reqs))]

ApplyViewChange(z, vc) ==
    LET z1 == FoldLeft(process_or, z, vc.o)
    IN  IF CcN(vc.cc) > CcN(z1.last_cc) THEN [z1 EXCEPT !.last_cc = vc.cc]
        ELSE z1

apply_new_view(z, nvm) ==
    [stop_ihatetheprimary_timer(FoldLeft(ApplyViewChange, z, nvm.p))
        EXCEPT !.v = nvm.v]

\* halt clears both maps, which ends the threads that wait for a message.
Halted(z) ==
    [z EXCEPT !.alive = FALSE,
              !.reqs_without_ors = [m \in Request |-> 0],
              !.reqs_without_commits = [m \in Request |-> 0],
              !.thr = [m \in Request |-> [k \in Copy |->
                  IF \/ @[m][k].pc = "awaitOr"
                     \/ @[m][k].pc = "awaitCommit" /\ ~HasQuorum(@[m][k].cert)
                  THEN Finished ELSE @[m][k]]]]
=============================================================================
