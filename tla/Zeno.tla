-------------------------------- MODULE Zeno --------------------------------
(***************************************************************************)
(* The Zeno servers of src/src/zeno.rs: one action for every message       *)
(* handler, every step of a request's thread between two acquisitions of   *)
(* the mutex, the ihatetheprimary timer and halt.                          *)
(*                                                                         *)
(* A message in flight is in the inbox of its receiver.  It is handled at  *)
(* most once, in any order (connections are re-opened, every message has   *)
(* its own handler call), or never (it was lost with its connection).      *)
(***************************************************************************)
EXTENDS ZenoState

CONSTANTS
    Live,       \* the servers that run; the others never answer
    Stoppable,  \* the servers that may be stopped (Zeno dropped)
    Tries       \* Tries[q][m]: how many transmissions of m may reach q

ASSUME DeploymentAssumption ==
    /\ Live \subseteq Replica /\ Stoppable \subseteq Replica
    /\ Tries \in [Replica -> [Request -> 0 .. MaxTries]]

VARIABLES
    zs,             \* zs[q]: the mut_state of server q
    orMsgs,         \* OrderedRequests in flight to each server
    commitMsgs,     \* Commits
    fillHoleMsgs,   \* FillHoles
    ihtpMsgs,       \* IHateThePrimarys
    viewChangeMsgs, \* ViewChanges
    newViewMsgs     \* NewViews

vars == <<zs, orMsgs, commitMsgs, fillHoleMsgs, ihtpMsgs, viewChangeMsgs,
          newViewMsgs>>

Empty == [q \in Replica |-> {}]

Init ==
    /\ zs = [q \in Replica |-> InitialState]
    /\ orMsgs = Empty
    /\ commitMsgs = Empty
    /\ fillHoleMsgs = Empty
    /\ ihtpMsgs = Empty
    /\ viewChangeMsgs = Empty
    /\ newViewMsgs = Empty

-----------------------------------------------------------------------------
(* The threads of q run: no panic poisoned its mutex.  Those of a halted
   server run on. *)
Running(q) == q \in Live /\ ~zs[q].poisoned

\* q also reads what reaches it: handle_reader looks at alive before a call.
Up(q) == Running(q) /\ zs[q].alive

\* Variant with a bug: every server orders the requests it gets.
is_primary_Always(q) == q \in Replica

\* q leads the view it is in.
is_primary(q) == get_primary_for_view(zs[q].v) = q

\* A server is not among its own peers.
send_to_all(inbox, q, msg) ==
    [p \in Replica |->
        IF p \in Live \ {q} THEN inbox[p] \cup {msg} ELSE inbox[p]]

send_to(inbox, q, target, msg) ==
    IF target \in Live \ {q} THEN [inbox EXCEPT ![target] = @ \cup {msg}]
    ELSE inbox

Handled(inbox, q, msg) == [inbox EXCEPT ![q] = @ \ {msg}]

\* Variant with a bug: the commit is sent before the request is checked.
Run_CommitFirst(q, z, or, m, k) ==
    /\ zs' = [zs EXCEPT ![q] = check_and_execute_request(z, or, m, k)]
    /\ commitMsgs' = IF m.s THEN send_to_all(commitMsgs, q, [or |-> or, j |-> q])
                     ELSE commitMsgs

\* The commit of a strong request is sent as soon as it is executed.
Run(q, z, or, m, k) ==
    /\ zs' = [zs EXCEPT ![q] = check_and_execute_request(z, or, m, k)]
    /\ commitMsgs' = IF Executes(z, or, m) /\ m.s
                     THEN send_to_all(commitMsgs, q, [or |-> or, j |-> q])
                     ELSE commitMsgs

-----------------------------------------------------------------------------
(* The client (src/src/zeno_client.rs) compares nothing but the results.   *)

\* The histories after which q executed what it answered to m.
Results(q, m) ==
    {zs[q].thr[m][k].or.h : k \in
        {l \in Copy : zs[q].thr[m][l].pc = "done" /\ zs[q].thr[m][l].or # NoOr}}

\* The results of m that enough servers agree on: the client takes one.
AcceptedResults(m) ==
    {h \in UNION {Results(q, m) : q \in Replica} :
        Cardinality({q \in Replica : h \in Results(q, m)})
            > (IF m.s THEN 2 * max_failures ELSE max_failures)}

Accepted(m) == AcceptedResults(m) # {}

\* A client issues request t when it has the result of its request t - 1.
Issued(m) ==
    \A p \in Request : p.c = m.c /\ p.t + 1 = m.t => Accepted(p)

-----------------------------------------------------------------------------
(* on_request_message *)

\* The k-th transmission of m to reach q reaches it.
Arrives(q, m, k) ==
    /\ Up(q)
    /\ k \in 1 .. Tries[q][m]
    /\ zs[q].thr[m][k].pc = "new"
    /\ k > 1 => zs[q].thr[m][k - 1].pc # "new"
    /\ Issued(m)

\* A retransmission, while a thread waits for the request, starts the timer.
OnArrival(q, m) ==
    IF Waiting(zs[q], m) THEN start_ihatetheprimary_timer(zs[q]) ELSE zs[q]

\* Possibility 1: we answer with the reply cached for the client.
AnswerFromCache(q, m, k) ==
    /\ Arrives(q, m, k)
    /\ already_handled_msg(zs[q], m)
    /\ LET cached == zs[q].replies[m.c]
       IN  zs' = [zs EXCEPT ![q].thr[m][k] =
                     IF cached = NoOr THEN Finished ELSE Replying(cached)]
    /\ UNCHANGED <<orMsgs, commitMsgs, fillHoleMsgs, ihtpMsgs, viewChangeMsgs,
                   newViewMsgs>>

IsQueued(z, m, or) == IsNext(z, or) /\ or.d_req = m

\* Possibility 2: we have the OR already and can execute it now.
ExecuteQueued(q, m, k) ==
    /\ Arrives(q, m, k)
    /\ ~already_handled_msg(zs[q], m)
    /\ \E or \in zs[q].pending_ors :
        /\ IsQueued(zs[q], m, or)
        /\ Run(q, [OnArrival(q, m) EXCEPT !.pending_ors = @ \ {or}], or, m, k)
    /\ UNCHANGED <<orMsgs, fillHoleMsgs, ihtpMsgs, viewChangeMsgs, newViewMsgs>>

\* Possibility 3: we are the primary and can order it ourselves.
\* order_message asserts first that n numbers the log.
OrderRequest(q, m, k) ==
    /\ Arrives(q, m, k)
    /\ ~already_handled_msg(zs[q], m)
    /\ ~\E or \in zs[q].pending_ors : IsQueued(zs[q], m, or)
    /\ is_primary(q)
    /\ LET z  == OnArrival(q, m)
           or == order_message(q, z, m)
       IN  IF ~LogMatches(z) \/ or = NoOr
           THEN /\ zs' = [zs EXCEPT ![q] = IF LogMatches(z)
                                          THEN [z EXCEPT !.thr[m][k] = Finished]
                                          ELSE [z EXCEPT !.poisoned = TRUE]]
                /\ UNCHANGED <<orMsgs, commitMsgs>>
           ELSE /\ orMsgs' = send_to_all(orMsgs, q, or)
                /\ Run(q, z, or, m, k)
    /\ UNCHANGED <<fillHoleMsgs, ihtpMsgs, viewChangeMsgs, newViewMsgs>>

\* Possibility 4: we wait until we receive the OR later.  An older thread
\* that waits for the same request is clobbered.
AwaitOr(q, m, k) ==
    /\ Arrives(q, m, k)
    /\ ~already_handled_msg(zs[q], m)
    /\ ~\E or \in zs[q].pending_ors : IsQueued(zs[q], m, or)
    /\ ~is_primary(q)
    /\ zs' = [zs EXCEPT ![q] = [DropOrSender(OnArrival(q, m), m) EXCEPT
                                    !.reqs_without_ors[m] = k,
                                    !.thr[m][k].pc = "awaitOr"]]
    /\ UNCHANGED <<orMsgs, commitMsgs, fillHoleMsgs, ihtpMsgs, viewChangeMsgs,
                   newViewMsgs>>

\* The thread that was handed its OR takes the mutex again and executes it.
\* It removes whatever channel is registered for the request by then.
ExecuteReceived(q, m, k) ==
    /\ Running(q)
    /\ zs[q].thr[m][k].pc = "gotOr"
    /\ Run(q, DropOrSender(zs[q], m), zs[q].thr[m][k].or, m, k)
    /\ UNCHANGED <<orMsgs, fillHoleMsgs, ihtpMsgs, viewChangeMsgs, newViewMsgs>>

\* The thread has a commit certificate and takes the mutex to store it.
StoreCertificate(q, m, k) ==
    /\ Running(q)
    /\ zs[q].thr[m][k].pc = "awaitCommit"
    /\ HasQuorum(zs[q].thr[m][k].cert)
    /\ zs' = [zs EXCEPT ![q] = Certify(zs[q], m, k)]
    /\ UNCHANGED <<orMsgs, commitMsgs, fillHoleMsgs, ihtpMsgs, viewChangeMsgs,
                   newViewMsgs>>

\* handle_message takes the mutex to cache the reply and gives it back.
CacheReply(q, m, k) ==
    /\ Running(q)
    /\ zs[q].thr[m][k].pc = "reply"
    /\ zs' = [zs EXCEPT ![q].replies[m.c] = zs[q].thr[m][k].or,
                        ![q].thr[m][k].pc = "done"]
    /\ UNCHANGED <<orMsgs, commitMsgs, fillHoleMsgs, ihtpMsgs, viewChangeMsgs,
                   newViewMsgs>>

-----------------------------------------------------------------------------
(* The other handlers *)

\* An OR of another view or not from its primary is ignored.
FromPrimary(z, or) == or.v = z.v /\ or.i = get_primary_for_view(z.v)

on_ordered_request(q, or) ==
    /\ Up(q) /\ or \in orMsgs[q]
    /\ orMsgs' = Handled(orMsgs, q, or)
    /\ zs' = [zs EXCEPT ![q] =
                 IF FromPrimary(@, or)
                 THEN process_or(stop_ihatetheprimary_timer(@), or)
                 ELSE @]
    /\ LET z       == zs[q]
           primary == get_primary_for_view(z.v)
       IN  fillHoleMsgs' =
               IF FromPrimary(z, or) /\ or.n # z.n + 1
               THEN send_to(fillHoleMsgs, q, primary,
                            [v |-> z.v, n |-> z.n, or_n |-> or.n, i |-> primary])
               ELSE fillHoleMsgs
    /\ UNCHANGED <<commitMsgs, ihtpMsgs, viewChangeMsgs, newViewMsgs>>

on_commit(q, cm) ==
    /\ Up(q) /\ cm \in commitMsgs[q]
    /\ commitMsgs' = Handled(commitMsgs, q, cm)
    /\ zs' = [zs EXCEPT ![q] = AddCommit(@, cm)]
    /\ UNCHANGED <<orMsgs, fillHoleMsgs, ihtpMsgs, viewChangeMsgs, newViewMsgs>>

\* The answers go to fhm.i.  The requests sent along with the ORs are not
\* modelled: fhm.i is the server itself, which has no connection to itself.
on_fillhole(q, fhm) ==
    /\ Up(q) /\ fhm \in fillHoleMsgs[q]
    /\ fillHoleMsgs' = Handled(fillHoleMsgs, q, fhm)
    /\ LET all  == zs[q].all_executed_reqs
           hole == {all[n + 1] : n \in {x \in fhm.n + 1 .. fhm.or_n - 1 :
                                            x + 1 \in DOMAIN all}}
       IN  orMsgs' = IF fhm.i \in Live \ {q}
                     THEN [orMsgs EXCEPT ![fhm.i] = @ \cup hole] ELSE orMsgs
    /\ UNCHANGED <<zs, commitMsgs, ihtpMsgs, viewChangeMsgs, newViewMsgs>>

\* recv_timeout runs out.
TimerExpires(q) ==
    /\ Running(q)
    /\ zs[q].timer # -1
    /\ zs' = [zs EXCEPT ![q].timer = -1, ![q].firing = @ \cup {zs[q].timer}]
    /\ UNCHANGED <<orMsgs, commitMsgs, fillHoleMsgs, ihtpMsgs, viewChangeMsgs,
                   newViewMsgs>>

\* The timer's thread gets the mutex and accuses the primary, unless the
\* view changed in between.
AccusePrimary(q, view) ==
    /\ Running(q)
    /\ view \in zs[q].firing
    /\ zs' = [zs EXCEPT ![q].firing = @ \ {view},
                        ![q].ihatetheprimary_accusations =
                            IF zs[q].v = view THEN @ \cup {q} ELSE @]
    /\ ihtpMsgs' = IF zs[q].v = view
                   THEN send_to_all(ihtpMsgs, q, [v |-> view, i |-> q])
                   ELSE ihtpMsgs
    /\ UNCHANGED <<orMsgs, commitMsgs, fillHoleMsgs, viewChangeMsgs, newViewMsgs>>

\* Variant with a bug: f accusations are enough.
EnoughAccusations_F(accused) == Cardinality(accused) >= max_failures

EnoughAccusations(accused) == Cardinality(accused) > max_failures

\* The accusation by another server, or one too many: leave the view.
on_ihatetheprimary(q, msg) ==
    /\ Up(q) /\ msg \in ihtpMsgs[q]
    /\ ihtpMsgs' = Handled(ihtpMsgs, q, msg)
    /\ LET z       == zs[q]
           accused == z.ihatetheprimary_accusations \cup {msg.i}
           leaves  == /\ msg.v = z.v
                      /\ is_view_active(z)
                      /\ EnoughAccusations(accused)
           z1      == IF msg.v = z.v
                      THEN [z EXCEPT !.ihatetheprimary_accusations = accused]
                      ELSE z
       IN  /\ zs' = [zs EXCEPT ![q] =
                        IF leaves
                        THEN [z1 EXCEPT !.view_state = "ViewChanging",
                                        !.v = @ + 1,
                                        !.poisoned = ~HasSuffix(z)]
                        ELSE z1]
           /\ viewChangeMsgs' =
                  IF leaves /\ HasSuffix(z)
                  THEN send_to_all(viewChangeMsgs, q, ViewChangeOf(q, z, z.v + 1))
                  ELSE viewChangeMsgs
    /\ UNCHANGED <<orMsgs, commitMsgs, fillHoleMsgs, newViewMsgs>>

\* The primary of an active view starts it from 2f + 1 view changes, taken
\* in the order its hash map yields them.
on_viewchange(q, msg) ==
    /\ Up(q) /\ msg \in viewChangeMsgs[q]
    /\ viewChangeMsgs' = Handled(viewChangeMsgs, q, msg)
    /\ LET z   == zs[q]
           vcs == {vc \in z.view_changes : vc.i # msg.i} \cup {msg}
           z1  == IF msg.v = z.v THEN [z EXCEPT !.view_changes = vcs] ELSE z
       IN  IF /\ msg.v = z.v
              /\ is_view_active(z)
              /\ Cardinality(vcs) > 2 * max_failures
              /\ is_primary(q)
           THEN \E p \in SetToSeqs(vcs) :
                    LET nvm == [v |-> z.v, p |-> p, i |-> q]
                    IN  /\ zs' = [zs EXCEPT ![q] = apply_new_view(z1, nvm)]
                        /\ newViewMsgs' = send_to_all(newViewMsgs, q, nvm)
           ELSE /\ zs' = [zs EXCEPT ![q] = z1]
                /\ UNCHANGED newViewMsgs
    /\ UNCHANGED <<orMsgs, commitMsgs, fillHoleMsgs, ihtpMsgs>>

on_newview(q, msg) ==
    /\ Up(q) /\ msg \in newViewMsgs[q]
    /\ newViewMsgs' = Handled(newViewMsgs, q, msg)
    /\ zs' = [zs EXCEPT ![q] =
                 IF /\ get_primary_for_view(msg.v) = msg.i
                    /\ Len(msg.p) >= 2 * max_failures + 1
                 THEN apply_new_view(@, msg)
                 ELSE @]
    /\ UNCHANGED <<orMsgs, commitMsgs, fillHoleMsgs, ihtpMsgs, viewChangeMsgs>>

\* Zeno is dropped: the network goes down, then the waiting threads end.
halt(q) ==
    /\ Up(q) /\ q \in Stoppable
    /\ zs' = [zs EXCEPT ![q] = Halted(@)]
    /\ UNCHANGED <<orMsgs, commitMsgs, fillHoleMsgs, ihtpMsgs, viewChangeMsgs,
                   newViewMsgs>>

-----------------------------------------------------------------------------
on_request_message(q, m, k) ==
    \/ AnswerFromCache(q, m, k)
    \/ ExecuteQueued(q, m, k)
    \/ OrderRequest(q, m, k)
    \/ AwaitOr(q, m, k)

ThreadStep(q, m, k) ==
    \/ ExecuteReceived(q, m, k)
    \/ StoreCertificate(q, m, k)
    \/ CacheReply(q, m, k)

\* What server q may do.
Step(q) ==
    \/ \E m \in Request, k \in Copy :
           on_request_message(q, m, k) \/ ThreadStep(q, m, k)
    \/ \E or \in orMsgs[q] : on_ordered_request(q, or)
    \/ \E cm \in commitMsgs[q] : on_commit(q, cm)
    \/ \E fhm \in fillHoleMsgs[q] : on_fillhole(q, fhm)
    \/ TimerExpires(q)
    \/ \E view \in zs[q].firing : AccusePrimary(q, view)
    \/ \E msg \in ihtpMsgs[q] : on_ihatetheprimary(q, msg)
    \/ \E msg \in viewChangeMsgs[q] : on_viewchange(q, msg)
    \/ \E msg \in newViewMsgs[q] : on_newview(q, msg)
    \/ halt(q)

Next == \E q \in Live : Step(q)

Spec == Init /\ [][Next]_vars

(***************************************************************************)
(* A running server that has something to do does something: every         *)
(* connection, handler call and timer has a thread of its own that the     *)
(* operating system schedules, and the mutex is only held for a bounded    *)
(* time.  This is weaker than fairness of every thread; as every server    *)
(* has a bounded number of steps to take, it still makes it take them all. *)
(* That a message in flight is something to do is an assumption: it holds  *)
(* while the connections between the running servers stay up.              *)
(***************************************************************************)
Fairness == \A q \in Live : WF_vars(Step(q))

FairSpec == Spec /\ Fairness
=============================================================================
