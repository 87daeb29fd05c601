------------------------------ MODULE ZenoClient ------------------------------
(***************************************************************************)
(* A client (src/src/zeno_client.rs) and its connections to the servers.   *)
(* It issues its requests one after the other, sends each to all servers,  *)
(* in rounds, until enough servers of one round answer with equal data.    *)
(*                                                                         *)
(* The servers are external here: a correct one answers a request with the *)
(* data the request must have, which is represented by its number.         *)
(***************************************************************************)
EXTENDS Connections

CONSTANTS
    max_failures,   \* the number f of faulty servers the client tolerates
    MaxRequests,    \* bound: requests the application makes
    Strong,         \* the numbers of those that are strong
    Faulty,         \* servers that answer anything, also unasked
    Silent          \* servers that accept a connection and never answer

Seqno == 0 .. MaxRequests - 1

\* What the application's answers and a faulty server's may be.
Data == Seqno

ASSUME ClientAssumption ==
    /\ max_failures \in Nat /\ MaxRequests \in Nat /\ Strong \subseteq Seqno
    /\ Faulty \subseteq Peer /\ Silent \subseteq Peer \ Faulty
    /\ Job = Seqno \X Peer
    /\ Receives
    /\ \A data \in Data : Nothing # Ok(data)

VARIABLES
    seqno,      \* the request the client is at
    pc,         \* "send": to start a round; "collect": the loop over responses
    returned    \* what request() returned, for every request

vars == <<connections, seqno, pc, returned>>

Init ==
    /\ ConnectionsInit
    /\ seqno = 0
    /\ pc = "send"
    /\ returned = <<>>

-----------------------------------------------------------------------------
\* send_to_all_and_recv: a thread per server, each with the TCPClient of now.
StartRound ==
    /\ pc = "send" /\ seqno \in Seqno
    /\ psc = Nothing
    /\ job' = [j \in Job |-> IF j[1] = seqno THEN Spawned(j[2], seqno) ELSE job[j]]
    /\ pc' = "collect"
    /\ UNCHANGED <<psc, current, tcp, retry, breaks, seqno, returned>>

\* The servers whose response of this round is data.
Answers(data) == {p \in Peer : job[<<seqno, p>>].result = Ok(data)}

\* Variant with a bug: as many as may be faulty are enough.
IsQuorum_F(n) == n >= (IF seqno \in Strong THEN 2 * max_failures + 1 ELSE max_failures)

IsQuorum(n) == n > (IF seqno \in Strong THEN 2 * max_failures ELSE max_failures)

Accepts(data) == IsQuorum(Cardinality(Answers(data)))

\* request() returns as soon as enough responses are equal.  Threads that are
\* still at work stay behind; nobody receives what they send.
Return ==
    /\ pc = "collect"
    /\ \E data \in Data :
        /\ Accepts(data)
        /\ returned' = Append(returned, data)
    /\ seqno' = seqno + 1
    /\ pc' = "send"
    /\ UNCHANGED connections

\* Every thread of the round has ended and there is no quorum.
NextRound ==
    /\ pc = "collect"
    /\ \A p \in Peer : job[<<seqno, p>>].pc = "done"
    /\ ~\E data \in Data : Accepts(data)
    /\ pc' = "send"
    /\ UNCHANGED <<connections, seqno, returned>>

\* A correct server answers the request it reads.
Answer(p, s) ==
    /\ p \notin Faulty \cup Silent
    /\ tcp[p][s].out # <<>>
    /\ Reads(p, s, <<Head(tcp[p][s].out)>>)
    /\ UNCHANGED <<seqno, pc, returned>>

\* A faulty server sends any data, or what is no response to a client.
FaultyAnswer(p, s) ==
    /\ p \in Faulty
    /\ tcp[p][s].up /\ Len(tcp[p][s].in) < Capacity
    /\ \E data \in Data \cup {Nothing} :
           tcp' = [tcp EXCEPT ![p][s].in = Append(@, data)]
    /\ UNCHANGED <<psc, current, job, retry, breaks, seqno, pc, returned>>

IO(j) == JobStep(j) /\ UNCHANGED <<seqno, pc, returned>>

Reconnecting == RetryStep /\ UNCHANGED <<seqno, pc, returned>>

Next ==
    \/ StartRound \/ Return \/ NextRound
    \/ Reconnecting
    \/ \E j \in Job : IO(j)
    \/ \E p \in Peer, s \in Slot :
        \/ Answer(p, s)
        \/ FaultyAnswer(p, s)
        \/ Break(p, s) /\ UNCHANGED <<seqno, pc, returned>>

Spec == Init /\ [][Next]_vars

(***************************************************************************)
(* Every thread is scheduled.  A mutex is given to each thread that waits  *)
(* for it in the end: the threads that contend for one are few, and the    *)
(* retry thread sleeps for a second between two scans.  A correct server   *)
(* that is not silent answers what it read.                                *)
(***************************************************************************)
Fairness ==
    /\ SF_vars(StartRound)
    /\ WF_vars(Return)
    /\ WF_vars(NextRound)
    /\ SF_vars(Reconnecting)
    /\ \A j \in Job : SF_vars(IO(j))
    /\ \A p \in Peer, s \in Slot : WF_vars(Answer(p, s))

FairSpec == Spec /\ Fairness

-----------------------------------------------------------------------------
\* The data a request returns is that of the request, although up to f
\* servers answer anything at any time, connections break and responses to
\* an earlier round or request are still under way (Client::request 55-72).
ResultsCorrect == \A i \in DOMAIN returned : returned[i] = i - 1

\* A response is counted for the request it answers: what a thread reads from
\* a correct server is the answer to what this thread wrote, also when threads
\* of an earlier request still wait on the same connection (384-398).
OwnResponse ==
    \A r \in Seqno, p \in Peer \ Faulty :
        job[<<r, p>>].pc = "done" => job[<<r, p>>].result \in {Ok(r), Err}

\* Every request returns, whatever connections break and servers are down.
EveryRequestReturns == <>(Len(returned) = MaxRequests)
=============================================================================
