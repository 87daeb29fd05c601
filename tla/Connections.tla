----------------------------- MODULE Connections ------------------------------
(***************************************************************************)
(* The connections a Network keeps to its peers (src/src/tcp.rs): the map  *)
(* peer_send_clients behind its mutex, a TCPClient behind a mutex of its   *)
(* own for every peer, the I/O threads that send_to_all and                *)
(* send_to_all_and_recv start, one per peer, and the thread that opens     *)
(* dead connections again.  Who starts the I/O threads, and what the peers *)
(* do, is in the modules that extend this one.                             *)
(***************************************************************************)
EXTENDS Integers, Sequences, FiniteSets

CONSTANTS
    Peer,       \* the keys of the map
    Order,      \* the order in which the hash map is iterated
    Listening,  \* the peers that accept connections
    Late,       \* those that do not yet when the Network is made
    Job,        \* names of the I/O threads
    Slot,       \* bound: names for the TCPClients of a peer in use at a time
    Capacity,   \* messages that fit in a connection until its peer reads
    Receives,   \* the threads wait for a response (send_to_all_and_recv)
    MaxBreaks,  \* bound: connections that break
    Nothing     \* no thread; no result

Retrying == "retry_dead_connections"

ASSUME ConnectionsAssumption ==
    /\ Order \in Seq(Peer) /\ {Order[i] : i \in DOMAIN Order} = Peer
    /\ Late \subseteq Listening /\ Listening \subseteq Peer
    /\ Slot # {} /\ Capacity \in Nat \ {0} /\ MaxBreaks \in Nat
    /\ Receives \in BOOLEAN
    /\ Nothing \notin Job

VARIABLES
    psc,        \* who holds the mutex of the map across a step
    current,    \* current[p]: the TCPClient the map has for p
    tcp,        \* tcp[p][s]: the TCPClients, those taken off the map included
    job,        \* the I/O threads
    retry,      \* the thread of retry_dead_connections
    breaks      \* how many connections broke

connections == <<psc, current, tcp, job, retry, breaks>>

(***************************************************************************)
(* owner holds the TCPClient's mutex; stream: the Option is Some; up: the  *)
(* TCP connection behind it works; out and in: what was sent and not yet   *)
(* read by the peer and by us.                                             *)
(***************************************************************************)
NewTCPClient(connected) ==
    [owner |-> Nothing, stream |-> connected, up |-> connected,
     out |-> <<>>, in |-> <<>>]

\* A thread of its own per peer and operation; result is what it puts on tx.
Idle == [pc |-> "idle", peer |-> Nothing, slot |-> Nothing, msg |-> Nothing,
         result |-> Nothing]

\* The thread holds a reference to the TCPClient that the map has now.
Spawned(p, msg) == [pc |-> "lock", peer |-> p, slot |-> current[p],
                    msg |-> msg, result |-> Nothing]

Err == <<>>
Ok(value) == <<value>>

ConnectionsInit ==
    /\ psc = Nothing
    /\ current = [p \in Peer |-> CHOOSE s \in Slot : TRUE]
    /\ tcp = [p \in Peer |-> [s \in Slot |->
                 NewTCPClient(s = current[p] /\ p \in Listening \ Late)]]
    /\ job = [j \in Job |-> Idle]
    /\ retry = [pc |-> "sleep", i |-> 1, dead |-> {}]
    /\ breaks = 0

-----------------------------------------------------------------------------
(* The I/O threads                                                         *)

TcpClient(j) == tcp[job[j].peer][job[j].slot]

IsLocked(j) == TcpClient(j).owner # Nothing

\* stream = None drops the stream, which closes the connection; the peer may
\* still read what was sent.
Closed(c) == [c EXCEPT !.owner = Nothing, !.stream = FALSE, !.up = FALSE, !.in = <<>>]

\* The thread ends: it gives its result and lets the TCPClient go as c.
Ends(j, c, result) ==
    /\ tcp' = [tcp EXCEPT ![job[j].peer][job[j].slot] = [c EXCEPT !.owner = Nothing]]
    /\ job' = [job EXCEPT ![j] = [Idle EXCEPT !.pc = "done", !.result = result]]

\* Variant with a bug: the mutex is only held while the message is written.
Transmitted_Unlocked(j, c) ==
    IF Receives
    THEN /\ tcp' = [tcp EXCEPT ![job[j].peer][job[j].slot] =
                        [c EXCEPT !.owner = Nothing, !.out = Append(@, job[j].msg)]]
         /\ job' = [job EXCEPT ![j].pc = "recv"]
    ELSE Ends(j, [c EXCEPT !.out = Append(@, job[j].msg)], Ok(Nothing))

\* The message is written: the thread keeps the mutex for the response.
Transmitted(j, c) ==
    IF Receives
    THEN /\ tcp' = [tcp EXCEPT ![job[j].peer][job[j].slot] =
                        [c EXCEPT !.owner = j, !.out = Append(@, job[j].msg)]]
         /\ job' = [job EXCEPT ![j].pc = "recv"]
    ELSE Ends(j, [c EXCEPT !.out = Append(@, job[j].msg)], Ok(Nothing))

\* The thread gets the mutex and writes, or starts to when the peer is slow.
Send(j) ==
    /\ job[j].pc = "lock" /\ ~IsLocked(j)
    /\ LET c == TcpClient(j)
       IN  \/ c.stream /\ Len(c.out) < Capacity /\ Transmitted(j, c)
           \/ ~(c.stream /\ c.up) /\ Ends(j, Closed(c), Err)
           \/ /\ c.stream /\ c.up /\ Len(c.out) >= Capacity
              /\ tcp' = [tcp EXCEPT ![job[j].peer][job[j].slot].owner = j]
              /\ job' = [job EXCEPT ![j].pc = "write"]
    /\ UNCHANGED <<psc, current, retry, breaks>>

\* The peer has read on, and the rest of the message fits.
FinishWrite(j) ==
    /\ job[j].pc = "write"
    /\ TcpClient(j).up /\ Len(TcpClient(j).out) < Capacity
    /\ Transmitted(j, TcpClient(j))
    /\ UNCHANGED <<psc, current, retry, breaks>>

\* Variant with a bug: after its timeout a write is tried again, as a read is.
WriteFails_Again(j) ==
    /\ job[j].pc = "write"
    /\ IF TcpClient(j).up THEN UNCHANGED <<tcp, job>>
       ELSE Ends(j, Closed(TcpClient(j)), Err)
    /\ UNCHANGED <<psc, current, retry, breaks>>

\* The write timeout runs out, or the connection is broken.
WriteFails(j) ==
    /\ job[j].pc = "write"
    /\ Ends(j, Closed(TcpClient(j)), Err)
    /\ UNCHANGED <<psc, current, retry, breaks>>

\* Variant with a bug: a failed read leaves the stream in place.
ReceiveFails_Kept(j) ==
    /\ job[j].pc = "recv"
    /\ TcpClient(j).in = <<>> /\ ~TcpClient(j).up
    /\ Ends(j, TcpClient(j), Err)
    /\ UNCHANGED <<psc, current, retry, breaks>>

\* The peer closed the connection.  A read timeout is no error: it is the
\* WouldBlock that read_string_from_socket tries again after.
ReceiveFails(j) ==
    /\ job[j].pc = "recv"
    /\ TcpClient(j).in = <<>> /\ ~TcpClient(j).up
    /\ Ends(j, Closed(TcpClient(j)), Err)
    /\ UNCHANGED <<psc, current, retry, breaks>>

Receive(j) ==
    /\ job[j].pc = "recv"
    /\ LET c == TcpClient(j)
       IN  /\ c.in # <<>>
           /\ Ends(j, [c EXCEPT !.in = Tail(@)], Ok(Head(c.in)))
    /\ UNCHANGED <<psc, current, retry, breaks>>

JobStep(j) == Send(j) \/ FinishWrite(j) \/ WriteFails(j) \/ ReceiveFails(j) \/ Receive(j)

-----------------------------------------------------------------------------
(* retry_dead_connections                                                  *)

WakeUp ==
    /\ retry.pc = "sleep" /\ psc = Nothing
    /\ psc' = Retrying
    /\ retry' = [pc |-> "scan", i |-> 1, dead |-> {}]
    /\ UNCHANGED <<current, tcp, job, breaks>>

IsDead(c) == ~c.stream

\* Variant with a bug: the scan does not wait and takes what is in use for dead.
Scan_TryLock ==
    /\ retry.pc = "scan" /\ retry.i <= Len(Order)
    /\ LET p == Order[retry.i]
           c == tcp[p][current[p]]
       IN  retry' = [retry EXCEPT !.i = @ + 1,
                                  !.dead = IF c.owner # Nothing \/ IsDead(c)
                                           THEN @ \cup {p} ELSE @]
    /\ UNCHANGED <<psc, current, tcp, job, breaks>>

\* The scan locks the TCPClients one by one and holds the map meanwhile.
Scan ==
    /\ retry.pc = "scan" /\ retry.i <= Len(Order)
    /\ LET p == Order[retry.i]
           c == tcp[p][current[p]]
       IN  /\ c.owner = Nothing
           /\ retry' = [retry EXCEPT !.i = @ + 1,
                                     !.dead = IF IsDead(c) THEN @ \cup {p} ELSE @]
    /\ UNCHANGED <<psc, current, tcp, job, breaks>>

EndScan ==
    /\ retry.pc = "scan" /\ retry.i > Len(Order)
    /\ psc' = Nothing
    /\ retry' = [retry EXCEPT !.pc = "extend"]
    /\ UNCHANGED <<current, tcp, job, breaks>>

\* The names no thread uses and that are not in the map.
FreeSlots(p) ==
    {s \in Slot \ {current[p]} :
        \A j \in Job : job[j].pc \notin {"idle", "done"} =>
            ~(job[j].peer = p /\ job[j].slot = s)}

FreeSlot(p) == CHOOSE s \in FreeSlots(p) : TRUE

\* try_connecting_to_everyone(retries), then conns.extend: what was dead at
\* the scan is replaced whatever became of it since.  Bound: the names suffice.
Extend ==
    /\ retry.pc = "extend" /\ psc = Nothing
    /\ \A p \in retry.dead : FreeSlots(p) # {}
    /\ current' = [p \in Peer |-> IF p \in retry.dead THEN FreeSlot(p) ELSE current[p]]
    /\ tcp' = [p \in Peer |->
                  IF p \in retry.dead
                  THEN [tcp[p] EXCEPT ![FreeSlot(p)] = NewTCPClient(p \in Listening)]
                  ELSE tcp[p]]
    /\ retry' = [pc |-> "sleep", i |-> 1, dead |-> {}]
    /\ UNCHANGED <<psc, job, breaks>>

RetryStep == WakeUp \/ Scan \/ EndScan \/ Extend

-----------------------------------------------------------------------------
(* The peers                                                               *)

\* A connection breaks, with or without the responses under way.
Break(p, s) ==
    /\ breaks < MaxBreaks
    /\ tcp[p][s].up
    /\ breaks' = breaks + 1
    /\ \E in \in {tcp[p][s].in, <<>>} :
           tcp' = [tcp EXCEPT ![p][s].up = FALSE, ![p][s].in = in]
    /\ UNCHANGED <<psc, current, job, retry>>

\* handle_reader at the peer reads the next message and writes response,
\* which is lost if nobody is connected any more.
Reads(p, s, response) ==
    /\ tcp[p][s].out # <<>>
    /\ tcp' = [tcp EXCEPT ![p][s].out = Tail(@),
                          ![p][s].in = IF tcp[p][s].up THEN @ \o response ELSE @]
    /\ UNCHANGED <<psc, current, job, retry, breaks>>

-----------------------------------------------------------------------------
\* The mutexes are used as such: a thread past the first step of its operation
\* owns its TCPClient, and the map is held across steps by the scan alone.
ConnectionsTypeOK ==
    /\ psc = IF retry.pc = "scan" THEN Retrying ELSE Nothing
    /\ current \in [Peer -> Slot]
    /\ retry.dead \subseteq Peer
    /\ breaks \in 0 .. MaxBreaks
    /\ \A p \in Peer, s \in Slot : tcp[p][s].owner # Nothing =>
           /\ job[tcp[p][s].owner].pc \in {"write", "recv"}
           /\ TcpClient(tcp[p][s].owner) = tcp[p][s]
    /\ \A j \in Job : job[j].pc \in {"write", "recv"} => TcpClient(j).owner = j

\* A connection opened anew replaces one that is dead, never one that works or
\* that a thread waits on for its response: between the scan and the end of
\* connecting (retry_dead_connections 201-207) nobody revives or uses it.
ReplacesOnlyDead ==
    [][\A p \in Peer : current'[p] # current[p] =>
           /\ ~tcp[p][current[p]].stream
           /\ \A j \in Job : job[j].pc \in {"write", "recv"} /\ job[j].peer = p
                                 => job[j].slot # current[p]]_connections
=============================================================================
