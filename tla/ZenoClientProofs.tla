--------------------------- MODULE ZenoClientProofs ----------------------------
(***************************************************************************)
(* Proofs about ZenoClient, for any servers, faulty ones among them, any   *)
(* f, and any sequence of weak and strong requests.                        *)
(***************************************************************************)
EXTENDS ZenoClient, ConnectionsProofs, FiniteSetTheorems

Val == Data \cup {Nothing}

Inv == ConnectionsInv(Seqno, Val)

\* A thread of request r to server p is job[<<r, p>>]; those of the requests
\* to come are not started, nor those of the round to come.
Rounds ==
    /\ seqno \in 0 .. MaxRequests
    /\ pc \in {"send", "collect"}
    /\ pc = "collect" => seqno \in Seqno
    /\ \A j \in Job : Active(j) =>
           /\ job[j].peer = j[2] /\ job[j].msg = j[1]
           /\ j[1] <= seqno
           /\ pc = "send" => j[1] < seqno

(***************************************************************************)
(* On a connection to a correct server, which answers what it reads, there *)
(* is nothing under way unless a thread owns it, and then that thread's    *)
(* request or the answer to it, or neither if the connection broke.        *)
(***************************************************************************)
OneExchange(c, m) ==
    IF c.owner = Nothing
    THEN c.in = <<>> /\ (c.stream => c.out = <<>>)
    ELSE \/ c.in = <<>> /\ c.out = <<m>>
         \/ c.in = <<m>> /\ c.out = <<>>
         \/ c.in = <<>> /\ c.out = <<>> /\ ~c.up

Exchanges ==
    \A p \in Peer \ Faulty, s \in Slot :
        /\ OneExchange(tcp[p][s], job[tcp[p][s].owner].msg)
        /\ tcp[p][s].owner # Nothing => job[tcp[p][s].owner].pc = "recv"

\* What the threads have as results from correct servers.
OwnResults ==
    \A r \in Seqno, p \in Peer \ Faulty :
        /\ job[<<r, p>>].result \in {Nothing, Ok(r), Err}
        /\ job[<<r, p>>].pc = "done" => job[<<r, p>>].result \in {Ok(r), Err}

IInv == Inv /\ Rounds /\ Exchanges /\ OwnResults

LEMMA Initial == Init => IInv
<1> SUFFICES ASSUME Init PROVE IInv
  OBVIOUS
<1>1. Inv
  BY ConnectionsInitially DEF Init, Inv
<1>2. \A j \in Job : job[j] = Idle /\ ~Active(j)
  BY DEF Init, ConnectionsInit, Active, Idle
<1>3. Rounds
  BY <1>2, ClientAssumption DEF Init, Rounds
<1>4. \A p \in Peer, s \in Slot :
          tcp[p][s].owner = Nothing /\ tcp[p][s].in = <<>> /\ tcp[p][s].out = <<>>
  BY DEF Init, ConnectionsInit, NewTCPClient
<1>5. Exchanges
  BY <1>4 DEF Exchanges, OneExchange
<1>6. OwnResults
  <2>1. \A r \in Seqno, p \in Peer \ Faulty : job[<<r, p>>] = Idle
    BY <1>2, ClientAssumption
  <2>2. Idle.result = Nothing /\ Idle.pc = "idle"
    BY DEF Idle
  <2> QED
    BY <2>1, <2>2 DEF OwnResults
<1> QED
  BY <1>1, <1>3, <1>5, <1>6 DEF IInv

-----------------------------------------------------------------------------
(* The threads                                                             *)

LEMMA StartRoundStep == IInv /\ StartRound => IInv'
<1> SUFFICES ASSUME IInv, StartRound PROVE IInv'
  OBVIOUS
<1>1. /\ pc = "send" /\ seqno \in Seqno /\ pc' = "collect"
      /\ UNCHANGED <<psc, current, tcp, retry, breaks, seqno, returned>>
      /\ job' = [j \in Job |-> IF j[1] = seqno THEN Spawned(j[2], seqno) ELSE job[j]]
      /\ Job = Seqno \X Peer
  BY ClientAssumption DEF StartRound
<1>2. /\ job \in [Job -> JobType(Seqno, Val)]
      /\ current \in [Peer -> Slot]
  BY DEF IInv, Inv, ConnectionsInv
<1>3. \A p \in Peer :
          /\ Spawned(p, seqno) \in JobType(Seqno, Val)
          /\ Spawned(p, seqno).pc = "lock" /\ Spawned(p, seqno).peer = p
          /\ Spawned(p, seqno).slot = current[p] /\ Spawned(p, seqno).msg = seqno
          /\ Spawned(p, seqno).result = Nothing
  BY <1>1, <1>2 DEF Spawned, JobType
<1>4. ASSUME NEW j \in Job
      PROVE  /\ job'[j] \in JobType(Seqno, Val)
             /\ \/ job'[j] = job[j]
                \/ /\ j[1] = seqno /\ j[2] \in Peer /\ ~Active(j)
                   /\ job'[j] = Spawned(j[2], seqno)
  <2>1. j[2] \in Peer /\ j[1] \in Seqno
    BY <1>1
  <2>2. job'[j] = IF j[1] = seqno THEN Spawned(j[2], seqno) ELSE job[j]
    BY <1>1
  <2>3. j[1] = seqno => ~Active(j)
    BY <1>1 DEF IInv, Rounds
  <2> QED
    BY <1>2, <1>3, <2>1, <2>2, <2>3
<1>5. job' \in [Job -> JobType(Seqno, Val)]
  BY <1>1, <1>4
<1>6. \A j \in Job : \/ job'[j] = job[j]
                     \/ /\ ~Active(j)
                        /\ job'[j].pc = "lock"
                        /\ job'[j].peer \in Peer /\ job'[j].slot \in Slot
                        /\ job'[j].msg \in Seqno
  BY <1>1, <1>2, <1>3, <1>4
<1>7. Inv'
  BY <1>1, <1>5, <1>6, SpawnKeeps DEF IInv, Inv
<1>8. Rounds'
  <2>1. ASSUME NEW j \in Job, Active(j)'
        PROVE  job'[j].peer = j[2] /\ job'[j].msg = j[1] /\ j[1] <= seqno
    <3>1. CASE job'[j] = job[j]
      BY <2>1, <3>1 DEF IInv, Rounds, Active
    <3>2. CASE job'[j] # job[j]
      BY <1>1, <1>3, <1>4, <3>2 DEF IInv, Rounds
    <3> QED
      BY <3>1, <3>2
  <2> QED
    BY <1>1, <2>1 DEF IInv, Rounds
<1>9. Exchanges'
  <2>1. ASSUME NEW p \in Peer \ Faulty, NEW s \in Slot
        PROVE  tcp[p][s].owner # Nothing =>
                   job'[tcp[p][s].owner] = job[tcp[p][s].owner]
    <3>1. tcp[p][s].owner # Nothing =>
              tcp[p][s].owner \in Job /\ Active(tcp[p][s].owner)
      BY DEF IInv, Inv, ConnectionsInv, OwnersMatch, OwnsClient, Active, ClientType
    <3> QED
      BY <1>4, <3>1
  <2>2. ASSUME NEW p \in Peer \ Faulty, NEW s \in Slot
        PROVE  /\ OneExchange(tcp[p][s], job'[tcp[p][s].owner].msg)
               /\ tcp[p][s].owner # Nothing => job'[tcp[p][s].owner].pc = "recv"
    <3>1. CASE tcp[p][s].owner = Nothing
      BY <3>1 DEF IInv, Exchanges, OneExchange
    <3>2. CASE tcp[p][s].owner # Nothing
      BY <2>1, <3>2 DEF IInv, Exchanges
    <3> QED
      BY <3>1, <3>2
  <2> QED
    BY <1>1, <2>2 DEF Exchanges
<1>10. OwnResults'
  <2>1. ASSUME NEW r \in Seqno, NEW p \in Peer \ Faulty
        PROVE  /\ job'[<<r, p>>].result \in {Nothing, Ok(r), Err}
               /\ job'[<<r, p>>].pc = "done" => job'[<<r, p>>].result \in {Ok(r), Err}
    <3>1. <<r, p>> \in Job
      BY <1>1
    <3> QED
      BY <1>3, <1>4, <3>1 DEF IInv, OwnResults
  <2> QED
    BY <2>1 DEF OwnResults
<1> QED
  BY <1>7, <1>8, <1>9, <1>10 DEF IInv

\* A thread's step keeps what is said of its own connection and result, which
\* is a server's that may be faulty or not, and the rest is not touched.
LEMMA BecomesStep ==
    ASSUME IInv, NEW j \in Job, Active(j), Inv',
           NEW c \in ClientType(Seqno, Val), NEW r, Becomes(j, c, r),
           UNCHANGED <<seqno, pc>>,
           TcpClient(j).owner \in {j, Nothing},
           Active(j)' => r.peer = job[j].peer /\ r.msg = job[j].msg,
           job[j].peer \notin Faulty =>
               /\ OneExchange(c, job[j].msg)
               /\ c.owner = IF r.pc = "done" THEN Nothing ELSE j
               /\ r.pc \in {"recv", "done"}
               /\ r.pc = "done" => r.result \in {Ok(job[j].msg), Err}
               /\ r.pc = "recv" => r.result = job[j].result /\ r.msg = job[j].msg
    PROVE  IInv'
<1> USE ConnectionsAssumption
<1> DEFINE p == job[j].peer
           s == job[j].slot
<1>1. /\ p \in Peer /\ s \in Slot
      /\ p = j[2] /\ job[j].msg = j[1] /\ j = <<j[1], j[2]>> /\ j[1] \in Seqno
      /\ j[1] <= seqno /\ (pc = "send" => j[1] < seqno)
      /\ tcp \in [Peer -> [Slot -> ClientType(Seqno, Val)]]
      /\ job \in [Job -> JobType(Seqno, Val)]
  BY ClientAssumption DEF IInv, Inv, ConnectionsInv, Rounds
<1>2. /\ \A q \in Peer, u \in Slot :
             tcp'[q][u] = IF q = p /\ u = s THEN c ELSE tcp[q][u]
      /\ job'[j] = r
      /\ \A i \in Job \ {j} : job'[i] = job[i]
  BY <1>1 DEF Becomes
<1>3. Rounds'
  <2>1. ASSUME NEW i \in Job, Active(i)'
        PROVE  /\ job'[i].peer = i[2] /\ job'[i].msg = i[1]
               /\ i[1] <= seqno
               /\ pc = "send" => i[1] < seqno
    <3>1. CASE i = j
      BY <1>1, <1>2, <2>1, <3>1
    <3>2. CASE i # j
      BY <1>2, <2>1, <3>2 DEF IInv, Rounds, Active
    <3> QED
      BY <3>1, <3>2
  <2> QED
    BY <2>1 DEF IInv, Rounds
<1>4. Exchanges'
  <2>1. ASSUME NEW q \in Peer \ Faulty, NEW u \in Slot
        PROVE  /\ OneExchange(tcp'[q][u], job'[tcp'[q][u].owner].msg)
               /\ tcp'[q][u].owner # Nothing => job'[tcp'[q][u].owner].pc = "recv"
    <3>1. CASE q = p /\ u = s
      <4>1. tcp'[q][u] = c
        BY <1>2, <3>1
      <4>2. CASE c.owner = Nothing
        BY <3>1, <4>1, <4>2 DEF OneExchange
      <4>3. CASE c.owner # Nothing
        <5>1. c.owner = j /\ job'[j].pc = "recv" /\ job'[j].msg = job[j].msg
          BY <1>2, <3>1, <4>3
        <5> QED
          BY <3>1, <4>1, <5>1
      <4> QED
        BY <4>2, <4>3
    <3>2. CASE ~(q = p /\ u = s)
      <4>1. tcp'[q][u] = tcp[q][u]
        BY <1>2, <3>2
      <4>2. tcp[q][u].owner # Nothing => tcp[q][u].owner \in Job \ {j}
        <5>1. tcp[q][u] \in ClientType(Seqno, Val)
          BY <1>1
        <5>2. tcp[q][u].owner # Nothing => /\ job[tcp[q][u].owner].peer = q
                                           /\ job[tcp[q][u].owner].slot = u
          BY DEF IInv, Inv, ConnectionsInv, OwnersMatch
        <5> QED
          BY <3>2, <5>1, <5>2 DEF ClientType
      <4>3. tcp[q][u].owner # Nothing => job'[tcp[q][u].owner] = job[tcp[q][u].owner]
        BY <1>2, <4>2
      <4> QED
        BY <4>1, <4>3 DEF IInv, Exchanges, OneExchange
    <3> QED
      BY <3>1, <3>2
  <2> QED
    BY <2>1 DEF Exchanges
<1>5. OwnResults'
  <2>1. ASSUME NEW n \in Seqno, NEW q \in Peer \ Faulty
        PROVE  /\ job'[<<n, q>>].result \in {Nothing, Ok(n), Err}
               /\ job'[<<n, q>>].pc = "done" => job'[<<n, q>>].result \in {Ok(n), Err}
    <3>1. CASE <<n, q>> = j
      <4>1. n = j[1] /\ q = p
        BY <1>1, <3>1
      <4>2. job[j].result \in {Nothing, Ok(n), Err}
        BY <3>1 DEF IInv, OwnResults
      <4> QED
        BY <1>1, <1>2, <3>1, <4>1, <4>2
    <3>2. CASE <<n, q>> # j
      <4>1. <<n, q>> \in Job
        BY ClientAssumption
      <4> QED
        BY <1>2, <3>2, <4>1 DEF IInv, OwnResults
    <3> QED
      BY <3>1, <3>2
  <2> QED
    BY <2>1 DEF OwnResults
<1> QED
  BY <1>3, <1>4, <1>5 DEF IInv

LEMMA IOStep ==
    ASSUME IInv, NEW j \in Job, JobStep(j), UNCHANGED <<seqno, pc>>
    PROVE  IInv'
<1> USE ConnectionsAssumption
<1> DEFINE c == TcpClient(j)
           m == job[j].msg
           correct == job[j].peer \notin Faulty
<1>1. Inv'
  BY JobStepKeeps DEF IInv, Inv, Val
<1>2. /\ Active(j)
      /\ Written(j) \/ Blocks(j) \/ Fails(j) \/ Responded(j)
  BY JobStepCases DEF IInv, Inv
<1>3. /\ job[j] \in JobType(Seqno, Val) /\ c \in ClientType(Seqno, Val)
      /\ m \in Seqno
      /\ OwnsClient(j) => c.owner = j
      /\ job[j].peer \in Peer /\ job[j].slot \in Slot
      /\ c = tcp[job[j].peer][job[j].slot]
  BY <1>2 DEF IInv, Inv, ConnectionsInv, TcpClient, OwnersMatch
<1>4. correct => /\ OneExchange(c, job[c.owner].msg)
                 /\ c.owner # Nothing => job[c.owner].pc = "recv"
  BY <1>3 DEF IInv, Exchanges
<1> HIDE DEF c
<1>5. \A result : Done(result).pc = "done" /\ Done(result).result = result
  BY DEF Done, Idle
<1>6. CASE Written(j)
  <2> DEFINE d == [c EXCEPT !.owner = j, !.out = Append(@, job[j].msg)]
             r == [job[j] EXCEPT !.pc = "recv"]
  <2>1. /\ Becomes(j, d, r) /\ c.stream /\ c.owner \in {j, Nothing}
        /\ job[j].pc \in {"lock", "write"}
    BY <1>6, ClientAssumption DEF Written, c
  <2>2. Append(c.out, m) \in Seq(Seqno)
    BY <1>3, AppendProperties DEF ClientType
  <2>3. /\ d \in ClientType(Seqno, Val) /\ d.owner = j /\ d.in = c.in
        /\ d.out = Append(c.out, m)
    BY <1>3, <2>2 DEF ClientType
  <2>4. /\ r.pc = "recv" /\ r.peer = job[j].peer /\ r.msg = m
        /\ r.result = job[j].result
    BY <1>3 DEF JobType
  <2>5. correct => OneExchange(d, m)
    <3>1. correct => c.owner = Nothing
      BY <1>4, <2>1
    <3>2. correct => c.in = <<>> /\ c.out = <<>>
      BY <1>4, <2>1, <3>1 DEF OneExchange
    <3>3. c.out = <<>> => d.out = <<m>>
      BY <2>3
    <3> QED
      BY <2>3, <3>2, <3>3 DEF OneExchange
  <2> HIDE DEF d, r, m
  <2>6. m = job[j].msg
    BY DEF m
  <2> QED
    BY <1>1, <1>2, <2>1, <2>3, <2>4, <2>5, <2>6, BecomesStep DEF c
<1>7. CASE Blocks(j)
  <2> DEFINE d == [c EXCEPT !.owner = j]
             r == [job[j] EXCEPT !.pc = "write"]
  <2>1. /\ Becomes(j, d, r) /\ c.stream /\ c.owner = Nothing
        /\ Len(c.out) >= Capacity
    BY <1>7 DEF Blocks, c
  <2>2. ~correct
    <3>1. correct => c.out = <<>>
      BY <1>4, <2>1 DEF OneExchange
    <3>2. c.out = <<>> => Len(c.out) = 0
      BY EmptySeq
    <3> QED
      BY <2>1, <3>1, <3>2
  <2>3. d \in ClientType(Seqno, Val)
    BY <1>3 DEF ClientType
  <2>4. r.peer = job[j].peer /\ r.msg = job[j].msg
    BY <1>3 DEF JobType
  <2> HIDE DEF d, r
  <2> QED
    BY <1>1, <1>2, <2>1, <2>2, <2>3, <2>4, BecomesStep DEF c
<1>8. CASE Fails(j)
  <2> DEFINE d == Closed(c)
  <2>1. Becomes(j, d, Done(Err)) /\ c.owner \in {j, Nothing}
    BY <1>8 DEF Fails, c
  <2>2. /\ d \in ClientType(Seqno, Val) /\ d.owner = Nothing
        /\ OneExchange(d, m)
    BY <1>3, EmptySeq DEF ClientType, Closed, OneExchange
  <2>3. ~Active(j)'
    BY <1>3, <1>5, <2>1 DEF Active, Becomes, IInv, Inv, ConnectionsInv
  <2> HIDE DEF d
  <2> QED
    BY <1>1, <1>2, <1>5, <2>1, <2>2, <2>3, BecomesStep DEF c
<1>9. CASE Responded(j)
  <2> DEFINE d == [c EXCEPT !.owner = Nothing, !.in = Tail(@)]
             result == Ok(Head(c.in))
  <2>1. Becomes(j, d, Done(result)) /\ c.in # <<>> /\ job[j].pc = "recv"
    BY <1>9 DEF Responded, c
  <2>2. c.owner = j
    BY <1>3, <2>1 DEF OwnsClient
  <2>3. Tail(c.in) \in Seq(Val)
    BY <1>3, <2>1, HeadTailProperties DEF ClientType
  <2>4. /\ d \in ClientType(Seqno, Val) /\ d.owner = Nothing
        /\ d.in = Tail(c.in) /\ d.out = c.out
    BY <1>3, <2>3 DEF ClientType
  <2>5. correct => c.in = <<m>> /\ c.out = <<>>
    BY <1>4, <2>1, <2>2 DEF OneExchange
  <2>6. c.in = <<m>> => Tail(c.in) = <<>> /\ Head(c.in) = m
    OBVIOUS
  <2>7. correct => OneExchange(d, m) /\ result = Ok(m)
    BY <2>4, <2>5, <2>6 DEF OneExchange
  <2>8. ~Active(j)'
    BY <1>3, <1>5, <2>1 DEF Active, Becomes, IInv, Inv, ConnectionsInv
  <2> HIDE DEF d, result
  <2> QED
    BY <1>1, <1>2, <1>5, <2>1, <2>2, <2>4, <2>7, <2>8, BecomesStep DEF c
<1> QED
  BY <1>2, <1>6, <1>7, <1>8, <1>9

-----------------------------------------------------------------------------
(* The retry thread, the servers and the network                           *)

\* What they do to a correct server's connection keeps OneExchange; they leave
\* the threads alone, and whom a TCPClient belongs to.
LEMMA TrafficStep ==
    ASSUME IInv, Inv', UNCHANGED <<job, seqno, pc>>,
           \A p \in Peer \ Faulty, s \in Slot :
               /\ tcp'[p][s].owner \in {tcp[p][s].owner, Nothing}
               /\ OneExchange(tcp'[p][s], job[tcp'[p][s].owner].msg)
    PROVE  IInv'
<1>1. Rounds' /\ OwnResults'
  BY DEF IInv, Rounds, OwnResults, Active
<1>2. Exchanges'
  BY DEF IInv, Exchanges
<1> QED
  BY <1>1, <1>2 DEF IInv

LEMMA ReconnectingStep == IInv /\ Reconnecting => IInv'
<1> SUFFICES ASSUME IInv, Reconnecting PROVE IInv'
  OBVIOUS
<1>1. Inv'
  BY RetryStepKeeps DEF Reconnecting, IInv, Inv
<1>2. /\ job' = job
      /\ \A p \in Peer, s \in Slot :
             \/ tcp'[p][s] = tcp[p][s]
             \/ tcp'[p][s] = NewTCPClient(p \in Listening)
  BY RetryEffect DEF Reconnecting, IInv, Inv
<1>3. \A p \in Peer : \A m :
          /\ NewTCPClient(p \in Listening).owner = Nothing
          /\ OneExchange(NewTCPClient(p \in Listening), m)
  BY DEF NewTCPClient, OneExchange
<1>4. ASSUME NEW p \in Peer \ Faulty, NEW s \in Slot
      PROVE  /\ tcp'[p][s].owner \in {tcp[p][s].owner, Nothing}
             /\ OneExchange(tcp'[p][s], job[tcp'[p][s].owner].msg)
  <2>1. CASE tcp'[p][s] = tcp[p][s]
    BY <2>1 DEF IInv, Exchanges
  <2>2. CASE tcp'[p][s] = NewTCPClient(p \in Listening)
    BY <1>3, <2>2
  <2> QED
    BY <1>2, <2>1, <2>2
<1> QED
  BY <1>1, <1>2, <1>4, TrafficStep DEF Reconnecting

\* One TCPClient changes: its peer answers, or its connection breaks.
LEMMA OneClientStep ==
    ASSUME IInv, Inv', UNCHANGED <<job, seqno, pc>>,
           NEW p \in Peer, NEW s \in Slot, NEW c \in ClientType(Seqno, Val),
           tcp' = [tcp EXCEPT ![p][s] = c],
           c.owner = tcp[p][s].owner,
           p \notin Faulty => OneExchange(c, job[c.owner].msg)
    PROVE  IInv'
<1>1. \A q \in Peer, u \in Slot :
          tcp'[q][u] = IF q = p /\ u = s THEN c ELSE tcp[q][u]
  BY DEF IInv, Inv, ConnectionsInv
<1>2. ASSUME NEW q \in Peer \ Faulty, NEW u \in Slot
      PROVE  /\ tcp'[q][u].owner \in {tcp[q][u].owner, Nothing}
             /\ OneExchange(tcp'[q][u], job[tcp'[q][u].owner].msg)
  <2>1. CASE q = p /\ u = s
    <3>1. tcp'[q][u] = c
      BY <1>1, <2>1
    <3> QED
      BY <2>1, <3>1
  <2>2. CASE ~(q = p /\ u = s)
    <3>1. tcp'[q][u] = tcp[q][u]
      BY <1>1, <2>2
    <3> QED
      BY <3>1 DEF IInv, Exchanges
  <2> QED
    BY <2>1, <2>2
<1> QED
  BY <1>2, TrafficStep

LEMMA BreakStep ==
    ASSUME IInv, NEW p \in Peer, NEW s \in Slot, Break(p, s), UNCHANGED <<seqno, pc>>
    PROVE  IInv'
<1>1. Inv'
  BY BreakKeeps DEF IInv, Inv
<1>2. PICK in \in {tcp[p][s].in, <<>>} :
          tcp' = [tcp EXCEPT ![p][s].up = FALSE, ![p][s].in = in]
  BY DEF Break
<1> DEFINE old == tcp[p][s]
           c == [old EXCEPT !.up = FALSE, !.in = in]
<1>3. /\ tcp \in [Peer -> [Slot -> ClientType(Seqno, Val)]]
      /\ old \in ClientType(Seqno, Val)
  BY DEF IInv, Inv, ConnectionsInv
<1>4. tcp' = [tcp EXCEPT ![p][s] = c]
  BY <1>2, <1>3 DEF ClientType
<1>5. /\ c \in ClientType(Seqno, Val)
      /\ c.owner = old.owner /\ c.stream = old.stream /\ c.out = old.out
      /\ c.in = in /\ ~c.up
  BY <1>2, <1>3, EmptySeq DEF ClientType
<1> HIDE DEF c
<1>6. p \notin Faulty => OneExchange(c, job[c.owner].msg)
  BY <1>2, <1>5 DEF IInv, Exchanges, OneExchange
<1> QED
  BY <1>1, <1>4, <1>5, <1>6, OneClientStep DEF Break

LEMMA AnswerStep ==
    ASSUME IInv, NEW p \in Peer, NEW s \in Slot, Answer(p, s)
    PROVE  IInv'
<1> DEFINE old == tcp[p][s]
           m == job[old.owner].msg
           response == <<Head(old.out)>>
           in == IF old.up THEN old.in \o response ELSE old.in
           c == [old EXCEPT !.out = Tail(@), !.in = in]
<1>1. /\ tcp \in [Peer -> [Slot -> ClientType(Seqno, Val)]]
      /\ old \in ClientType(Seqno, Val)
      /\ old.up => old.stream
      /\ p \notin Faulty
      /\ OneExchange(old, m)
      /\ old.out # <<>> /\ Reads(p, s, response)
  BY DEF IInv, Inv, ConnectionsInv, Exchanges, Answer
<1>2. Head(old.out) \in Val /\ Tail(old.out) \in Seq(Seqno)
  BY <1>1, HeadTailProperties DEF ClientType, Val, Data
<1>3. response \in Seq(Val)
  BY <1>2
<1>4. Inv'
  BY <1>1, <1>3, ReadsKeeps DEF IInv, Inv
<1>5. in \in Seq(Val)
  BY <1>1, <1>3, ConcatProperties DEF ClientType
<1>6. tcp' = [tcp EXCEPT ![p][s] = c]
  BY <1>1 DEF Reads, ClientType
<1>7. OneExchange(c, m)
  <2>1. CASE old.owner = Nothing
    <3>1. ~old.up /\ old.in = <<>> /\ ~old.stream
      BY <1>1, <2>1 DEF OneExchange
    <3>2. c.owner = Nothing /\ c.in = <<>> /\ ~c.stream
      BY <1>1, <2>1, <3>1 DEF ClientType
    <3> QED
      BY <3>2 DEF OneExchange
  <2>2. CASE old.owner # Nothing
    <3>1. old.in = <<>> /\ old.out = <<m>>
      BY <1>1, <2>2 DEF OneExchange
    <3>2. Tail(old.out) = <<>> /\ response = <<m>>
      BY <3>1
    <3>3. in = IF old.up THEN <<m>> ELSE <<>>
      <4>1. <<>> \o <<m>> = <<m>>
        OBVIOUS
      <4> QED
        BY <3>1, <3>2, <4>1
    <3>4. c.owner = old.owner /\ c.up = old.up /\ c.out = <<>> /\ c.in = in
      BY <1>1, <3>2 DEF ClientType
    <3> HIDE DEF c, in, m
    <3>5. CASE old.up
      BY <2>2, <3>3, <3>4, <3>5 DEF OneExchange
    <3>6. CASE ~old.up
      BY <2>2, <3>3, <3>4, <3>6 DEF OneExchange
    <3> QED
      BY <3>5, <3>6
  <2> QED
    BY <2>1, <2>2
<1>8. c \in ClientType(Seqno, Val) /\ c.owner = old.owner
  <2> HIDE DEF in
  <2> QED
    BY <1>1, <1>2, <1>5 DEF ClientType
<1> HIDE DEF c
<1> QED
  BY <1>4, <1>6, <1>7, <1>8, OneClientStep DEF Answer, Reads

LEMMA FaultyAnswerStep ==
    ASSUME IInv, NEW p \in Peer, NEW s \in Slot, FaultyAnswer(p, s)
    PROVE  IInv'
<1>1. PICK data \in Data \cup {Nothing} : tcp' = [tcp EXCEPT ![p][s].in = Append(@, data)]
  BY DEF FaultyAnswer
<1> DEFINE old == tcp[p][s]
           c == [old EXCEPT !.in = Append(@, data)]
<1>2. /\ tcp \in [Peer -> [Slot -> ClientType(Seqno, Val)]]
      /\ old \in ClientType(Seqno, Val)
      /\ breaks \in 0 .. MaxBreaks
  BY DEF IInv, Inv, ConnectionsInv
<1>3. tcp' = [tcp EXCEPT ![p][s] = c]
  BY <1>1, <1>2 DEF ClientType
<1>4. Append(old.in, data) \in Seq(Val)
  BY <1>1, <1>2, AppendProperties DEF ClientType, Val
<1>5. /\ c \in ClientType(Seqno, Val)
      /\ c.owner = old.owner /\ c.stream = old.stream /\ c.up = old.up
  BY <1>2, <1>4 DEF ClientType
<1> HIDE DEF c
<1>6. Inv'
  BY <1>2, <1>3, <1>5, TrafficKeeps DEF FaultyAnswer, IInv, Inv
<1> QED
  BY <1>3, <1>5, <1>6, OneClientStep DEF FaultyAnswer

LEMMA CollectStep == IInv /\ (Return \/ NextRound) => IInv'
<1> SUFFICES ASSUME IInv, Return \/ NextRound PROVE IInv'
  OBVIOUS
<1>1. UNCHANGED <<psc, current, tcp, job, retry, breaks>>
  BY DEF Return, NextRound, connections
<1>2. Inv'
  BY <1>1, UnchangedKeeps DEF IInv, Inv
<1>3. pc = "collect" /\ seqno \in Seqno /\ MaxRequests \in Nat
  BY ClientAssumption DEF Return, NextRound, IInv, Rounds
<1>4. Exchanges' /\ OwnResults'
  BY <1>1 DEF IInv, Exchanges, OwnResults
<1>5. \A j \in Job : j[1] \in Seqno /\ j[2] \in Peer /\ j = <<j[1], j[2]>>
  BY ClientAssumption
<1>6. Rounds'
  <2>1. CASE Return
    <3>1. seqno' = seqno + 1 /\ pc' = "send"
      BY <2>1 DEF Return
    <3>2. \A j \in Job : Active(j)' =>
              /\ job[j].peer = j[2] /\ job[j].msg = j[1] /\ j[1] <= seqno
      BY <1>1 DEF IInv, Rounds, Active
    <3> QED
      BY <1>1, <1>3, <1>5, <3>1, <3>2 DEF Rounds, Seqno
  <2>2. CASE NextRound
    <3>1. seqno' = seqno /\ pc' = "send"
      BY <2>2 DEF NextRound
    <3>2. ASSUME NEW j \in Job, Active(j)'
          PROVE  /\ job[j].peer = j[2] /\ job[j].msg = j[1] /\ j[1] < seqno
      <4>1. Active(j)
        BY <1>1, <3>2 DEF Active
      <4>2. job[j].peer = j[2] /\ job[j].msg = j[1] /\ j[1] <= seqno
        BY <4>1 DEF IInv, Rounds
      <4>3. j[1] # seqno
        BY <1>5, <2>2, <4>1 DEF NextRound, Active
      <4> QED
        BY <1>3, <1>5, <4>2, <4>3 DEF Seqno
    <3> QED
      BY <1>1, <1>3, <1>5, <3>1, <3>2 DEF IInv, Rounds, Seqno
  <2> QED
    BY <2>1, <2>2
<1> QED
  BY <1>2, <1>4, <1>6 DEF IInv

LEMMA Inductive == IInv /\ [Next]_vars => IInv'
<1> SUFFICES ASSUME IInv, [Next]_vars PROVE IInv'
  OBVIOUS
<1>1. CASE UNCHANGED vars
  <2>1. Inv'
    BY <1>1, UnchangedKeeps DEF vars, connections, IInv, Inv
  <2> QED
    BY <1>1, <2>1, TrafficStep DEF vars, connections, IInv, Exchanges
<1> QED
  BY <1>1, StartRoundStep, CollectStep, ReconnectingStep, IOStep, AnswerStep,
     FaultyAnswerStep, BreakStep DEF Next, IO

-----------------------------------------------------------------------------
\* The strengthened invariant holds of every behaviour.
THEOREM Invariance == Spec => []IInv
BY Initial, Inductive, PTL DEF Spec

\* The mutexes of a client's connections are used as such.
THEOREM MutexesHold == Spec => []ConnectionsTypeOK
<1>1. IInv => ConnectionsTypeOK
  BY TypeOKOfInv DEF IInv, Inv
<1> QED
  BY <1>1, Invariance, PTL

\* A thread's response from a correct server is the answer to what it wrote.
THEOREM ResponsesOwned == Spec => []OwnResponse
<1>1. IInv => OwnResponse
  BY DEF IInv, OwnResults, OwnResponse
<1> QED
  BY <1>1, Invariance, PTL

\* A client's retry thread replaces dead connections alone.
THEOREM DeadReplaced == Spec => ReplacesOnlyDead
<1>1. ASSUME IInv, [Next]_vars
      PROVE  [\A p \in Peer : current'[p] # current[p] =>
                 /\ ~tcp[p][current[p]].stream
                 /\ \A j \in Job : job[j].pc \in {"write", "recv"} /\ job[j].peer = p
                                       => job[j].slot # current[p]]_connections
  <2>1. RetryStep \/ current' = current
    BY <1>1 DEF Next, StartRound, Return, NextRound, Reconnecting, IO, JobStep, Send,
                FinishWrite, WriteFails, ReceiveFails, Receive, Answer, FaultyAnswer,
                Reads, Break, vars, connections
  <2> QED
    BY <1>1, <2>1, ReplacesDead DEF IInv, Inv
<1> QED
  BY <1>1, Invariance, PTL DEF Spec, ReplacesOnlyDead

-----------------------------------------------------------------------------
(* What request() returns                                                  *)

LEMMA FaultyIsFinite == IsFiniteSet(Faulty)
<1>1. Order \in Surjection(1 .. Len(Order), Peer)
  BY ConnectionsAssumption, LenProperties DEF Surjection
<1>2. IsFiniteSet(1 .. Len(Order))
  BY ConnectionsAssumption, LenProperties, FS_Interval
<1>3. IsFiniteSet(Peer)
  BY <1>1, <1>2, FS_Surjection
<1> QED
  BY <1>3, FS_Subset, ClientAssumption

\* As many equal answers as request() asks for include a correct server's.
LEMMA AcceptedIsOwn ==
    ASSUME Cardinality(Faulty) <= max_failures, OwnResults, seqno \in Seqno,
           NEW data \in Data, Accepts(data)
    PROVE  data = seqno
<1> SUFFICES ASSUME data # seqno PROVE FALSE
  OBVIOUS
<1>1. ASSUME NEW p \in Answers(data) PROVE p \in Faulty
  <2>1. p \in Peer /\ job[<<seqno, p>>].result = Ok(data)
    BY DEF Answers
  <2>2. Ok(data) # Nothing /\ Ok(data) # Err /\ Ok(data) # Ok(seqno)
    BY ClientAssumption DEF Ok, Err
  <2> QED
    BY <2>1, <2>2 DEF OwnResults
<1>2. /\ Cardinality(Answers(data)) <= Cardinality(Faulty)
      /\ Cardinality(Answers(data)) \in Nat /\ Cardinality(Faulty) \in Nat
  BY <1>1, FaultyIsFinite, FS_Subset, FS_CardinalityType
<1> QED
  BY <1>2, ClientAssumption DEF Accepts, IsQuorum

Returned ==
    /\ returned \in Seq(Data)
    /\ Len(returned) = seqno
    /\ ResultsCorrect

LEMMA ReturnedInductive ==
    ASSUME Cardinality(Faulty) <= max_failures, IInv, Returned, [Next]_vars
    PROVE  Returned'
<1>1. CASE Return
  <2>1. PICK data \in Data : Accepts(data) /\ returned' = Append(returned, data)
    BY <1>1 DEF Return
  <2>2. pc = "collect" /\ seqno \in Seqno /\ seqno' = seqno + 1
    BY <1>1 DEF Return, IInv, Rounds
  <2>3. data = seqno
    BY <2>1, <2>2, AcceptedIsOwn DEF IInv
  <2>4. /\ returned' \in Seq(Data) /\ Len(returned') = seqno + 1
        /\ returned'[seqno + 1] = seqno
        /\ \A i \in 1 .. seqno : returned'[i] = returned[i]
        /\ DOMAIN returned = 1 .. seqno /\ DOMAIN returned' = 1 .. seqno + 1
    BY <2>1, <2>3, AppendProperties, LenProperties DEF Returned
  <2>5. ResultsCorrect'
    BY <2>2, <2>4 DEF Returned, ResultsCorrect, Seqno
  <2> QED
    BY <2>2, <2>4, <2>5 DEF Returned
<1>2. CASE ~Return
  <2>1. UNCHANGED <<returned, seqno>>
    BY <1>2 DEF Next, StartRound, NextRound, Reconnecting, IO, Answer, FaultyAnswer, vars
  <2> QED
    BY <2>1 DEF Returned, ResultsCorrect
<1> QED
  BY <1>1, <1>2

\* If no more than f servers are faulty each request returns its own result.
THEOREM OwnResultReturned ==
    ASSUME Cardinality(Faulty) <= max_failures
    PROVE  Spec => []ResultsCorrect
<1>1. Init => Returned
  BY EmptySeq DEF Init, Returned, ResultsCorrect
<1>2. IInv /\ Returned /\ [Next]_vars => Returned'
  BY ReturnedInductive
<1>3. Returned => ResultsCorrect
  BY DEF Returned
<1> QED
  BY <1>1, <1>2, <1>3, Invariance, PTL DEF Spec
=============================================================================
