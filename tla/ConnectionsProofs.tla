--------------------------- MODULE ConnectionsProofs ---------------------------
(***************************************************************************)
(* What the steps of Connections keep, whoever starts the threads and      *)
(* whatever the peers answer: the base of the proofs about Broadcast and   *)
(* ZenoClient.  Msg is the set of messages sent, Val that of responses.    *)
(***************************************************************************)
EXTENDS Connections, SequenceTheorems, TLAPS

ClientType(Msg, Val) ==
    [owner : Job \cup {Nothing}, stream : BOOLEAN, up : BOOLEAN,
     out : Seq(Msg), in : Seq(Val)]

JobType(Msg, Val) ==
    [pc : {"idle", "lock", "write", "recv", "done"},
     peer : Peer \cup {Nothing}, slot : Slot \cup {Nothing},
     msg : Msg \cup {Nothing}, result : Seq(Val) \cup {Nothing}]

RetryType == [pc : {"sleep", "scan", "extend"}, i : Nat \ {0}, dead : SUBSET Peer]

Active(j) == job[j].pc \in {"lock", "write", "recv"}

OwnsClient(j) == job[j].pc \in {"write", "recv"}

\* The thread that owns a TCPClient is writing to it or reading from it, and
\* nobody else is.
OwnersMatch ==
    /\ \A p \in Peer, s \in Slot : tcp[p][s].owner # Nothing =>
           /\ OwnsClient(tcp[p][s].owner)
           /\ job[tcp[p][s].owner].peer = p
           /\ job[tcp[p][s].owner].slot = s
    /\ \A j \in Job : OwnsClient(j) => TcpClient(j).owner = j

\* What the scan found dead stays so, and unused, until it is replaced.
DeadStaysDead ==
    \A p \in retry.dead : /\ ~tcp[p][current[p]].stream
                          /\ tcp[p][current[p]].owner = Nothing

ConnectionsInv(Msg, Val) ==
    /\ psc = IF retry.pc = "scan" THEN Retrying ELSE Nothing
    /\ current \in [Peer -> Slot]
    /\ tcp \in [Peer -> [Slot -> ClientType(Msg, Val)]]
    /\ job \in [Job -> JobType(Msg, Val)]
    /\ retry \in RetryType
    /\ breaks \in 0 .. MaxBreaks
    /\ \A j \in Job : Active(j) =>
           /\ job[j].peer \in Peer /\ job[j].slot \in Slot /\ job[j].msg \in Msg
           /\ OwnsClient(j) => TcpClient(j).stream
    /\ \A p \in Peer, s \in Slot : tcp[p][s].up => tcp[p][s].stream
    /\ OwnersMatch
    /\ DeadStaysDead

LEMMA TypeOKOfInv ==
    ASSUME NEW Msg, NEW Val, ConnectionsInv(Msg, Val)
    PROVE  ConnectionsTypeOK
<1>1. ASSUME NEW p \in Peer, NEW s \in Slot, tcp[p][s].owner # Nothing
      PROVE  /\ job[tcp[p][s].owner].pc \in {"write", "recv"}
             /\ TcpClient(tcp[p][s].owner) = tcp[p][s]
  BY <1>1 DEF ConnectionsInv, OwnersMatch, OwnsClient, TcpClient
<1>2. ASSUME NEW j \in Job, job[j].pc \in {"write", "recv"}
      PROVE  TcpClient(j).owner = j
  BY <1>2 DEF ConnectionsInv, OwnersMatch, OwnsClient
<1>3. /\ psc = IF retry.pc = "scan" THEN Retrying ELSE Nothing
      /\ current \in [Peer -> Slot]
      /\ retry.dead \subseteq Peer
      /\ breaks \in 0 .. MaxBreaks
  BY DEF ConnectionsInv, RetryType
<1> QED
  BY <1>1, <1>2, <1>3 DEF ConnectionsTypeOK

LEMMA ConnectionsInitially ==
    ASSUME NEW Msg, NEW Val, ConnectionsInit
    PROVE  ConnectionsInv(Msg, Val)
<1> USE ConnectionsAssumption
<1> DEFINE s0 == CHOOSE s \in Slot : TRUE
<1>1. s0 \in Slot
  OBVIOUS
<1>2. current \in [Peer -> Slot]
  BY <1>1 DEF ConnectionsInit
<1>3. \A p \in Peer, s \in Slot :
          /\ tcp[p][s] = NewTCPClient(s = current[p] /\ p \in Listening \ Late)
          /\ tcp[p][s] \in ClientType(Msg, Val)
          /\ tcp[p][s].owner = Nothing
          /\ tcp[p][s].up = tcp[p][s].stream
  BY DEF ConnectionsInit, NewTCPClient, ClientType
<1>4. tcp \in [Peer -> [Slot -> ClientType(Msg, Val)]]
  BY <1>3 DEF ConnectionsInit
<1>5. /\ \A j \in Job : job[j] = Idle
      /\ job \in [Job -> JobType(Msg, Val)]
  BY DEF ConnectionsInit, Idle, JobType
<1>6. \A j \in Job : ~Active(j) /\ ~OwnsClient(j)
  BY <1>5 DEF Active, OwnsClient, Idle
<1>7. OwnersMatch /\ DeadStaysDead
  BY <1>3, <1>6 DEF OwnersMatch, DeadStaysDead, ConnectionsInit
<1>8. retry \in RetryType /\ breaks \in 0 .. MaxBreaks
  BY DEF RetryType, ConnectionsInit
<1>9. psc = IF retry.pc = "scan" THEN Retrying ELSE Nothing
  BY DEF ConnectionsInit
<1> QED
  BY <1>2, <1>3, <1>4, <1>5, <1>6, <1>7, <1>8, <1>9 DEF ConnectionsInv

-----------------------------------------------------------------------------
(***************************************************************************)
(* A step of a thread, by what becomes of its TCPClient and of itself.     *)
(***************************************************************************)
Becomes(j, c, r) ==
    /\ tcp' = [tcp EXCEPT ![job[j].peer][job[j].slot] = c]
    /\ job' = [job EXCEPT ![j] = r]
    /\ UNCHANGED <<psc, current, retry, breaks>>

Done(result) == [Idle EXCEPT !.pc = "done", !.result = result]

\* The message was written, and the response is awaited if there is one.
Written(j) ==
    /\ job[j].pc \in {"lock", "write"}
    /\ TcpClient(j).stream
    /\ TcpClient(j).owner \in {j, Nothing}
    /\ IF Receives
       THEN Becomes(j, [TcpClient(j) EXCEPT !.owner = j, !.out = Append(@, job[j].msg)],
                       [job[j] EXCEPT !.pc = "recv"])
       ELSE Becomes(j, [TcpClient(j) EXCEPT !.owner = Nothing, !.out = Append(@, job[j].msg)],
                       Done(Ok(Nothing)))

Blocks(j) ==
    /\ TcpClient(j).stream
    /\ TcpClient(j).owner = Nothing
    /\ Len(TcpClient(j).out) >= Capacity
    /\ Becomes(j, [TcpClient(j) EXCEPT !.owner = j], [job[j] EXCEPT !.pc = "write"])

Fails(j) ==
    /\ TcpClient(j).owner \in {j, Nothing}
    /\ Becomes(j, Closed(TcpClient(j)), Done(Err))

Responded(j) ==
    /\ job[j].pc = "recv"
    /\ TcpClient(j).in # <<>>
    /\ Becomes(j, [TcpClient(j) EXCEPT !.owner = Nothing, !.in = Tail(@)],
                  Done(Ok(Head(TcpClient(j).in))))

LEMMA JobStepCases ==
    ASSUME NEW Msg, NEW Val, ConnectionsInv(Msg, Val), NEW j \in Job, JobStep(j)
    PROVE  /\ Active(j)
           /\ Written(j) \/ Blocks(j) \/ Fails(j) \/ Responded(j)
<1> DEFINE p == job[j].peer
           s == job[j].slot
           c == TcpClient(j)
<1>1. Active(j)
  BY DEF JobStep, Send, FinishWrite, WriteFails, ReceiveFails, Receive, Active
<1>2. /\ p \in Peer /\ s \in Slot
      /\ c = tcp[p][s] /\ c \in ClientType(Msg, Val)
      /\ tcp \in [Peer -> [Slot -> ClientType(Msg, Val)]]
      /\ job \in [Job -> JobType(Msg, Val)]
      /\ OwnsClient(j) => c.owner = j /\ c.stream
  BY <1>1 DEF ConnectionsInv, TcpClient, OwnersMatch
<1>3. ASSUME Transmitted(j, c), c.owner \in {j, Nothing}, c.stream,
             job[j].pc \in {"lock", "write"},
             UNCHANGED <<psc, current, retry, breaks>>
      PROVE  Written(j)
  <2>1. CASE Receives
    <3>1. job' = [job EXCEPT ![j] = [job[j] EXCEPT !.pc = "recv"]]
      BY <1>2, <1>3, <2>1 DEF Transmitted, JobType
    <3> QED
      BY <1>2, <1>3, <2>1, <3>1 DEF Transmitted, Written, Becomes
  <2>2. CASE ~Receives
    <3>1. [[c EXCEPT !.out = Append(@, job[j].msg)] EXCEPT !.owner = Nothing]
              = [c EXCEPT !.owner = Nothing, !.out = Append(@, job[j].msg)]
      BY <1>2 DEF ClientType
    <3> QED
      BY <1>2, <1>3, <2>2, <3>1 DEF Transmitted, Ends, Written, Becomes, Done
  <2> QED
    BY <2>1, <2>2
<1>4. ASSUME Ends(j, Closed(c), Err), c.owner \in {j, Nothing},
             UNCHANGED <<psc, current, retry, breaks>>
      PROVE  Fails(j)
  <2>1. [Closed(c) EXCEPT !.owner = Nothing] = Closed(c)
    BY <1>2 DEF Closed, ClientType
  <2> QED
    BY <1>2, <1>4, <2>1 DEF Ends, Fails, Becomes, Done
<1>5. CASE Send(j)
  <2>1. c.owner = Nothing
    BY <1>5 DEF Send, IsLocked
  <2>2. CASE c.stream /\ c.up /\ Len(c.out) >= Capacity
             /\ tcp' = [tcp EXCEPT ![p][s].owner = j]
             /\ job' = [job EXCEPT ![j].pc = "write"]
    <3>1. tcp' = [tcp EXCEPT ![p][s] = [c EXCEPT !.owner = j]]
      BY <1>2, <2>2
    <3>2. job' = [job EXCEPT ![j] = [job[j] EXCEPT !.pc = "write"]]
      BY <1>2, <2>2
    <3>3. UNCHANGED <<psc, current, retry, breaks>>
      BY <1>5 DEF Send
    <3>4. Blocks(j)
      BY <2>1, <2>2, <3>1, <3>2, <3>3 DEF Blocks, Becomes
    <3> QED
      BY <1>1, <3>4
  <2> QED
    BY <1>1, <1>3, <1>4, <1>5, <2>1, <2>2 DEF Send
<1>6. CASE FinishWrite(j) \/ WriteFails(j) \/ ReceiveFails(j)
  BY <1>1, <1>2, <1>3, <1>4, <1>6 DEF FinishWrite, WriteFails, ReceiveFails, OwnsClient
<1>7. CASE Receive(j)
  <2>1. [[c EXCEPT !.in = Tail(@)] EXCEPT !.owner = Nothing]
            = [c EXCEPT !.owner = Nothing, !.in = Tail(@)]
    BY <1>2 DEF ClientType
  <2> QED
    BY <1>1, <1>2, <1>7, <2>1 DEF Receive, Ends, Responded, Becomes, Done
<1> QED
  BY <1>1, <1>5, <1>6, <1>7 DEF JobStep

\* What a thread's step does to the messages on their way: it adds its own, to
\* its own connection, or none.
LEMMA JobStepOut ==
    ASSUME NEW Msg, NEW Val, ConnectionsInv(Msg, Val), NEW j \in Job, JobStep(j)
    PROVE  /\ \A i \in Job \ {j} : job'[i] = job[i]
           /\ \A p \in Peer, s \in Slot :
                 \/ tcp'[p][s].out = tcp[p][s].out
                 \/ /\ p = job[j].peer /\ s = job[j].slot
                    /\ tcp'[p][s].out = Append(tcp[p][s].out, job[j].msg)
                    /\ ~Receives => job'[j].pc = "done"
           /\ Active(j)' => /\ job'[j].peer = job[j].peer
                            /\ job'[j].slot = job[j].slot
                            /\ job'[j].msg = job[j].msg
<1> DEFINE c == TcpClient(j)
           p == job[j].peer
           s == job[j].slot
<1>1. /\ Active(j)
      /\ Written(j) \/ Blocks(j) \/ Fails(j) \/ Responded(j)
  BY JobStepCases
<1>2. /\ p \in Peer /\ s \in Slot
      /\ c = tcp[p][s] /\ c \in ClientType(Msg, Val)
      /\ job[j] \in JobType(Msg, Val)
      /\ tcp \in [Peer -> [Slot -> ClientType(Msg, Val)]]
      /\ job \in [Job -> JobType(Msg, Val)]
  BY <1>1 DEF ConnectionsInv, TcpClient
<1> DEFINE Sent(d) == d.out = Append(c.out, job[j].msg)
           Same(r) == r.peer = p /\ r.slot = s /\ r.msg = job[j].msg
<1>3. ASSUME NEW d, NEW r, Becomes(j, d, r),
             d.out = c.out \/ (Sent(d) /\ (~Receives => r.pc = "done")),
             r.pc = "done" \/ Same(r)
      PROVE  /\ \A i \in Job \ {j} : job'[i] = job[i]
             /\ \A q \in Peer, u \in Slot :
                   \/ tcp'[q][u].out = tcp[q][u].out
                   \/ /\ q = p /\ u = s
                      /\ tcp'[q][u].out = Append(tcp[q][u].out, job[j].msg)
                      /\ ~Receives => job'[j].pc = "done"
             /\ Active(j)' => job'[j].peer = p /\ job'[j].slot = s /\ job'[j].msg = job[j].msg
  <2>1. /\ \A i \in Job \ {j} : job'[i] = job[i]
        /\ job'[j] = r
        /\ \A q \in Peer, u \in Slot :
               tcp'[q][u] = IF q = p /\ u = s THEN d ELSE tcp[q][u]
    BY <1>2, <1>3 DEF Becomes
  <2>2. ASSUME NEW q \in Peer, NEW u \in Slot
        PROVE  \/ tcp'[q][u].out = tcp[q][u].out
               \/ /\ q = p /\ u = s
                  /\ tcp'[q][u].out = Append(tcp[q][u].out, job[j].msg)
                  /\ ~Receives => job'[j].pc = "done"
    <3>1. CASE q = p /\ u = s
      BY <1>2, <1>3, <2>1, <3>1
    <3>2. CASE ~(q = p /\ u = s)
      BY <2>1, <3>2
    <3> QED
      BY <3>1, <3>2
  <2>3. Active(j)' => job'[j].peer = p /\ job'[j].slot = s /\ job'[j].msg = job[j].msg
    BY <1>3, <2>1 DEF Active
  <2> QED
    BY <2>1, <2>2, <2>3
<1>4. \A result : Done(result).pc = "done"
  BY DEF Done, Idle
<1>5. CASE Written(j)
  <2>1. CASE Receives
    <3> DEFINE d == [c EXCEPT !.owner = j, !.out = Append(@, job[j].msg)]
               r == [job[j] EXCEPT !.pc = "recv"]
    <3>1. Becomes(j, d, r)
      BY <1>5, <2>1 DEF Written
    <3>2. Sent(d) /\ Same(r)
      BY <1>2 DEF ClientType, JobType
    <3> HIDE DEF d, r, Sent, Same
    <3> QED
      BY <1>3, <2>1, <3>1, <3>2
  <2>2. CASE ~Receives
    <3> DEFINE d == [c EXCEPT !.owner = Nothing, !.out = Append(@, job[j].msg)]
    <3>1. Becomes(j, d, Done(Ok(Nothing)))
      BY <1>5, <2>2 DEF Written
    <3>2. Sent(d)
      BY <1>2 DEF ClientType
    <3> HIDE DEF d, Sent, Same
    <3> QED
      BY <1>3, <1>4, <3>1, <3>2
  <2> QED
    BY <2>1, <2>2
<1>6. CASE Blocks(j)
  <2> DEFINE d == [c EXCEPT !.owner = j]
             r == [job[j] EXCEPT !.pc = "write"]
  <2>1. Becomes(j, d, r)
    BY <1>6 DEF Blocks
  <2>2. d.out = c.out /\ Same(r)
    BY <1>2 DEF ClientType, JobType
  <2> HIDE DEF d, r, Sent, Same
  <2> QED
    BY <1>3, <2>1, <2>2
<1>7. CASE Fails(j)
  <2>1. Closed(c).out = c.out
    BY <1>2 DEF ClientType, Closed
  <2> HIDE DEF Sent, Same
  <2> QED
    BY <1>3, <1>4, <1>7, <2>1 DEF Fails
<1>8. CASE Responded(j)
  <2> DEFINE d == [c EXCEPT !.owner = Nothing, !.in = Tail(@)]
  <2>1. Becomes(j, d, Done(Ok(Head(c.in))))
    BY <1>8 DEF Responded
  <2>2. d.out = c.out
    BY <1>2 DEF ClientType
  <2> HIDE DEF d, Sent, Same
  <2> QED
    BY <1>3, <1>4, <2>1, <2>2
<1> QED
  BY <1>1, <1>5, <1>6, <1>7, <1>8

\* What a thread's step has to satisfy to keep ConnectionsInv.
LEMMA BecomesKeeps ==
    ASSUME NEW Msg, NEW Val, ConnectionsInv(Msg, Val),
           NEW j \in Job, Active(j), TcpClient(j).owner \in {j, Nothing},
           NEW c \in ClientType(Msg, Val), NEW r \in JobType(Msg, Val),
           Becomes(j, c, r),
           r.pc \in {"write", "recv", "done"},
           c.up => c.stream,
           c.stream => TcpClient(j).stream,
           IF r.pc = "done" THEN c.owner = Nothing
           ELSE /\ c.owner = j /\ c.stream
                /\ r.peer = job[j].peer /\ r.slot = job[j].slot /\ r.msg = job[j].msg
    PROVE  ConnectionsInv(Msg, Val)'
<1> USE ConnectionsAssumption
<1> DEFINE p == job[j].peer
           s == job[j].slot
<1>1. /\ p \in Peer /\ s \in Slot /\ job[j].msg \in Msg
      /\ tcp \in [Peer -> [Slot -> ClientType(Msg, Val)]]
      /\ job \in [Job -> JobType(Msg, Val)]
  BY DEF ConnectionsInv
<1>2. /\ tcp' \in [Peer -> [Slot -> ClientType(Msg, Val)]]
      /\ \A q \in Peer, u \in Slot :
             tcp'[q][u] = IF q = p /\ u = s THEN c ELSE tcp[q][u]
  BY <1>1 DEF Becomes
<1>3. /\ job' \in [Job -> JobType(Msg, Val)]
      /\ job'[j] = r
      /\ \A i \in Job \ {j} : job'[i] = job[i]
  BY <1>1 DEF Becomes
<1>4. UNCHANGED <<psc, current, retry, breaks>>
  BY DEF Becomes
<1>5. \A i \in Job \ {j} : OwnsClient(i) => ~(job[i].peer = p /\ job[i].slot = s)
  BY DEF ConnectionsInv, OwnersMatch, TcpClient
<1>6. ASSUME NEW i \in Job \ {j}, OwnsClient(i)
      PROVE  TcpClient(i)' = TcpClient(i)
  <2>1. job[i].peer \in Peer /\ job[i].slot \in Slot
    BY <1>6 DEF ConnectionsInv, Active, OwnsClient
  <2> QED
    BY <1>2, <1>3, <1>5, <1>6, <2>1 DEF TcpClient
<1>7. OwnsClient(j)' => TcpClient(j)' = c
  BY <1>1, <1>2, <1>3 DEF OwnsClient, TcpClient
<1>8. OwnersMatch'
  <2>1. ASSUME NEW q \in Peer, NEW u \in Slot, NEW o, o = tcp'[q][u].owner, o # Nothing
        PROVE  job'[o].pc \in {"write", "recv"} /\ job'[o].peer = q /\ job'[o].slot = u
    <3>1. CASE q = p /\ u = s
      <4>1. tcp'[q][u] = c
        BY <1>2, <3>1
      <4>2. o = j /\ r.pc # "done"
        BY <2>1, <4>1
      <4> QED
        BY <1>3, <3>1, <4>2
    <3>2. CASE ~(q = p /\ u = s)
      <4>1. o = tcp[q][u].owner /\ tcp[q][u] \in ClientType(Msg, Val)
        BY <1>1, <1>2, <2>1, <3>2
      <4>2. o \in Job
        BY <2>1, <4>1 DEF ClientType
      <4>3. job[o].pc \in {"write", "recv"} /\ job[o].peer = q /\ job[o].slot = u
        BY <2>1, <4>1 DEF ConnectionsInv, OwnersMatch, OwnsClient
      <4>4. o # j
        BY <3>2, <4>3
      <4> QED
        BY <1>3, <4>2, <4>3, <4>4
    <3> QED
      BY <3>1, <3>2
  <2>2. ASSUME NEW i \in Job, OwnsClient(i)' PROVE TcpClient(i)'.owner = i
    <3>1. CASE i = j
      BY <1>3, <1>7, <2>2, <3>1 DEF OwnsClient
    <3>2. CASE i # j
      <4>1. OwnsClient(i)
        BY <1>3, <2>2, <3>2 DEF OwnsClient
      <4> QED
        BY <1>6, <3>2, <4>1 DEF ConnectionsInv, OwnersMatch
    <3> QED
      BY <3>1, <3>2
  <2> QED
    BY <2>1, <2>2 DEF OwnersMatch, OwnsClient
<1>9. DeadStaysDead'
  <2>1. ASSUME NEW q \in retry.dead
        PROVE  ~tcp'[q][current[q]].stream /\ tcp'[q][current[q]].owner = Nothing
    <3>1. q \in Peer /\ current[q] \in Slot
      BY DEF ConnectionsInv, RetryType
    <3>2. ~tcp[q][current[q]].stream /\ tcp[q][current[q]].owner = Nothing
      BY DEF ConnectionsInv, DeadStaysDead
    <3>3. CASE q = p /\ current[q] = s
      <4>1. tcp'[q][current[q]] = c /\ TcpClient(j) = tcp[q][current[q]]
        BY <1>2, <3>1, <3>3 DEF TcpClient
      <4>2. ~c.stream
        BY <3>2, <4>1
      <4> QED
        BY <4>1, <4>2
    <3>4. CASE ~(q = p /\ current[q] = s)
      <4>1. tcp'[q][current[q]] = tcp[q][current[q]]
        BY <1>2, <3>1, <3>4
      <4> QED
        BY <3>2, <4>1
    <3> QED
      BY <3>3, <3>4
  <2> QED
    BY <1>4, <2>1 DEF DeadStaysDead
<1>10. ASSUME NEW q \in Peer, NEW u \in Slot, tcp'[q][u].up
       PROVE  tcp'[q][u].stream
  <2>1. tcp'[q][u] \in {c, tcp[q][u]}
    BY <1>2
  <2>2. tcp[q][u].up => tcp[q][u].stream
    BY DEF ConnectionsInv
  <2> QED
    BY <1>10, <2>1, <2>2
<1>11. ASSUME NEW i \in Job, Active(i)'
       PROVE  /\ job'[i].peer \in Peer /\ job'[i].slot \in Slot /\ job'[i].msg \in Msg
              /\ OwnsClient(i)' => TcpClient(i)'.stream
  <2>1. CASE i = j
    BY <1>1, <1>3, <1>7, <1>11, <2>1 DEF Active
  <2>2. CASE i # j
    <3>1. Active(i) /\ job'[i] = job[i] /\ (OwnsClient(i)' => OwnsClient(i))
      BY <1>3, <1>11, <2>2 DEF Active, OwnsClient
    <3> QED
      BY <1>6, <2>2, <3>1 DEF ConnectionsInv
  <2> QED
    BY <2>1, <2>2
<1> QED
  BY <1>2, <1>3, <1>4, <1>8, <1>9, <1>10, <1>11 DEF ConnectionsInv

\* Every step of an I/O thread keeps ConnectionsInv.
LEMMA JobStepKeeps ==
    ASSUME NEW Msg, NEW Val, Nothing \in Val, ConnectionsInv(Msg, Val),
           NEW j \in Job, JobStep(j)
    PROVE  ConnectionsInv(Msg, Val)'
<1> USE ConnectionsAssumption
<1> DEFINE c == TcpClient(j)
<1>1. /\ Active(j)
      /\ Written(j) \/ Blocks(j) \/ Fails(j) \/ Responded(j)
  BY JobStepCases
<1>2. /\ job[j] \in JobType(Msg, Val) /\ c \in ClientType(Msg, Val)
      /\ job[j].msg \in Msg
      /\ c.up => c.stream
      /\ OwnsClient(j) => c.owner = j
  BY <1>1 DEF ConnectionsInv, TcpClient, OwnersMatch
<1> HIDE DEF c
<1>3. \A result \in Seq(Val) :
          Done(result) \in JobType(Msg, Val) /\ Done(result).pc = "done"
  BY DEF Done, Idle, JobType
<1>4. Ok(Nothing) \in Seq(Val) /\ Err \in Seq(Val)
  BY EmptySeq DEF Ok, Err
<1>5. Append(c.out, job[j].msg) \in Seq(Msg)
  BY <1>2, AppendProperties DEF ClientType
<1>6. CASE Written(j)
  <2>1. CASE Receives
    <3> DEFINE d == [c EXCEPT !.owner = j, !.out = Append(@, job[j].msg)]
               r == [job[j] EXCEPT !.pc = "recv"]
    <3>1. Becomes(j, d, r) /\ c.stream /\ c.owner \in {j, Nothing}
      BY <1>6, <2>1 DEF Written, c
    <3>2. d \in ClientType(Msg, Val) /\ d.owner = j /\ d.up = c.up /\ d.stream = c.stream
      BY <1>2, <1>5 DEF ClientType
    <3>3. /\ r \in JobType(Msg, Val) /\ r.pc = "recv"
          /\ r.peer = job[j].peer /\ r.slot = job[j].slot /\ r.msg = job[j].msg
      BY <1>2 DEF JobType
    <3> HIDE DEF d, r
    <3> QED
      BY <1>1, <1>2, <3>1, <3>2, <3>3, BecomesKeeps DEF c
  <2>2. CASE ~Receives
    <3> DEFINE d == [c EXCEPT !.owner = Nothing, !.out = Append(@, job[j].msg)]
    <3>1. Becomes(j, d, Done(Ok(Nothing))) /\ c.stream /\ c.owner \in {j, Nothing}
      BY <1>6, <2>2 DEF Written, c
    <3>2. d \in ClientType(Msg, Val) /\ d.owner = Nothing /\ d.up = c.up /\ d.stream = c.stream
      BY <1>2, <1>5 DEF ClientType
    <3> HIDE DEF d
    <3> QED
      BY <1>1, <1>2, <1>3, <1>4, <3>1, <3>2, BecomesKeeps DEF c
  <2> QED
    BY <2>1, <2>2
<1>7. CASE Blocks(j)
  <2> DEFINE d == [c EXCEPT !.owner = j]
             r == [job[j] EXCEPT !.pc = "write"]
  <2>1. Becomes(j, d, r) /\ c.stream /\ c.owner = Nothing
    BY <1>7 DEF Blocks, c
  <2>2. d \in ClientType(Msg, Val) /\ d.owner = j /\ d.up = c.up /\ d.stream = c.stream
    BY <1>2 DEF ClientType
  <2>3. /\ r \in JobType(Msg, Val) /\ r.pc = "write"
        /\ r.peer = job[j].peer /\ r.slot = job[j].slot /\ r.msg = job[j].msg
    BY <1>2 DEF JobType
  <2> HIDE DEF d, r
  <2> QED
    BY <1>1, <1>2, <2>1, <2>2, <2>3, BecomesKeeps DEF c
<1>8. CASE Fails(j)
  <2> DEFINE d == Closed(c)
  <2>1. Becomes(j, d, Done(Err)) /\ c.owner \in {j, Nothing}
    BY <1>8 DEF Fails, c
  <2>2. d \in ClientType(Msg, Val) /\ d.owner = Nothing /\ ~d.up /\ ~d.stream
    BY <1>2, EmptySeq DEF ClientType, Closed
  <2> HIDE DEF d
  <2> QED
    BY <1>1, <1>2, <1>3, <1>4, <2>1, <2>2, BecomesKeeps DEF c
<1>9. CASE Responded(j)
  <2> DEFINE d == [c EXCEPT !.owner = Nothing, !.in = Tail(@)]
             result == Ok(Head(c.in))
  <2>1. Becomes(j, d, Done(result)) /\ c.in # <<>> /\ job[j].pc = "recv"
    BY <1>9 DEF Responded, c
  <2>2. Tail(c.in) \in Seq(Val) /\ Head(c.in) \in Val
    BY <1>2, <2>1, HeadTailProperties DEF ClientType
  <2>3. d \in ClientType(Msg, Val) /\ d.owner = Nothing /\ d.up = c.up /\ d.stream = c.stream
    BY <1>2, <2>2 DEF ClientType
  <2>4. result \in Seq(Val)
    BY <2>2 DEF Ok
  <2>5. c.owner = j
    BY <1>2, <2>1 DEF OwnsClient
  <2> HIDE DEF d, result
  <2> QED
    BY <1>1, <1>2, <1>3, <2>1, <2>3, <2>4, <2>5, BecomesKeeps DEF c
<1> QED
  BY <1>1, <1>6, <1>7, <1>8, <1>9

\* The owner's step apart, a TCPClient changes by what its peer and the network
\* do: messages are read, responses come, the connection breaks.
LEMMA TrafficKeeps ==
    ASSUME NEW Msg, NEW Val, ConnectionsInv(Msg, Val),
           NEW p \in Peer, NEW s \in Slot, NEW c \in ClientType(Msg, Val),
           c.owner = tcp[p][s].owner, c.stream = tcp[p][s].stream,
           c.up => tcp[p][s].up,
           tcp' = [tcp EXCEPT ![p][s] = c],
           UNCHANGED <<psc, current, job, retry>>, breaks' \in 0 .. MaxBreaks
    PROVE  ConnectionsInv(Msg, Val)'
<1>1. /\ tcp \in [Peer -> [Slot -> ClientType(Msg, Val)]]
      /\ tcp' \in [Peer -> [Slot -> ClientType(Msg, Val)]]
      /\ \A q \in Peer, u \in Slot :
             tcp'[q][u] = IF q = p /\ u = s THEN c ELSE tcp[q][u]
  BY DEF ConnectionsInv
<1>2. ASSUME NEW q \in Peer, NEW u \in Slot
      PROVE  /\ tcp'[q][u].owner = tcp[q][u].owner
             /\ tcp'[q][u].stream = tcp[q][u].stream
             /\ tcp'[q][u].up => tcp[q][u].up
  <2>1. CASE q = p /\ u = s
    BY <1>1, <2>1
  <2>2. CASE ~(q = p /\ u = s)
    <3>1. tcp'[q][u] = tcp[q][u]
      BY <1>1, <2>2
    <3> QED
      BY <3>1
  <2> QED
    BY <2>1, <2>2
<1>3. \A j \in Job : /\ Active(j)' = Active(j)
                     /\ OwnsClient(j)' = OwnsClient(j)
                     /\ OwnsClient(j) => Active(j)
  BY DEF Active, OwnsClient
<1>4. ASSUME NEW j \in Job, Active(j)
      PROVE  /\ TcpClient(j)'.owner = TcpClient(j).owner
             /\ TcpClient(j)'.stream = TcpClient(j).stream
  <2>1. job[j].peer \in Peer /\ job[j].slot \in Slot
    BY <1>4 DEF ConnectionsInv
  <2> QED
    BY <1>2, <2>1 DEF TcpClient
<1>5. OwnersMatch'
  <2>1. ASSUME NEW q \in Peer, NEW u \in Slot, tcp'[q][u].owner # Nothing
        PROVE  /\ job[tcp'[q][u].owner].pc \in {"write", "recv"}
               /\ job[tcp'[q][u].owner].peer = q
               /\ job[tcp'[q][u].owner].slot = u
    BY <1>2, <2>1 DEF ConnectionsInv, OwnersMatch, OwnsClient
  <2>2. ASSUME NEW j \in Job, OwnsClient(j) PROVE TcpClient(j)'.owner = j
    BY <1>3, <1>4, <2>2 DEF ConnectionsInv, OwnersMatch
  <2> QED
    BY <1>3, <2>1, <2>2 DEF OwnersMatch, OwnsClient
<1>6. DeadStaysDead'
  <2>1. ASSUME NEW q \in retry.dead
        PROVE  ~tcp'[q][current[q]].stream /\ tcp'[q][current[q]].owner = Nothing
    <3>1. q \in Peer /\ current[q] \in Slot
      BY DEF ConnectionsInv, RetryType
    <3> QED
      BY <1>2, <3>1 DEF ConnectionsInv, DeadStaysDead
  <2> QED
    BY <2>1 DEF DeadStaysDead
<1>7. \A q \in Peer, u \in Slot : tcp'[q][u].up => tcp'[q][u].stream
  BY <1>2 DEF ConnectionsInv
<1>8. ASSUME NEW j \in Job, Active(j)'
      PROVE  /\ job'[j].peer \in Peer /\ job'[j].slot \in Slot /\ job'[j].msg \in Msg
             /\ OwnsClient(j)' => TcpClient(j)'.stream
  BY <1>3, <1>4, <1>8 DEF ConnectionsInv
<1> QED
  BY <1>1, <1>5, <1>6, <1>7, <1>8 DEF ConnectionsInv

\* A connection breaks.
LEMMA BreakKeeps ==
    ASSUME NEW Msg, NEW Val, ConnectionsInv(Msg, Val),
           NEW p \in Peer, NEW s \in Slot, Break(p, s)
    PROVE  ConnectionsInv(Msg, Val)'
<1>1. PICK in \in {tcp[p][s].in, <<>>} :
          tcp' = [tcp EXCEPT ![p][s].up = FALSE, ![p][s].in = in]
  BY DEF Break
<1>2. /\ tcp \in [Peer -> [Slot -> ClientType(Msg, Val)]]
      /\ tcp[p][s] \in ClientType(Msg, Val)
  BY DEF ConnectionsInv
<1> DEFINE c == [tcp[p][s] EXCEPT !.up = FALSE, !.in = in]
<1>3. tcp' = [tcp EXCEPT ![p][s] = c]
  BY <1>1, <1>2 DEF ClientType
<1>4. /\ c \in ClientType(Msg, Val)
      /\ c.owner = tcp[p][s].owner /\ c.stream = tcp[p][s].stream /\ ~c.up
  BY <1>1, <1>2, EmptySeq DEF ClientType
<1>5. breaks' \in 0 .. MaxBreaks
  BY ConnectionsAssumption DEF ConnectionsInv, Break
<1> HIDE DEF c
<1> QED
  BY <1>3, <1>4, <1>5, TrafficKeeps DEF Break

\* What a broken connection and a peer that reads do to the messages on their way.
LEMMA TrafficOut ==
    ASSUME NEW Msg, NEW Val, ConnectionsInv(Msg, Val),
           NEW p \in Peer, NEW s \in Slot,
           Break(p, s) \/ \E response : Reads(p, s, response)
    PROVE  \A q \in Peer, u \in Slot :
               \/ tcp'[q][u].out = tcp[q][u].out
               \/ /\ tcp[q][u].out # <<>>
                  /\ tcp'[q][u].out = Tail(tcp[q][u].out)
<1>1. /\ tcp \in [Peer -> [Slot -> ClientType(Msg, Val)]]
      /\ tcp[p][s] \in ClientType(Msg, Val)
  BY DEF ConnectionsInv
<1>2. CASE Break(p, s)
  <2>1. PICK in \in {tcp[p][s].in, <<>>} :
            tcp' = [tcp EXCEPT ![p][s].up = FALSE, ![p][s].in = in]
    BY <1>2 DEF Break
  <2> QED
    BY <1>1, <2>1 DEF ClientType
<1>3. ASSUME NEW response, Reads(p, s, response)
      PROVE  /\ tcp[p][s].out # <<>>
             /\ \A q \in Peer, u \in Slot :
                    tcp'[q][u].out = IF q = p /\ u = s THEN Tail(tcp[q][u].out)
                                     ELSE tcp[q][u].out
  BY <1>1, <1>3 DEF Reads, ClientType
<1> QED
  BY <1>2, <1>3

\* The peer reads and responds.
LEMMA ReadsKeeps ==
    ASSUME NEW Msg, NEW Val, ConnectionsInv(Msg, Val),
           NEW p \in Peer, NEW s \in Slot, NEW response \in Seq(Val),
           Reads(p, s, response)
    PROVE  ConnectionsInv(Msg, Val)'
<1> DEFINE old == tcp[p][s]
           in  == IF old.up THEN old.in \o response ELSE old.in
           c   == [old EXCEPT !.out = Tail(@), !.in = in]
<1>1. /\ tcp \in [Peer -> [Slot -> ClientType(Msg, Val)]]
      /\ old \in ClientType(Msg, Val)
  BY DEF ConnectionsInv
<1>2. Tail(old.out) \in Seq(Msg)
  BY <1>1, HeadTailProperties DEF Reads, ClientType
<1>3. in \in Seq(Val)
  BY <1>1, ConcatProperties DEF ClientType
<1>4. tcp' = [tcp EXCEPT ![p][s] = c]
  BY <1>1 DEF Reads, ClientType
<1> HIDE DEF in
<1>5. /\ c \in ClientType(Msg, Val)
      /\ c.owner = old.owner /\ c.stream = old.stream /\ c.up = old.up
  BY <1>1, <1>2, <1>3 DEF ClientType
<1> HIDE DEF c
<1>6. breaks' \in 0 .. MaxBreaks
  BY DEF ConnectionsInv, Reads
<1> QED
  BY <1>4, <1>5, <1>6, TrafficKeeps DEF Reads

-----------------------------------------------------------------------------
\* Threads are started in place of ones that do nothing.
LEMMA SpawnKeeps ==
    ASSUME NEW Msg, NEW Val, ConnectionsInv(Msg, Val),
           job' \in [Job -> JobType(Msg, Val)],
           \A j \in Job : \/ job'[j] = job[j]
                          \/ /\ ~Active(j)
                             /\ job'[j].pc = "lock"
                             /\ job'[j].peer \in Peer /\ job'[j].slot \in Slot
                             /\ job'[j].msg \in Msg,
           UNCHANGED <<psc, current, tcp, retry, breaks>>
    PROVE  ConnectionsInv(Msg, Val)'
<1> USE ConnectionsAssumption
<1>1. \A j \in Job : OwnsClient(j)' <=> OwnsClient(j)
  BY DEF OwnsClient, Active
<1>2. \A j \in Job : OwnsClient(j) => job'[j] = job[j]
  BY DEF OwnsClient, Active
<1>3. \A p \in Peer, s \in Slot : tcp[p][s].owner \in Job \cup {Nothing}
  BY DEF ConnectionsInv, ClientType
<1>4. OwnersMatch'
  <2>1. ASSUME NEW q \in Peer, NEW u \in Slot, tcp[q][u].owner # Nothing
        PROVE  /\ job'[tcp[q][u].owner].pc \in {"write", "recv"}
               /\ job'[tcp[q][u].owner].peer = q
               /\ job'[tcp[q][u].owner].slot = u
    <3>1. tcp[q][u].owner \in Job /\ OwnsClient(tcp[q][u].owner)
      BY <1>3, <2>1 DEF ConnectionsInv, OwnersMatch
    <3>2. job'[tcp[q][u].owner] = job[tcp[q][u].owner]
      BY <1>2, <3>1
    <3> QED
      BY <2>1, <3>1, <3>2 DEF ConnectionsInv, OwnersMatch, OwnsClient
  <2>2. ASSUME NEW j \in Job, OwnsClient(j)' PROVE TcpClient(j)'.owner = j
    BY <1>1, <1>2, <2>2 DEF ConnectionsInv, OwnersMatch, TcpClient
  <2> QED
    BY <2>1, <2>2 DEF OwnersMatch, OwnsClient
<1>5. DeadStaysDead'
  BY DEF ConnectionsInv, DeadStaysDead
<1>6. ASSUME NEW j \in Job, Active(j)'
      PROVE  /\ job'[j].peer \in Peer /\ job'[j].slot \in Slot /\ job'[j].msg \in Msg
             /\ OwnsClient(j)' => TcpClient(j)'.stream
  <2>1. CASE job'[j] = job[j]
    <3>1. Active(j) /\ (OwnsClient(j)' => OwnsClient(j))
      BY <1>6, <2>1 DEF Active, OwnsClient
    <3>2. TcpClient(j)' = TcpClient(j)
      BY <2>1 DEF TcpClient
    <3> QED
      BY <2>1, <3>1, <3>2 DEF ConnectionsInv
  <2>2. CASE job'[j] # job[j]
    BY <1>1, <2>2 DEF OwnsClient, Active
  <2> QED
    BY <2>1, <2>2
<1> QED
  BY <1>4, <1>5, <1>6 DEF ConnectionsInv

LEMMA UnchangedKeeps ==
    ASSUME NEW Msg, NEW Val, ConnectionsInv(Msg, Val),
           UNCHANGED <<psc, current, tcp, job, retry, breaks>>
    PROVE  ConnectionsInv(Msg, Val)'
<1>1. job' \in [Job -> JobType(Msg, Val)]
  BY DEF ConnectionsInv
<1> QED
  BY <1>1, SpawnKeeps

-----------------------------------------------------------------------------
\* The scan goes on to the next connection, with what it found dead.
LEMMA ScanKeeps ==
    ASSUME NEW Msg, NEW Val, ConnectionsInv(Msg, Val), Scan
    PROVE  ConnectionsInv(Msg, Val)'
<1> USE ConnectionsAssumption
<1> DEFINE p == Order[retry.i]
           c == tcp[p][current[p]]
           dead == IF IsDead(c) THEN retry.dead \cup {p} ELSE retry.dead
<1>1. /\ retry \in RetryType /\ retry.pc = "scan" /\ retry.i <= Len(Order)
      /\ c.owner = Nothing
      /\ retry' = [retry EXCEPT !.i = @ + 1,
                                !.dead = IF IsDead(c) THEN @ \cup {p} ELSE @]
      /\ UNCHANGED <<psc, current, tcp, job, breaks>>
  BY DEF ConnectionsInv, Scan
<1>2. p \in Peer
  BY <1>1, ElementOfSeq DEF RetryType
<1>3. retry' = [retry EXCEPT !.i = @ + 1, !.dead = dead]
  BY <1>1
<1>4. dead \in SUBSET Peer
  BY <1>1, <1>2 DEF RetryType
<1>5. \A q \in dead : ~tcp[q][current[q]].stream /\ tcp[q][current[q]].owner = Nothing
  BY <1>1 DEF ConnectionsInv, DeadStaysDead, IsDead
<1> HIDE DEF p, c, dead
<1>6. retry' \in RetryType /\ retry'.pc = "scan" /\ retry'.dead = dead
  <2>1. retry.i + 1 \in Nat \ {0}
    BY <1>1 DEF RetryType
  <2> QED
    BY <1>1, <1>3, <1>4, <2>1 DEF RetryType
<1>7. DeadStaysDead'
  BY <1>1, <1>5, <1>6 DEF DeadStaysDead
<1>8. OwnersMatch'
  BY <1>1 DEF ConnectionsInv, OwnersMatch, OwnsClient, TcpClient
<1> QED
  BY <1>1, <1>6, <1>7, <1>8 DEF ConnectionsInv, Active, OwnsClient, TcpClient

\* The scan begins or ends.
LEMMA ScanBoundsKeep ==
    ASSUME NEW Msg, NEW Val, ConnectionsInv(Msg, Val), WakeUp \/ EndScan
    PROVE  ConnectionsInv(Msg, Val)'
<1>1. /\ UNCHANGED <<current, tcp, job, breaks>>
      /\ retry \in RetryType /\ retry' \in RetryType
      /\ retry'.dead \subseteq retry.dead
      /\ psc' = IF retry'.pc = "scan" THEN Retrying ELSE Nothing
  BY DEF ConnectionsInv, WakeUp, EndScan, RetryType
<1>2. OwnersMatch' /\ DeadStaysDead'
  BY <1>1 DEF ConnectionsInv, OwnersMatch, DeadStaysDead, OwnsClient, TcpClient
<1> QED
  BY <1>1, <1>2 DEF ConnectionsInv, Active, OwnsClient, TcpClient

LEMMA FreeSlotIsFree ==
    ASSUME NEW p, FreeSlots(p) # {}
    PROVE  /\ FreeSlot(p) \in Slot
           /\ FreeSlot(p) # current[p]
           /\ \A j \in Job : job[j].pc \notin {"idle", "done"} =>
                  ~(job[j].peer = p /\ job[j].slot = FreeSlot(p))
<1>1. FreeSlot(p) \in FreeSlots(p)
  BY DEF FreeSlot
<1> QED
  BY <1>1 DEF FreeSlots

LEMMA ExtendKeeps ==
    ASSUME NEW Msg, NEW Val, ConnectionsInv(Msg, Val), Extend
    PROVE  ConnectionsInv(Msg, Val)'
<1> USE ConnectionsAssumption
<1> DEFINE New(p) == NewTCPClient(p \in Listening)
<1>1. \A p \in Peer : /\ New(p) \in ClientType(Msg, Val)
                      /\ New(p).owner = Nothing
                      /\ New(p).up = New(p).stream
  BY EmptySeq DEF NewTCPClient, ClientType
<1> HIDE DEF New
<1>2. \A p \in retry.dead :
          /\ FreeSlot(p) \in Slot
          /\ \A j \in Job : Active(j) => ~(job[j].peer = p /\ job[j].slot = FreeSlot(p))
  BY FreeSlotIsFree DEF Extend, Active
<1>3. /\ current \in [Peer -> Slot] /\ retry.dead \subseteq Peer
      /\ tcp \in [Peer -> [Slot -> ClientType(Msg, Val)]]
  BY DEF ConnectionsInv, RetryType
<1>4. current' \in [Peer -> Slot]
  BY <1>2, <1>3 DEF Extend
<1>5. /\ tcp' \in [Peer -> [Slot -> ClientType(Msg, Val)]]
      /\ \A q \in Peer, u \in Slot :
             tcp'[q][u] = IF q \in retry.dead /\ u = FreeSlot(q) THEN New(q) ELSE tcp[q][u]
  BY <1>1, <1>2, <1>3 DEF Extend, New
<1>6. /\ retry' = [pc |-> "sleep", i |-> 1, dead |-> {}]
      /\ retry' \in RetryType /\ retry'.dead = {} /\ retry'.pc = "sleep"
      /\ psc' = Nothing /\ UNCHANGED <<job, breaks>>
  BY DEF Extend, RetryType
<1>7. ASSUME NEW j \in Job, Active(j) PROVE TcpClient(j)' = TcpClient(j)
  <2>1. job[j].peer \in Peer /\ job[j].slot \in Slot
    BY <1>7 DEF ConnectionsInv
  <2> QED
    BY <1>2, <1>5, <1>6, <1>7, <2>1 DEF TcpClient
<1>8. \A j \in Job : /\ Active(j)' = Active(j)
                     /\ OwnsClient(j)' = OwnsClient(j)
                     /\ OwnsClient(j) => Active(j)
  BY <1>6 DEF Active, OwnsClient
<1>9. ASSUME NEW q \in Peer, NEW u \in Slot
      PROVE  /\ tcp'[q][u].up => tcp'[q][u].stream
             /\ tcp'[q][u].owner # Nothing => tcp'[q][u] = tcp[q][u]
  <2>1. CASE q \in retry.dead /\ u = FreeSlot(q)
    <3>1. tcp'[q][u] = New(q)
      BY <1>5, <2>1
    <3> QED
      BY <1>1, <3>1
  <2>2. CASE ~(q \in retry.dead /\ u = FreeSlot(q))
    <3>1. tcp'[q][u] = tcp[q][u]
      BY <1>5, <2>2
    <3> QED
      BY <3>1 DEF ConnectionsInv
  <2> QED
    BY <2>1, <2>2
<1>10. OwnersMatch'
  <2>1. ASSUME NEW q \in Peer, NEW u \in Slot, tcp'[q][u].owner # Nothing
        PROVE  /\ job[tcp'[q][u].owner].pc \in {"write", "recv"}
               /\ job[tcp'[q][u].owner].peer = q
               /\ job[tcp'[q][u].owner].slot = u
    <3>1. tcp'[q][u] = tcp[q][u]
      BY <1>9, <2>1
    <3> QED
      BY <2>1, <3>1 DEF ConnectionsInv, OwnersMatch, OwnsClient
  <2>2. ASSUME NEW j \in Job, OwnsClient(j) PROVE TcpClient(j)'.owner = j
    BY <1>7, <1>8, <2>2 DEF ConnectionsInv, OwnersMatch
  <2> QED
    BY <1>6, <1>8, <2>1, <2>2 DEF OwnersMatch, OwnsClient
<1>11. DeadStaysDead'
  BY <1>6 DEF DeadStaysDead
<1>12. ASSUME NEW j \in Job, Active(j)'
       PROVE  /\ job'[j].peer \in Peer /\ job'[j].slot \in Slot /\ job'[j].msg \in Msg
              /\ OwnsClient(j)' => TcpClient(j)'.stream
  BY <1>6, <1>7, <1>8, <1>12 DEF ConnectionsInv
<1> QED
  BY <1>4, <1>5, <1>6, <1>9, <1>10, <1>11, <1>12 DEF ConnectionsInv

\* Every step of the retry thread keeps ConnectionsInv.
LEMMA RetryStepKeeps ==
    ASSUME NEW Msg, NEW Val, ConnectionsInv(Msg, Val), RetryStep
    PROVE  ConnectionsInv(Msg, Val)'
BY ScanKeeps, ScanBoundsKeep, ExtendKeeps DEF RetryStep

\* It leaves the threads alone, and the TCPClients but for those it makes.
LEMMA RetryEffect ==
    ASSUME NEW Msg, NEW Val, ConnectionsInv(Msg, Val), RetryStep
    PROVE  /\ job' = job
           /\ \A p \in Peer, s \in Slot :
                  \/ tcp'[p][s] = tcp[p][s]
                  \/ /\ tcp'[p][s] = NewTCPClient(p \in Listening)
                     /\ \A j \in Job : Active(j) => ~(job[j].peer = p /\ job[j].slot = s)
<1>1. CASE Extend
  <2>1. \A p \in retry.dead, j \in Job :
            Active(j) => ~(job[j].peer = p /\ job[j].slot = FreeSlot(p))
    BY <1>1, FreeSlotIsFree DEF Extend, Active
  <2>2. \A p \in Peer, s \in Slot :
            tcp'[p][s] = IF p \in retry.dead /\ s = FreeSlot(p)
                         THEN NewTCPClient(p \in Listening) ELSE tcp[p][s]
    BY <1>1 DEF Extend, ConnectionsInv
  <2>3. ASSUME NEW p \in Peer, NEW s \in Slot
        PROVE  \/ tcp'[p][s] = tcp[p][s]
               \/ /\ tcp'[p][s] = NewTCPClient(p \in Listening)
                  /\ \A j \in Job : Active(j) => ~(job[j].peer = p /\ job[j].slot = s)
    BY <2>1, <2>2
  <2> QED
    BY <1>1, <2>3 DEF Extend
<1>2. CASE ~Extend
  BY <1>2 DEF RetryStep, WakeUp, Scan, EndScan
<1> QED
  BY <1>1, <1>2

\* The retry thread puts a connection in the place of a dead one alone, and of
\* one that no thread uses; nothing else changes the map.
LEMMA ReplacesDead ==
    ASSUME NEW Msg, NEW Val, ConnectionsInv(Msg, Val), RetryStep,
           NEW p \in Peer, current'[p] # current[p]
    PROVE  /\ ~tcp[p][current[p]].stream
           /\ \A j \in Job : job[j].pc \in {"write", "recv"} /\ job[j].peer = p
                                 => job[j].slot # current[p]
<1> USE ConnectionsAssumption
<1>1. Extend
  BY DEF RetryStep, WakeUp, Scan, EndScan
<1>2. p \in retry.dead
  BY <1>1 DEF Extend, ConnectionsInv
<1>3. ~tcp[p][current[p]].stream /\ tcp[p][current[p]].owner = Nothing
  BY <1>2 DEF ConnectionsInv, DeadStaysDead
<1>4. ASSUME NEW j \in Job, job[j].pc \in {"write", "recv"}, job[j].peer = p,
             job[j].slot = current[p]
      PROVE  FALSE
  BY <1>3, <1>4 DEF ConnectionsInv, OwnersMatch, OwnsClient, TcpClient
<1> QED
  BY <1>3, <1>4
=============================================================================
