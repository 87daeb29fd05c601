---------------------------- MODULE BroadcastProofs ----------------------------
(***************************************************************************)
(* Proofs about Broadcast, for any peers, messages and targets.            *)
(***************************************************************************)
EXTENDS Broadcast, ConnectionsProofs

Inv == ConnectionsInv(Messages, {Nothing})

Increasing(out) == \A i, k \in DOMAIN out : i < k => out[i] < out[k]

\* The sending thread is at next; the threads at work are those it waits for.
OneMessageAtATime ==
    /\ next \in 1 .. Len(Targets) + 1
    /\ pc \in {"take", "wait"}
    /\ pc = "wait" => next \in Messages
    /\ \A j \in Job : Active(j) =>
           /\ pc = "wait"
           /\ j = <<next, job[j].peer>>
           /\ job[j].peer \in Targets[next]
           /\ job[j].msg = next

\* No connection has a message from after next, and next only when the thread
\* that sends it to this peer has ended.
NothingBeyond ==
    \A p \in Peer, s \in Slot : \A k \in DOMAIN tcp[p][s].out :
        /\ tcp[p][s].out[k] <= next
        /\ tcp[p][s].out[k] = next => pc = "wait" /\ job[<<next, p>>].pc = "done"

IInv ==
    /\ Inv
    /\ OneMessageAtATime
    /\ NothingBeyond
    /\ \A p \in Peer, s \in Slot : Increasing(tcp[p][s].out)

LEMMA MessagesAreNumbered == Messages = 1 .. Len(Targets) /\ Len(Targets) \in Nat
BY BroadcastAssumption, LenProperties DEF Messages

LEMMA OutType ==
    ASSUME Inv, NEW p \in Peer, NEW s \in Slot
    PROVE  /\ tcp[p][s].out \in Seq(Messages)
           /\ \A k \in DOMAIN tcp[p][s].out : tcp[p][s].out[k] \in Nat
<1>1. tcp[p][s].out \in Seq(Messages)
  BY DEF Inv, ConnectionsInv, ClientType
<1>2. ASSUME NEW k \in DOMAIN tcp[p][s].out PROVE tcp[p][s].out[k] \in Nat
  <2>1. k \in 1 .. Len(tcp[p][s].out)
    BY <1>1, LenProperties
  <2>2. tcp[p][s].out[k] \in Messages
    BY <1>1, <2>1, ElementOfSeq
  <2> QED
    BY <2>2, MessagesAreNumbered
<1> QED
  BY <1>1, <1>2

LEMMA Initial == Init => IInv
<1> SUFFICES ASSUME Init PROVE IInv
  OBVIOUS
<1>1. Inv
  BY ConnectionsInitially DEF Init, Inv
<1>2. \A j \in Job : ~Active(j)
  BY DEF Init, ConnectionsInit, Active, Idle
<1>3. OneMessageAtATime
  BY <1>2, MessagesAreNumbered DEF Init, OneMessageAtATime
<1>4. \A p \in Peer, s \in Slot : tcp[p][s].out = <<>>
  BY DEF Init, ConnectionsInit, NewTCPClient
<1>5. \A p \in Peer, s \in Slot : DOMAIN tcp[p][s].out = {}
  BY <1>4
<1>6. NothingBeyond /\ \A p \in Peer, s \in Slot : Increasing(tcp[p][s].out)
  BY <1>5 DEF NothingBeyond, Increasing
<1> QED
  BY <1>1, <1>3, <1>6 DEF IInv

\* Steps that neither start nor end a thread and add no message.
LEMMA TrafficStep ==
    ASSUME IInv, Inv', UNCHANGED <<job, next, pc>>,
           \A p \in Peer, s \in Slot :
               \/ tcp'[p][s].out = tcp[p][s].out
               \/ tcp'[p][s].out = <<>>
               \/ /\ tcp[p][s].out # <<>>
                  /\ tcp'[p][s].out = Tail(tcp[p][s].out)
    PROVE  IInv'
<1>1. OneMessageAtATime'
  BY DEF IInv, OneMessageAtATime, Active
<1>2. ASSUME NEW p \in Peer, NEW s \in Slot
      PROVE  /\ Increasing(tcp'[p][s].out)
             /\ \A k \in DOMAIN tcp'[p][s].out :
                   \E i \in DOMAIN tcp[p][s].out : tcp'[p][s].out[k] = tcp[p][s].out[i]
  <2> DEFINE out == tcp[p][s].out
             out1 == tcp'[p][s].out
  <2>1. out \in Seq(Messages) /\ Increasing(out) /\ \A k \in DOMAIN out : out[k] \in Nat
    BY OutType DEF IInv
  <2>2. CASE out1 = out
    BY <2>1, <2>2
  <2>3. CASE out1 = <<>>
    <3>1. DOMAIN out1 = {}
      BY <2>3
    <3> QED
      BY <3>1 DEF Increasing
  <2>4. CASE out # <<>> /\ out1 = Tail(out)
    <3> HIDE DEF out, out1
    <3>1. /\ Len(out) \in Nat /\ DOMAIN out = 1 .. Len(out)
          /\ out1 \in Seq(Messages) /\ Len(out1) = Len(out) - 1
          /\ DOMAIN out1 = 1 .. Len(out) - 1
          /\ \A k \in 1 .. Len(out) - 1 : out1[k] = out[k + 1]
      BY <2>1, <2>4, HeadTailProperties, LenProperties, EmptySeq
    <3>2. \A k \in DOMAIN out1 : k + 1 \in DOMAIN out /\ out1[k] = out[k + 1]
      BY <3>1
    <3>3. \A i, k \in DOMAIN out1 : i < k => i + 1 < k + 1
      BY <3>1
    <3>4. Increasing(out1)
      BY <2>1, <3>2, <3>3 DEF Increasing
    <3> QED
      BY <3>2, <3>4 DEF out, out1
  <2> QED
    BY <2>2, <2>3, <2>4
<1>3. NothingBeyond'
  BY <1>2 DEF IInv, NothingBeyond
<1> QED
  BY <1>1, <1>2, <1>3 DEF IInv

LEMMA TakeStep == IInv /\ Take => IInv'
<1> SUFFICES ASSUME IInv, Take PROVE IInv'
  OBVIOUS
<1>1. /\ pc = "take" /\ next \in Messages /\ pc' = "wait" /\ next' = next
      /\ UNCHANGED <<psc, current, tcp, retry, breaks>>
      /\ job' = [j \in Job |-> IF j[1] = next /\ j[2] \in Targets[next]
                               THEN Spawned(j[2], next) ELSE job[j]]
      /\ Job = Messages \X Peer
  BY BroadcastAssumption DEF Take
<1>2. /\ job \in [Job -> JobType(Messages, {Nothing})]
      /\ current \in [Peer -> Slot]
      /\ \A j \in Job : ~Active(j)
  BY <1>1 DEF IInv, Inv, ConnectionsInv, OneMessageAtATime
<1>3. \A p \in Peer :
          /\ Spawned(p, next) \in JobType(Messages, {Nothing})
          /\ Spawned(p, next).pc = "lock" /\ Spawned(p, next).peer = p
          /\ Spawned(p, next).slot = current[p] /\ Spawned(p, next).msg = next
  BY <1>1, <1>2 DEF Spawned, JobType
<1>4. ASSUME NEW j \in Job
      PROVE  /\ job'[j] \in JobType(Messages, {Nothing})
             /\ \/ job'[j] = job[j]
                \/ /\ j = <<next, j[2]>> /\ j[2] \in Peer /\ j[2] \in Targets[next]
                   /\ job'[j] = Spawned(j[2], next)
  <2>1. j[2] \in Peer /\ j = <<j[1], j[2]>>
    BY <1>1
  <2>2. job'[j] = IF j[1] = next /\ j[2] \in Targets[next]
                  THEN Spawned(j[2], next) ELSE job[j]
    BY <1>1
  <2> QED
    BY <1>2, <1>3, <2>1, <2>2
<1>5. job' \in [Job -> JobType(Messages, {Nothing})]
  BY <1>1, <1>4
<1>6. \A j \in Job : \/ job'[j] = job[j]
                     \/ /\ ~Active(j)
                        /\ job'[j].pc = "lock"
                        /\ job'[j].peer \in Peer /\ job'[j].slot \in Slot
                        /\ job'[j].msg \in Messages
  BY <1>1, <1>2, <1>3, <1>4
<1>7. Inv'
  BY <1>1, <1>5, <1>6, SpawnKeeps DEF IInv, Inv
<1>8. OneMessageAtATime'
  <2>1. ASSUME NEW j \in Job, Active(j)'
        PROVE  /\ j = <<next, job'[j].peer>>
               /\ job'[j].peer \in Targets[next]
               /\ job'[j].msg = next
    <3>1. job'[j] # job[j]
      BY <1>2, <2>1 DEF Active
    <3> QED
      BY <1>3, <1>4, <3>1
  <2> QED
    BY <1>1, <2>1 DEF IInv, OneMessageAtATime
<1>9. NothingBeyond'
  BY <1>1 DEF IInv, NothingBeyond
<1> QED
  BY <1>1, <1>7, <1>8, <1>9 DEF IInv

LEMMA SendEndsStep == IInv /\ SendEnds => IInv'
<1> SUFFICES ASSUME IInv, SendEnds PROVE IInv'
  OBVIOUS
<1>1. /\ pc = "wait" /\ next \in Messages /\ next' = next + 1 /\ pc' = "take"
      /\ UNCHANGED <<psc, current, tcp, job, retry, breaks>>
      /\ \A p \in Targets[next] : job[<<next, p>>].pc = "done"
  BY DEF SendEnds, IsSent, connections, IInv, OneMessageAtATime
<1>2. \A j \in Job : ~Active(j) /\ ~Active(j)'
  BY <1>1 DEF IInv, OneMessageAtATime, Active
<1>3. Inv'
  BY <1>1, UnchangedKeeps DEF IInv, Inv
<1>4. OneMessageAtATime'
  BY <1>1, <1>2, MessagesAreNumbered DEF OneMessageAtATime
<1>5. NothingBeyond'
  <2>1. ASSUME NEW p \in Peer, NEW s \in Slot, NEW k \in DOMAIN tcp[p][s].out
        PROVE  tcp[p][s].out[k] <= next + 1 /\ tcp[p][s].out[k] # next + 1
    <3>1. tcp[p][s].out[k] \in Nat /\ tcp[p][s].out[k] <= next
      BY OutType DEF IInv, NothingBeyond
    <3> QED
      BY <1>1, <3>1, MessagesAreNumbered
  <2> QED
    BY <1>1, <2>1 DEF NothingBeyond
<1> QED
  BY <1>1, <1>3, <1>4, <1>5 DEF IInv

\* A thread that writes adds the message the sending thread is at, which no
\* connection to its peer has yet.
LEMMA IOStep ==
    ASSUME IInv, NEW j \in Job, JobStep(j), UNCHANGED <<next, pc>>
    PROVE  IInv'
<1>1. Inv'
  BY JobStepKeeps DEF IInv, Inv
<1>2. Active(j)
  BY JobStepCases DEF IInv, Inv
<1> DEFINE p == job[j].peer
<1>3. /\ pc = "wait" /\ j = <<next, p>> /\ p \in Peer /\ p \in Targets[next]
      /\ job[j].msg = next /\ next \in Messages
  BY <1>2 DEF IInv, OneMessageAtATime, Inv, ConnectionsInv
<1>4. /\ \A i \in Job \ {j} : job'[i] = job[i]
      /\ \A q \in Peer, u \in Slot :
             \/ tcp'[q][u].out = tcp[q][u].out
             \/ /\ q = p
                /\ tcp'[q][u].out = Append(tcp[q][u].out, next)
                /\ job'[j].pc = "done"
      /\ Active(j)' => job'[j].peer = p /\ job'[j].msg = next
  BY <1>3, JobStepOut, BroadcastAssumption DEF IInv, Inv
<1>5. \A u \in Slot : \A k \in DOMAIN tcp[p][u].out : tcp[p][u].out[k] < next
  <2>1. ASSUME NEW u \in Slot, NEW k \in DOMAIN tcp[p][u].out
        PROVE  tcp[p][u].out[k] < next
    <3>1. tcp[p][u].out[k] \in Nat /\ tcp[p][u].out[k] <= next
      BY <1>3, OutType DEF IInv, NothingBeyond
    <3>2. tcp[p][u].out[k] # next
      BY <1>2, <1>3 DEF IInv, NothingBeyond, Active
    <3> QED
      BY <1>3, <3>1, <3>2, MessagesAreNumbered
  <2> QED
    BY <2>1
<1>6. OneMessageAtATime'
  <2>1. ASSUME NEW i \in Job, Active(i)'
        PROVE  /\ i = <<next, job'[i].peer>>
               /\ job'[i].peer \in Targets[next]
               /\ job'[i].msg = next
    <3>1. CASE i = j
      BY <1>3, <1>4, <2>1, <3>1
    <3>2. CASE i # j
      BY <1>4, <2>1, <3>2 DEF IInv, OneMessageAtATime, Active
    <3> QED
      BY <3>1, <3>2
  <2> QED
    BY <1>3, <2>1 DEF IInv, OneMessageAtATime
<1>7. ASSUME NEW q \in Peer, NEW u \in Slot
      PROVE  /\ Increasing(tcp'[q][u].out)
             /\ \A k \in DOMAIN tcp'[q][u].out :
                    /\ tcp'[q][u].out[k] <= next
                    /\ tcp'[q][u].out[k] = next => job'[<<next, q>>].pc = "done"
  <2> DEFINE out == tcp[q][u].out
             out1 == tcp'[q][u].out
  <2>1. out \in Seq(Messages) /\ Increasing(out) /\ \A k \in DOMAIN out : out[k] \in Nat
    BY OutType DEF IInv
  <2>2. CASE out1 = out
    <3>1. ASSUME NEW k \in DOMAIN out, out[k] = next
          PROVE  job'[<<next, q>>].pc = "done"
      <4>1. job[<<next, q>>].pc = "done" /\ <<next, q>> \in Job
        BY <1>3, <3>1, BroadcastAssumption DEF IInv, NothingBeyond
      <4>2. <<next, q>> # j
        BY <1>2, <4>1 DEF Active
      <4> QED
        BY <1>4, <4>1, <4>2
    <3> QED
      BY <2>1, <2>2, <3>1 DEF IInv, NothingBeyond
  <2>3. CASE q = p /\ out1 = Append(out, next) /\ job'[j].pc = "done"
    <3>1. \A k \in DOMAIN out : out[k] < next
      BY <1>5, <2>3
    <3> HIDE DEF out, out1
    <3>2. /\ Len(out) \in Nat /\ DOMAIN out = 1 .. Len(out)
          /\ DOMAIN out1 = 1 .. Len(out) + 1
          /\ \A k \in 1 .. Len(out) : out1[k] = out[k]
          /\ out1[Len(out) + 1] = next
      BY <1>3, <2>1, <2>3, AppendProperties, LenProperties
    <3>3. \A k \in DOMAIN out1 : k \in DOMAIN out \/ k = Len(out) + 1
      BY <3>2
    <3>4. Increasing(out1)
      BY <2>1, <3>1, <3>2, <3>3 DEF Increasing
    <3>5. \A k \in DOMAIN out1 : out1[k] <= next
      BY <1>3, <2>1, <3>1, <3>2, <3>3, MessagesAreNumbered
    <3> QED
      BY <1>3, <2>3, <3>4, <3>5 DEF out, out1
  <2> QED
    BY <1>4, <2>2, <2>3
<1>8. NothingBeyond'
  BY <1>3, <1>7 DEF NothingBeyond
<1> QED
  BY <1>1, <1>6, <1>7, <1>8 DEF IInv

LEMMA Inductive == IInv /\ [Next]_vars => IInv'
<1> SUFFICES ASSUME IInv, [Next]_vars PROVE IInv'
  OBVIOUS
<1>1. CASE Reconnecting
  <2>1. Inv'
    BY <1>1, RetryStepKeeps DEF Reconnecting, IInv, Inv
  <2>2. /\ job' = job
        /\ \A p \in Peer, s \in Slot :
               \/ tcp'[p][s] = tcp[p][s]
               \/ tcp'[p][s] = NewTCPClient(p \in Listening)
    BY <1>1, RetryEffect DEF Reconnecting, IInv, Inv
  <2>3. \A p \in Peer : NewTCPClient(p \in Listening).out = <<>>
    BY DEF NewTCPClient
  <2>4. ASSUME NEW p \in Peer, NEW s \in Slot
        PROVE  tcp'[p][s].out = tcp[p][s].out \/ tcp'[p][s].out = <<>>
    BY <2>2, <2>3
  <2> QED
    BY <1>1, <2>1, <2>2, <2>4, TrafficStep DEF Reconnecting
<1>2. ASSUME NEW p \in Peer, NEW s \in Slot, Handle(p, s) PROVE IInv'
  <2>1. Inv'
    BY <1>2, EmptySeq, ReadsKeeps DEF Handle, IInv, Inv
  <2>2. \A q \in Peer, u \in Slot :
            \/ tcp'[q][u].out = tcp[q][u].out
            \/ /\ tcp[q][u].out # <<>>
               /\ tcp'[q][u].out = Tail(tcp[q][u].out)
    BY <1>2, TrafficOut DEF Handle, IInv, Inv
  <2>3. UNCHANGED <<job, next, pc>>
    BY <1>2 DEF Handle, Reads
  <2> QED
    BY <2>1, <2>2, <2>3, TrafficStep
<1>3. ASSUME NEW p \in Peer, NEW s \in Slot, Break(p, s), UNCHANGED <<next, pc>>
      PROVE  IInv'
  <2>1. Inv'
    BY <1>3, BreakKeeps DEF IInv, Inv
  <2>2. \A q \in Peer, u \in Slot :
            \/ tcp'[q][u].out = tcp[q][u].out
            \/ /\ tcp[q][u].out # <<>>
               /\ tcp'[q][u].out = Tail(tcp[q][u].out)
    BY <1>3, TrafficOut DEF IInv, Inv
  <2>3. job' = job
    BY <1>3 DEF Break
  <2> QED
    BY <1>3, <2>1, <2>2, <2>3, TrafficStep
<1>4. CASE UNCHANGED vars
  <2>1. Inv'
    BY <1>4, UnchangedKeeps DEF vars, connections, IInv, Inv
  <2> QED
    BY <1>4, <2>1, TrafficStep DEF vars, connections
<1> QED
  BY <1>1, <1>2, <1>3, <1>4, TakeStep, SendEndsStep, IOStep DEF Next, IO

\* The strengthened invariant holds of every behaviour.
THEOREM Invariance == Spec => []IInv
BY Initial, Inductive, PTL DEF Spec

\* The mutexes of a sending server's connections are used as such.
THEOREM MutexesHold == Spec => []ConnectionsTypeOK
<1>1. IInv => ConnectionsTypeOK
  BY TypeOKOfInv DEF IInv, Inv
<1> QED
  BY <1>1, Invariance, PTL

\* The messages on their way on a connection are in the order of the channel.
THEOREM OrderIsKept == Spec => []OrderKept
<1>1. IInv => OrderKept
  BY DEF IInv, OrderKept, Increasing
<1> QED
  BY <1>1, Invariance, PTL

\* A server's retry thread replaces dead connections alone.
THEOREM DeadReplaced == Spec => ReplacesOnlyDead
<1>1. ASSUME IInv, [Next]_vars
      PROVE  [\A p \in Peer : current'[p] # current[p] =>
                 /\ ~tcp[p][current[p]].stream
                 /\ \A j \in Job : job[j].pc \in {"write", "recv"} /\ job[j].peer = p
                                       => job[j].slot # current[p]]_connections
  <2>1. RetryStep \/ current' = current
    BY <1>1 DEF Next, Take, SendEnds, Reconnecting, IO, JobStep, Send, FinishWrite,
                WriteFails, ReceiveFails, Receive, Handle, Reads, Break, vars, connections
  <2> QED
    BY <1>1, <2>1, ReplacesDead DEF IInv, Inv
<1> QED
  BY <1>1, Invariance, PTL DEF Spec, ReplacesOnlyDead
=============================================================================
