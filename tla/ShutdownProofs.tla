---------------------------- MODULE ShutdownProofs ----------------------------
(***************************************************************************)
(* Proofs about Shutdown, for any set of connections: how the threads'     *)
(* states go together, and that nothing is handled after halt.             *)
(***************************************************************************)
EXTENDS Shutdown, SequenceTheorems, TLAPS

(***************************************************************************)
(* TypeOK needs more than itself: that no connection is twice in the       *)
(* backlog, so that accepting it takes it from there; that the dummy       *)
(* connection is made once; that one command is sent; and that halt has    *)
(* the server thread joined before the retry thread.                       *)
(***************************************************************************)
NoDuplicates == \A i, j \in DOMAIN backlog : backlog[i] = backlog[j] => i = j

IInv ==
    /\ TypeOK
    /\ NoDuplicates
    /\ dropping \in {"running", "connect"} => handler[Dummy] = "none"
    /\ dropping = "running" => commands = 0
    /\ dropping \in {"joinRetry", "clear", "dropped"} => server = "returned"

\* What a new connection does to the backlog.
LEMMA AppendNew ==
    ASSUME NEW S, NEW s \in Seq(S), NEW e \in S, e \notin Range(s),
           \A i, j \in DOMAIN s : s[i] = s[j] => i = j
    PROVE  /\ Append(s, e) \in Seq(S)
           /\ Range(Append(s, e)) = Range(s) \cup {e}
           /\ \A i, j \in DOMAIN Append(s, e) :
                  Append(s, e)[i] = Append(s, e)[j] => i = j
<1> DEFINE t == Append(s, e)
<1>1. /\ t \in Seq(S)
      /\ Len(t) = Len(s) + 1
      /\ \A i \in 1 .. Len(s) : t[i] = s[i]
      /\ t[Len(s) + 1] = e
  BY AppendProperties
<1>2. /\ Len(s) \in Nat
      /\ DOMAIN s = 1 .. Len(s)
      /\ DOMAIN t = 1 .. Len(s) + 1
  BY <1>1, LenProperties
<1> HIDE DEF t
<1>3. Range(t) = Range(s) \cup {e}
  <2>1. ASSUME NEW x \in Range(t) PROVE x \in Range(s) \cup {e}
    BY <1>1, <1>2 DEF Range
  <2>2. ASSUME NEW x \in Range(s) PROVE x \in Range(t)
    BY <1>1, <1>2 DEF Range
  <2>3. e \in Range(t)
    BY <1>1, <1>2 DEF Range
  <2> QED
    BY <2>1, <2>2, <2>3
<1>4. \A i \in 1 .. Len(s) : s[i] # e
  BY <1>2 DEF Range
<1>5. ASSUME NEW i \in DOMAIN t, NEW j \in DOMAIN t, t[i] = t[j]
      PROVE  i = j
  BY <1>1, <1>2, <1>4, <1>5
<1> QED
  BY <1>1, <1>3, <1>5 DEF t

\* What accepting a connection does to it.
LEMMA TailOfDistinct ==
    ASSUME NEW S, NEW s \in Seq(S), s # <<>>,
           \A i, j \in DOMAIN s : s[i] = s[j] => i = j
    PROVE  /\ Head(s) \in S
           /\ Tail(s) \in Seq(S)
           /\ Range(Tail(s)) = Range(s) \ {Head(s)}
           /\ Head(s) \in Range(s)
           /\ \A i, j \in DOMAIN Tail(s) : Tail(s)[i] = Tail(s)[j] => i = j
<1> DEFINE t == Tail(s)
<1>1. /\ Head(s) = s[1] /\ Head(s) \in S
      /\ t \in Seq(S)
      /\ Len(t) = Len(s) - 1
      /\ \A i \in 1 .. Len(t) : t[i] = s[i + 1]
  BY HeadTailProperties
<1>2. /\ Len(s) \in Nat \ {0}
      /\ DOMAIN s = 1 .. Len(s)
      /\ DOMAIN t = 1 .. Len(s) - 1
  BY <1>1, LenProperties, EmptySeq
<1> HIDE DEF t
<1>3. ASSUME NEW x \in Range(t) PROVE x \in Range(s) \ {Head(s)}
  <2>1. PICK i \in 1 .. Len(s) - 1 : x = t[i]
    BY <1>2 DEF Range
  <2>2. x = s[i + 1] /\ i + 1 \in 1 .. Len(s) /\ i + 1 # 1
    BY <1>1, <1>2, <2>1
  <2> QED
    BY <1>1, <1>2, <2>2 DEF Range
<1>4. ASSUME NEW x \in Range(s) \ {Head(s)} PROVE x \in Range(t)
  <2>1. PICK i \in 1 .. Len(s) : x = s[i]
    BY <1>2 DEF Range
  <2>2. i # 1
    BY <1>1, <2>1
  <2>3. i - 1 \in 1 .. Len(s) - 1 /\ t[i - 1] = s[i]
    BY <1>1, <1>2, <2>2
  <2> QED
    BY <1>2, <2>1, <2>3 DEF Range
<1>5. ASSUME NEW i \in DOMAIN t, NEW j \in DOMAIN t, t[i] = t[j]
      PROVE  i = j
  <2>1. s[i + 1] = s[j + 1] /\ i + 1 \in DOMAIN s /\ j + 1 \in DOMAIN s
    BY <1>1, <1>2, <1>5
  <2> QED
    BY <1>2, <2>1
<1>6. Head(s) \in Range(s)
  BY <1>1, <1>2 DEF Range
<1> QED
  BY <1>1, <1>3, <1>4, <1>5, <1>6 DEF t

-----------------------------------------------------------------------------
LEMMA Initial == Init => IInv
<1> SUFFICES ASSUME Init PROVE IInv
  OBVIOUS
<1>1. backlog \in Seq(Conn \cup {Dummy}) /\ DOMAIN backlog = {} /\ Range(backlog) = {}
  BY EmptySeq DEF Init, Range
<1>2. NoDuplicates
  BY <1>1 DEF NoDuplicates
<1>3. /\ handler \in [Conn \cup {Dummy} -> HandlerState]
      /\ {c \in DOMAIN handler : handler[c] = "opened"} = {}
  BY DEF Init, HandlerState
<1>4. alive = (server # "returned")
  <2>1. (server # "returned") = TRUE
    BY DEF Init
  <2> QED
    BY <2>1 DEF Init
<1>5. Range(backlog) = {c \in DOMAIN handler : handler[c] = "opened"}
  BY <1>1, <1>3
<1>6. /\ commands \in 0 .. 1
      /\ dropping \in Dropping /\ dropping \notin {"clear", "dropped"}
  BY DEF Init, Dropping
<1>7. TypeOK
  BY <1>1, <1>3, <1>4, <1>5, <1>6 DEF Init, TypeOK
<1> QED
  BY <1>2, <1>7 DEF Init, IInv

\* A handler's own step, which opens nothing, keeps IInv.
LEMMA HandlerKeeps ==
    ASSUME IInv, NEW c \in Conn \cup {Dummy},
           NEW from \in HandlerState \ {"none", "opened"},
           NEW to \in HandlerState \ {"none", "opened"},
           Handler(c, from, to)
    PROVE  IInv'
<1>1. /\ handler \in [Conn \cup {Dummy} -> HandlerState]
      /\ handler[c] \notin {"none", "opened"}
      /\ handler' = [handler EXCEPT ![c] = to]
  BY DEF IInv, TypeOK, Handler
<1>2. /\ handler' \in [Conn \cup {Dummy} -> HandlerState]
      /\ {d \in DOMAIN handler : handler[d] = "opened"}'
             = {d \in DOMAIN handler : handler[d] = "opened"}
      /\ handler[Dummy] = "none" => handler'[Dummy] = "none"
  BY <1>1
<1>3. TypeOK'
  BY <1>2 DEF IInv, TypeOK, Handler
<1> QED
  BY <1>2, <1>3 DEF IInv, NoDuplicates, Handler

LEMMA ConnectionKeeps ==
    ASSUME IInv, NEW c \in Conn \cup {Dummy},
           HandlerStep(c) \/ Read(c) \/ Hangup(c) \/ IsWoken(c)
    PROVE  IInv'
<1>1. CASE CheckAlive(c)
  BY <1>1, HandlerKeeps DEF CheckAlive, HandlerState
<1>2. CASE Answers(c) \/ Registers(c)
  BY <1>2, HandlerKeeps DEF Answers, Registers, HandlerState
<1>3. CASE Read(c) \/ Hangup(c)
  BY <1>3, HandlerKeeps DEF Read, Hangup, HandlerState
<1>4. CASE IsWoken(c)
  BY <1>4, HandlerKeeps DEF IsWoken, HandlerState
<1> QED
  BY <1>1, <1>2, <1>3, <1>4 DEF HandlerStep

\* A connection that was not opened yet is put into the backlog.
LEMMA OpenKeeps ==
    ASSUME IInv, Listens, NEW c \in Conn \cup {Dummy}, handler[c] = "none",
           handler' = [handler EXCEPT ![c] = "opened"],
           backlog' = Append(backlog, c),
           UNCHANGED <<server, commands, alive, retry, alive_state>>,
           \/ c # Dummy /\ UNCHANGED dropping
           \/ dropping = "connect" /\ dropping' = "joinServer"
    PROVE  IInv'
<1>1. /\ handler \in [Conn \cup {Dummy} -> HandlerState]
      /\ backlog \in Seq(Conn \cup {Dummy})
      /\ Range(backlog) = {d \in DOMAIN handler : handler[d] = "opened"}
      /\ server # "returned"
  BY DEF IInv, TypeOK, Listens
<1>2. c \notin Range(backlog)
  BY <1>1
<1>3. /\ backlog' \in Seq(Conn \cup {Dummy})
      /\ Range(backlog') = Range(backlog) \cup {c}
      /\ NoDuplicates'
  BY <1>1, <1>2, AppendNew DEF IInv, NoDuplicates
<1>4. /\ handler' \in [Conn \cup {Dummy} -> HandlerState]
      /\ {d \in DOMAIN handler' : handler'[d] = "opened"}
             = {d \in DOMAIN handler : handler[d] = "opened"} \cup {c}
  BY <1>1 DEF HandlerState
<1>5. TypeOK'
  BY <1>1, <1>3, <1>4 DEF IInv, TypeOK, Dropping
<1> QED
  BY <1>1, <1>3, <1>5 DEF IInv, Listens

LEMMA AcceptKeeps == IInv /\ Accept => IInv'
<1> SUFFICES ASSUME IInv, Accept PROVE IInv'
  OBVIOUS
<1>1. /\ handler \in [Conn \cup {Dummy} -> HandlerState]
      /\ backlog \in Seq(Conn \cup {Dummy}) /\ backlog # <<>>
      /\ Range(backlog) = {d \in DOMAIN handler : handler[d] = "opened"}
      /\ server = "accept" /\ server' = "poll"
      /\ backlog' = Tail(backlog)
      /\ handler' = [handler EXCEPT ![Head(backlog)] = "reading"]
  BY DEF IInv, TypeOK, Accept
<1> DEFINE c == Head(backlog)
<1>2. /\ c \in Conn \cup {Dummy}
      /\ c \in Range(backlog)
      /\ backlog' \in Seq(Conn \cup {Dummy})
      /\ Range(backlog') = Range(backlog) \ {c}
      /\ NoDuplicates'
  BY <1>1, TailOfDistinct DEF IInv, NoDuplicates
<1> HIDE DEF c
<1>3. /\ handler' \in [Conn \cup {Dummy} -> HandlerState]
      /\ {d \in DOMAIN handler' : handler'[d] = "opened"}
             = {d \in DOMAIN handler : handler[d] = "opened"} \ {c}
      /\ handler[Dummy] = "none" => handler'[Dummy] = "none"
  BY <1>1, <1>2 DEF HandlerState, c
<1>4. TypeOK'
  BY <1>1, <1>2, <1>3 DEF IInv, TypeOK, Accept
<1> QED
  BY <1>1, <1>2, <1>3, <1>4 DEF IInv, Accept

LEMMA PollKeeps == IInv /\ Poll => IInv'
<1> SUFFICES ASSUME IInv, Poll PROVE IInv'
  OBVIOUS
<1>1. CASE commands = 0
  BY <1>1 DEF IInv, TypeOK, NoDuplicates, Poll
<1>2. CASE commands # 0
  <2>1. /\ handler \in [Conn \cup {Dummy} -> HandlerState]
        /\ backlog' = <<>> /\ server' = "returned" /\ alive' = FALSE
        /\ commands' = 0 /\ dropping # "running"
        /\ handler' = [c \in DOMAIN handler |->
                          IF handler[c] = "opened" THEN "ended" ELSE handler[c]]
    BY <1>2 DEF IInv, TypeOK, Poll
  <2>2. /\ backlog' \in Seq(Conn \cup {Dummy})
        /\ DOMAIN backlog' = {} /\ Range(backlog') = {}
    BY <2>1, EmptySeq DEF Range
  <2>3. /\ handler' \in [Conn \cup {Dummy} -> HandlerState]
        /\ {d \in DOMAIN handler' : handler'[d] = "opened"} = {}
        /\ handler[Dummy] = "none" => handler'[Dummy] = "none"
    BY <2>1 DEF HandlerState
  <2>4. /\ alive' = (server' # "returned")
        /\ Range(backlog') = {d \in DOMAIN handler' : handler'[d] = "opened"}
        /\ dropping \notin {"clear", "dropped"}
    BY <2>1, <2>2, <2>3 DEF IInv, TypeOK, Poll
  <2>5. TypeOK'
    BY <2>1, <2>2, <2>3, <2>4 DEF IInv, TypeOK, Poll
  <2> QED
    BY <2>1, <2>2, <2>3, <2>5 DEF IInv, NoDuplicates, Poll
<1> QED
  BY <1>1, <1>2

LEMMA RetryKeeps == IInv /\ RetryStep => IInv'
BY DEF IInv, TypeOK, NoDuplicates, RetryStep

LEMMA DropKeeps == IInv /\ (Halt \/ DropStep) => IInv'
<1> SUFFICES ASSUME IInv, Halt \/ DropStep PROVE IInv'
  OBVIOUS
<1>1. CASE Halt
  BY <1>1 DEF IInv, TypeOK, NoDuplicates, Halt, Dropping
<1>2. CASE ConnectDummy
  <2>1. CASE Listens
    BY <1>2, <2>1, OpenKeeps DEF ConnectDummy, IInv
  <2>2. CASE ~Listens
    BY <1>2, <2>2 DEF ConnectDummy, IInv, TypeOK, NoDuplicates, Dropping
  <2> QED
    BY <2>1, <2>2
<1>3. CASE JoinServer \/ JoinRetry
  BY <1>3 DEF JoinServer, JoinRetry, IInv, TypeOK, NoDuplicates, Dropping
<1>4. CASE ClearState
  <2>1. /\ handler \in [Conn \cup {Dummy} -> HandlerState]
        /\ handler' = [c \in DOMAIN handler |->
                          IF handler[c] = "waiting" THEN "reading" ELSE handler[c]]
    BY <1>4 DEF IInv, TypeOK, ClearState
  <2>2. /\ handler' \in [Conn \cup {Dummy} -> HandlerState]
        /\ {d \in DOMAIN handler' : handler'[d] = "opened"}
               = {d \in DOMAIN handler : handler[d] = "opened"}
    BY <2>1 DEF HandlerState
  <2> QED
    BY <1>4, <2>2 DEF ClearState, IInv, TypeOK, NoDuplicates, Dropping
<1> QED
  BY <1>1, <1>2, <1>3, <1>4 DEF DropStep

LEMMA Inductive == IInv /\ [Next]_vars => IInv'
<1> SUFFICES ASSUME IInv, [Next]_vars PROVE IInv'
  OBVIOUS
<1>1. CASE ServerStep
  <2>1. CASE Bind
    BY <2>1 DEF Bind, IInv, TypeOK, NoDuplicates
  <2> QED
    BY <1>1, <2>1, AcceptKeeps, PollKeeps DEF ServerStep
<1>2. ASSUME NEW c \in Conn, Connect(c) PROVE IInv'
  <2>1. c # Dummy
    BY ConnAssumption
  <2> QED
    BY <1>2, <2>1, OpenKeeps DEF Connect
<1>3. CASE UNCHANGED vars
  BY <1>3 DEF vars, IInv, TypeOK, NoDuplicates
<1> QED
  BY <1>1, <1>2, <1>3, RetryKeeps, DropKeeps, ConnectionKeeps DEF Next

\* The strengthened invariant holds of every behaviour.
THEOREM Invariance == Spec => []IInv
BY Initial, Inductive, PTL DEF Spec

\* The states of the threads go together: the backlog is what was opened, alive
\* is cleared with the end of the server thread, halt waits for both threads.
THEOREM TypeCorrect == Spec => []TypeOK
<1>1. IInv => TypeOK
  BY DEF IInv
<1> QED
  BY <1>1, Invariance, PTL

-----------------------------------------------------------------------------
\* One step: a handler goes from checking to calling only by CheckAlive, which
\* finds alive set.
LEMMA CallsWhileAlive ==
    ASSUME IInv, [Next]_vars, NEW c \in Conn \cup {Dummy},
           handler[c] = "checking", handler'[c] = "calling"
    PROVE  dropping \notin {"joinRetry", "clear", "dropped"}
<1>1. handler \in [Conn \cup {Dummy} -> HandlerState]
  BY DEF IInv, TypeOK
<1>2. handler' # handler
  OBVIOUS
<1>3. ASSUME NEW d \in Conn \cup {Dummy}, HandlerStep(d)
      PROVE  alive
  BY <1>1, <1>3 DEF HandlerStep, CheckAlive, Answers, Registers, Handler
<1>4. ASSUME NEW d \in Conn \cup {Dummy}, Read(d) \/ Hangup(d) \/ IsWoken(d)
      PROVE  FALSE
  BY <1>1, <1>4 DEF Read, Hangup, IsWoken, Handler
<1>5. ASSUME NEW d \in Conn, Connect(d) PROVE FALSE
  BY <1>1, <1>5 DEF Connect
<1>6. ~Bind /\ ~Accept /\ ~Poll
  BY <1>1 DEF Bind, Accept, Poll
<1>7. ~RetryStep /\ ~Halt /\ ~DropStep
  BY <1>1 DEF RetryStep, Halt, DropStep, ConnectDummy, JoinServer, JoinRetry, ClearState
<1>8. alive
  BY <1>2, <1>3, <1>4, <1>5, <1>6, <1>7 DEF Next, ServerStep, vars
<1> QED
  BY <1>8 DEF IInv, TypeOK

\* Once the network is halted no message that is read leads to a call.
THEOREM HaltEndsCalls == Spec => NoCallAfterHalt
<1>1. IInv /\ [Next]_vars =>
          [\A c \in Conn \cup {Dummy} :
              handler[c] = "checking" /\ handler'[c] = "calling"
                  => dropping \notin {"joinRetry", "clear", "dropped"}]_vars
  BY CallsWhileAlive
<1> QED
  BY <1>1, Invariance, PTL DEF Spec, NoCallAfterHalt
=============================================================================
