------------------------------- MODULE Shutdown --------------------------------
(***************************************************************************)
(* How a server's threads start and end: start_server, handle_reader and   *)
(* Network::halt of src/src/tcp.rs, and the drop of a Zeno in              *)
(* src/src/zeno.rs, which halts its network and then its state.            *)
(***************************************************************************)
EXTENDS Integers, Sequences, Functions

CONSTANTS
    Conn,       \* bound: the connections peers and clients open, each once
    Dummy       \* the connection halt makes to its own server

ASSUME ConnAssumption == Dummy \notin Conn

VARIABLES
    server,     \* start_server: "start", "accept", "poll", "returned"
    commands,   \* Halt commands in the channel to the server thread
    alive,      \* start_server's flag, which the handlers look at
    backlog,    \* connections the listener has not accepted yet
    handler,    \* handle_reader of every connection
    retry,      \* retry_dead_connections: "sleep", "work", "returned"
    alive_state,\* the Network's flag, which the retry thread looks at
    dropping    \* the thread that drops the Zeno

vars == <<server, commands, alive, backlog, handler, retry, alive_state, dropping>>

(***************************************************************************)
(* A handler is reading; it has a message (checking); alive was set: it    *)
(* goes into the call (calling) and may wait there in rx.recv (waiting,    *)
(* with its channel in reqs_without_ors).  opened: in the backlog.         *)
(***************************************************************************)
HandlerState == {"none", "opened", "reading", "checking", "calling", "waiting", "ended"}

Dropping == {"running", "halt", "connect", "joinServer", "joinRetry", "clear", "dropped"}

Init ==
    /\ server = "start"
    /\ commands = 0
    /\ alive = TRUE
    /\ backlog = <<>>
    /\ handler = [c \in Conn \cup {Dummy} |-> "none"]
    /\ retry = "sleep"
    /\ alive_state = TRUE
    /\ dropping = "running"

-----------------------------------------------------------------------------
(* start_server *)

Listens == server \in {"accept", "poll"}

Bind ==
    /\ server = "start"
    /\ server' = "accept"
    /\ UNCHANGED <<commands, alive, backlog, handler, retry, alive_state, dropping>>

Accept ==
    /\ server = "accept" /\ backlog # <<>>
    /\ server' = "poll"
    /\ backlog' = Tail(backlog)
    /\ handler' = [handler EXCEPT ![Head(backlog)] = "reading"]
    /\ UNCHANGED <<commands, alive, retry, alive_state, dropping>>

\* Variant with a bug: the handlers are not told.
Poll_KeepsAlive ==
    /\ server = "poll"
    /\ IF commands = 0
       THEN server' = "accept" /\ UNCHANGED <<commands, alive, backlog, handler>>
       ELSE /\ commands' = commands - 1
            /\ server' = "returned"
            /\ backlog' = <<>>
            /\ handler' = [c \in DOMAIN handler |->
                              IF handler[c] = "opened" THEN "ended" ELSE handler[c]]
            /\ UNCHANGED alive
    /\ UNCHANGED <<retry, alive_state, dropping>>

\* The command is looked for after a connection only.  The listener goes with
\* the thread, and what it has not accepted is reset.
Poll ==
    /\ server = "poll"
    /\ IF commands = 0
       THEN server' = "accept" /\ UNCHANGED <<commands, alive, backlog, handler>>
       ELSE /\ commands' = commands - 1
            /\ alive' = FALSE
            /\ server' = "returned"
            /\ backlog' = <<>>
            /\ handler' = [c \in DOMAIN handler |->
                              IF handler[c] = "opened" THEN "ended" ELSE handler[c]]
    /\ UNCHANGED <<retry, alive_state, dropping>>

-----------------------------------------------------------------------------
(* handle_reader *)

Handler(c, from, to) ==
    /\ handler[c] = from
    /\ handler' = [handler EXCEPT ![c] = to]
    /\ UNCHANGED <<server, commands, alive, backlog, retry, alive_state, dropping>>

\* A message arrives, or the other side closes the connection.
Read(c) == Handler(c, "reading", "checking")
Hangup(c) == Handler(c, "reading", "ended")

CheckAlive(c) == Handler(c, "checking", IF alive THEN "calling" ELSE "ended")

\* The call takes the mutex of the state.  It answers, or registers a channel
\* and waits; it does not look whether the state was halted.
Answers(c) == Handler(c, "calling", "reading")
Registers(c) == c # Dummy /\ Handler(c, "calling", "waiting")

\* Another handler sends what this one waits for.
IsWoken(c) ==
    /\ \E d \in DOMAIN handler \ {c} : handler[d] = "calling"
    /\ Handler(c, "waiting", "reading")

-----------------------------------------------------------------------------
(* retry_dead_connections *)

\* The flag is looked at once per round, before the sleep.
RetryStep ==
    /\ \/ retry = "sleep" /\ retry' = "work"
       \/ retry = "work" /\ retry' = IF alive_state THEN "sleep" ELSE "returned"
    /\ UNCHANGED <<server, commands, alive, backlog, handler, alive_state, dropping>>

-----------------------------------------------------------------------------
(* Zeno::drop: Network::halt, then ZenoState::halt *)

Halt ==
    /\ dropping = "running"
    /\ dropping' = "connect"
    /\ alive_state' = FALSE
    /\ commands' = commands + 1
    /\ UNCHANGED <<server, alive, backlog, handler, retry>>

\* Variant with a bug: nothing wakes the server thread.
ConnectDummy_Never ==
    /\ dropping = "connect"
    /\ dropping' = "joinServer"
    /\ UNCHANGED <<server, commands, alive, backlog, handler, retry, alive_state>>

\* The dummy message: a connection to our own server, refused if it does not
\* listen (yet, or any more).
ConnectDummy ==
    /\ dropping = "connect"
    /\ dropping' = "joinServer"
    /\ IF Listens
       THEN /\ backlog' = Append(backlog, Dummy)
            /\ handler' = [handler EXCEPT ![Dummy] = "opened"]
       ELSE UNCHANGED <<backlog, handler>>
    /\ UNCHANGED <<server, commands, alive, retry, alive_state>>

\* Variant with a bug: the server thread is left to itself.
JoinServer_Detached ==
    /\ dropping = "joinServer"
    /\ dropping' = "joinRetry"
    /\ UNCHANGED <<server, commands, alive, backlog, handler, retry, alive_state>>

JoinServer ==
    /\ dropping = "joinServer" /\ server = "returned"
    /\ dropping' = "joinRetry"
    /\ UNCHANGED <<server, commands, alive, backlog, handler, retry, alive_state>>

JoinRetry ==
    /\ dropping = "joinRetry" /\ retry = "returned"
    /\ dropping' = "clear"
    /\ UNCHANGED <<server, commands, alive, backlog, handler, retry, alive_state>>

\* ZenoState::halt drops every registered channel: the calls return None.
ClearState ==
    /\ dropping = "clear"
    /\ dropping' = "dropped"
    /\ handler' = [c \in DOMAIN handler |->
                      IF handler[c] = "waiting" THEN "reading" ELSE handler[c]]
    /\ UNCHANGED <<server, commands, alive, backlog, retry, alive_state>>

-----------------------------------------------------------------------------
\* A peer or a client connects.
Connect(c) ==
    /\ handler[c] = "none" /\ Listens
    /\ handler' = [handler EXCEPT ![c] = "opened"]
    /\ backlog' = Append(backlog, c)
    /\ UNCHANGED <<server, commands, alive, retry, alive_state, dropping>>

ServerStep == Bind \/ Accept \/ Poll

HandlerStep(c) == CheckAlive(c) \/ Answers(c) \/ Registers(c)

DropStep == ConnectDummy \/ JoinServer \/ JoinRetry \/ ClearState

Next ==
    \/ ServerStep
    \/ RetryStep
    \/ Halt \/ DropStep
    \/ \E c \in Conn \cup {Dummy} :
           HandlerStep(c) \/ Read(c) \/ Hangup(c) \/ IsWoken(c)
    \/ \E c \in Conn : Connect(c)

Spec == Init /\ [][Next]_vars

\* The threads of the process are scheduled; nobody has to connect or to send.
Fairness ==
    /\ WF_vars(ServerStep) /\ WF_vars(RetryStep) /\ WF_vars(DropStep)
    /\ \A c \in Conn \cup {Dummy} : WF_vars(HandlerStep(c))

FairSpec == Spec /\ Fairness

-----------------------------------------------------------------------------
\* The types, and how the threads' states go together: what the listener has
\* yet to accept are the connections opened, the server thread ends on the
\* command and clears alive first, and halt waits for both threads in turn.
TypeOK ==
    /\ server \in {"start", "accept", "poll", "returned"}
    /\ commands \in 0 .. 1 /\ alive = (server # "returned")
    /\ handler \in [Conn \cup {Dummy} -> HandlerState]
    /\ backlog \in Seq(Conn \cup {Dummy})
    /\ Range(backlog) = {c \in DOMAIN handler : handler[c] = "opened"}
    /\ retry \in {"sleep", "work", "returned"}
    /\ retry = "returned" => ~alive_state
    /\ dropping \in Dropping
    /\ dropping \in {"clear", "dropped"} => {server, retry} = {"returned"}

\* Once the network is halted no message that is read leads to a call: halt
\* returns when the server thread has, and that has cleared alive before
\* (start_server 108, halt 415-417).
NoCallAfterHalt ==
    [][\A c \in Conn \cup {Dummy} :
          handler[c] = "checking" /\ handler'[c] = "calling"
              => dropping \notin {"joinRetry", "clear", "dropped"}]_vars

\* "send dummy message to wake server thread up, in case": halt comes back
\* when a Zeno is dropped whose server listens (tcp.rs 408-418).
HaltReturnsIfListening == dropping = "connect" /\ Listens ~> dropping = "dropped"
=============================================================================
