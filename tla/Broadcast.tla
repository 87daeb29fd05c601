------------------------------ MODULE Broadcast -------------------------------
(***************************************************************************)
(* How a server sends (send_from_channel in src/src/zeno.rs, on top of     *)
(* src/src/tcp.rs): one thread takes the messages from network_channel in  *)
(* the order in which the handlers put them there, and sends each to one   *)
(* peer or to all.  A message whose connection is dead is lost.            *)
(***************************************************************************)
EXTENDS Connections

CONSTANTS
    Targets,    \* Targets[i]: who the i-th message of the channel goes to
    Stuck       \* peers that accept a connection and never read

Messages == DOMAIN Targets

ASSUME BroadcastAssumption ==
    /\ Targets \in Seq(SUBSET Peer)
    /\ Stuck \subseteq Peer
    /\ Job = Messages \X Peer
    /\ ~Receives

VARIABLES
    next,       \* the message the sending thread is at
    pc          \* "take" it from the channel, or "wait" for it to be sent

vars == <<connections, next, pc>>

Init ==
    /\ ConnectionsInit
    /\ next = 1
    /\ pc = "take"

\* send or send_to_all: a thread for every target.  For a single target this
\* is the sending thread itself.
Take ==
    /\ pc = "take" /\ next \in Messages
    /\ psc = Nothing
    /\ job' = [j \in Job |-> IF j[1] = next /\ j[2] \in Targets[next]
                             THEN Spawned(j[2], next) ELSE job[j]]
    /\ pc' = "wait"
    /\ UNCHANGED <<psc, current, tcp, retry, breaks, next>>

\* Variant with a bug: the threads are left to themselves.
IsSent_Always(i) == i \in Messages

\* The channel of results is drained: every thread has ended.
IsSent(i) == \A p \in Targets[i] : job[<<i, p>>].pc = "done"

SendEnds ==
    /\ pc = "wait" /\ IsSent(next)
    /\ next' = next + 1
    /\ pc' = "take"
    /\ UNCHANGED connections

\* A peer handles the next message it was sent on a connection.
Handle(p, s) ==
    /\ p \notin Stuck
    /\ Reads(p, s, <<>>)
    /\ UNCHANGED <<next, pc>>

IO(j) == JobStep(j) /\ UNCHANGED <<next, pc>>

Reconnecting == RetryStep /\ UNCHANGED <<next, pc>>

Next ==
    \/ Take \/ SendEnds
    \/ Reconnecting
    \/ \E j \in Job : IO(j)
    \/ \E p \in Peer, s \in Slot :
        \/ Handle(p, s)
        \/ Break(p, s) /\ UNCHANGED <<next, pc>>

Spec == Init /\ [][Next]_vars

\* Every thread is scheduled and gets a mutex it waits for in the end.  What
\* the peers do is their affair.
Fairness ==
    /\ SF_vars(Take) /\ WF_vars(SendEnds)
    /\ SF_vars(Reconnecting)
    /\ \A j \in Job : SF_vars(IO(j))

FairSpec == Spec /\ Fairness

-----------------------------------------------------------------------------
\* The messages on their way on one connection are in the order of the
\* channel: the primary's ordered requests do not overtake one another as
\* long as a connection lasts, since a message is taken only when all the
\* threads of the one before have ended (send_to_all 362-366).
OrderKept ==
    \A p \in Peer, s \in Slot :
        LET out == tcp[p][s].out
        IN  \A i, k \in DOMAIN out : i < k => out[i] < out[k]

\* A peer that does not read holds the sending thread, and with it the
\* messages to everybody else, for no longer than the write timeout.
EveryMessageIsTaken == <>(next > Len(Targets))
=============================================================================
