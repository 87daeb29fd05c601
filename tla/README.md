# Verification of BasementDB's Zeno

BasementDB (`src/`) is a Rust implementation of Zeno, a replicated state machine
for N servers of which f may be faulty. A client sends an operation to all the
servers. The primary of the current view gives it a sequence number and sends
everybody an *ordered request* (OR); a server executes the operation when it has
the request, its OR, and everything ordered before. A *weak* operation is
answered at once and accepted from f + 1 servers; a *strong* one is answered
only when the server holds a *commit certificate*, the commits of 2f other
servers for the same OR, and accepted from 2f + 1. A primary that does not
order a request in time is accused, and f + 1 accusations change the view.

This directory holds TLA+ modules of the protocol as the code implements it,
TLC runs of small deployments, and TLAPS proofs of the safety properties
for deployments of every size. Line numbers refer to `src/src/zeno.rs` unless a
file is named.

## Inventory

| component | state | operations |
|---|---|---|
| server core (`zeno.rs`) | `ZenoMutState` behind one mutex: `n`, `v`, `h`, the log `all_executed_reqs`, cached `replies`, channels of waiting threads, queues of early ORs and commits, `last_cc` | a handler per message (694-740), `check_and_execute_request` (319-420) |
| request threads (`zeno.rs`) | one thread per connection; blocked on a channel for its OR (232) or for commits (399) | woken by other handlers, take the mutex again |
| timer and view change (`zeno.rs`) | the stopper of the timer, accusations, collected view changes, `view_state` | start, stop, expiry (172-200), accusation, view change, new view (513-602) |
| client library (`zeno_client.rs`) | next timestamp, one request at a time | `request`: send to all, count equal answers, repeat (45-74) |
| network, sending (`tcp.rs`) | the map of connections and its mutex, a connection per peer with a mutex of its own, a retry thread | `send`, `send_to_all`, `send_to_all_and_recv` (260-404), `retry_dead_connections` (179-210) |
| network, receiving (`tcp.rs`) | the listener's thread, `alive`, a thread per connection | `start_server` (76-114), `handle_reader` (116-137), `halt` (406-418) |
| messages, digests, signatures, serialization | none | pure functions |
| command line, test and benchmark scripts | none | start servers, run tests |

Servers interact only by messages, sent by one thread that drains a channel
(159-170), so that a handler never waits for the network; each incoming message
is handled in the thread of its connection. Inside a server, threads interact
through the mutex and through channels: the handler of an OR or a commit hands
it to the thread that waits for it. The client talks to all servers at once.

What is hard about it:

* The handler of a request takes the mutex up to four times: to look at the
  request, when it has its OR, when it has its certificate, and to cache the
  reply. Everything may change in between.
* Requests, ORs and commits of one operation arrive at a server in any order,
  and those of different operations interleave; what comes early is queued and
  must be found by exactly one thread, later.
* Clients retransmit, so that several threads of a server handle the same
  request; timers fire while the OR they waited for is being processed.
* A server leaves a view while commits of that view are still under way, and
  requests are ordered again, in other places, by the next primary.
* Messages are lost with their connections; servers stop; some are faulty.
* The retry thread, the threads of the current round of a client and those an
  earlier round left behind contend for the mutexes of the map and of each
  connection, some of which are held while the thread waits for a peer.
* A server is dropped while its threads start, accept, read, call and wait.

What makes each part correct:

* *core*: strong answers of all servers and views come from one history; a
  certificate rests on executions; each request is executed once and in its
  client's order; a primary imposes one order on its view; no handler panics
  while it holds the mutex;
* *request threads*: nobody sleeps on a message that already came; the cached
  reply is the one for the request asked;
* *view change*: strong answers survive it; accusations count for their view;
* *client*: the result it accepts is that of its request; every request is
  eventually accepted if enough servers can talk to each other;
* *network*: messages to a peer keep their order while a connection lasts; only
  dead connections are replaced; a response goes to the thread that asked for
  it; no peer can hold up the sending thread for good; `halt` comes back and
  nothing is handled afterwards.

## Modules

| module | what it is |
|---|---|
| `ZenoMessages` | parameters, their assumptions, message types (`message.rs`) |
| `ZenoState` | a server's state and the functions of `zeno.rs` on it |
| `Zeno` | the servers: one action per handler and per thread step, the clients' choice of results, `Spec`, fairness |
| `ZenoProperties` | every property of `Zeno` |
| `StrongLog` | abstract: what clients may rely on of strong requests |
| `ZenoFaulty` | `Zeno` with faulty servers that accuse and announce new views at will |
| `Connections` | the connections of a `Network`, its I/O threads and the retry thread |
| `ZenoClient` | a client over `Connections`: rounds, counting, early return |
| `Broadcast` | a server's sending thread over `Connections` |
| `Shutdown` | listener, connection threads, retry thread and the drop of a `Zeno` |
| `ZenoStateProofs` | lemmas on the operators of `ZenoState`, on folds and on `apply_new_view` |
| `ZenoProofs` | the inductive invariant `IInv` of `Zeno`: certificates and strong answers |
| `ZenoOrderProofs` | the second invariant, `OrderInv`: order of execution, panics, wakeups; `Zeno` implements `StrongLog` |
| `ZenoFaultyProofs` | `ZenoFaulty` keeps the invariants of both, and what follows |
| `ConnectionsProofs` | what the steps of `Connections` keep, whoever uses them |
| `ZenoClientProofs`, `BroadcastProofs`, `ShutdownProofs` | invariants and theorems of these modules |
| `MC*` | one instance each for TLC |

`ZenoProperties` extends `Zeno`, which extends `ZenoState`, which extends
`ZenoMessages`; `ZenoFaulty` reuses the actions of `Zeno` for the correct
servers. `ZenoProperties` instantiates `StrongLog` with a refinement mapping.
`ZenoClient` and `Broadcast` both extend `Connections`, with the threads of
`send_to_all_and_recv` and of `send` and `send_to_all`; `Shutdown` stands alone.
Proof modules extend the module they are about; those of `Zeno` extend one
another in the order of the table.
The two halves meet at the message: `Zeno` assumes of the network no more than
that a message is handled at most once, in any order, and the client's rounds
assume of a correct server that its answer is the one to the request.
Definitions have the names of the functions and fields they model.
Definitions with a suffix, such as `LastT_Previous`, are variants with a plausible
bug; no specification uses them, they show that a property notices the bug.

### How state and actions correspond to the code

`zs[q]` is the `mut_state` of server q. Beside the fields of `ZenoMutState` it
has `thr[m][k]`, the thread that handles the k-th transmission of request m to
reach q, and `poisoned`, which is set when a thread panics with the mutex held:
from then on every `lock().unwrap()` of that server panics too, so that it does
nothing more. Threads panic at the assertions on the length of the log (255,
365), on an OR ahead of its turn (334-336), and when the log is sliced beyond
its end (526).

| thread at `pc` | place in the code |
|---|---|
| `new` | the transmission has not reached the server |
| `awaitOr` | `rx.recv()`, line 232 |
| `gotOr` | between 233 and the lock in 234 |
| `awaitCommit` | the loop 398-407, `cert` is `commit_cert` |
| `reply` | between the return of `on_request_message` and the lock in 703 |
| `done` | `reply_opt` was returned, `None` if `or = NoOr` |

Each action of `Zeno` is what one thread does from one acquisition of the mutex
to the release: the four cases of `on_request_message` are `AnswerFromCache`,
`ExecuteQueued`, `OrderRequest` and `AwaitOr`; `ExecuteReceived` follows 233,
`StoreCertificate` 409, `CacheReply` 703. What a thread does without the mutex
is folded into the neighbouring action: sending the commit (393-397) into the
execution, as the channel that commits are sent to is registered before the
mutex is dropped; and reading commits from the channel (398-407) into the
arrival of the commit, as the channel only buffers. A map entry of a channel
that is overwritten or removed drops its sender, which ends the thread behind
it (`DropOrSender`, `DropCommitSender`, `Halted`).

A message in flight is an element of its receiver's inbox. It is handled at
most once, in any order with the others, or never: each server has one
connection to each peer, but connections are re-opened, and each has its own
thread; a message on a broken connection is lost. Inboxes are sets: two
identical messages in flight are one, and the same message may be sent again
after it was handled.

`Connections` has a `TCPClient` per name in `Slot`, so that those the retry
thread takes off the map live on while a thread holds a reference:

| variable | in `tcp.rs` |
|---|---|
| `psc` | the mutex of `peer_send_clients`, where it is held across steps (the scan, 194-200) |
| `current` | which `TCPClient` the map has for a peer |
| `tcp[p][s]` | the `TCPClient`: `owner` of its mutex, `stream`, whether the connection is `up`, and what is under way on it |
| `job` | a thread of `send_to_all` or `send_to_all_and_recv`: it wants the mutex (`lock`), is blocked writing (`write`) or waits for a response (`recv`); `result` is what it puts on the channel |
| `retry` | `retry_dead_connections`: asleep, scanning the i-th connection, connecting |

A thread writes in the step that gives it the mutex when the message fits, and
fails in that step when the stream is gone or the connection broken (a write to
a broken connection may also go unnoticed, and the message is lost). A write
that does not fit ends by the write timeout, a read never ends by the read
timeout, which `read_string_from_socket` takes for a reason to read on (35).
`ZenoClient` adds the loop of `Client::request`: a thread per server and round,
a return at the first quorum of equal data, which leaves threads behind, or a
new round when all have ended. `Broadcast` adds `send_from_channel`, which takes
the next message when all threads of the one before have ended.

`Shutdown` has a program counter for the listener's thread, for each
connection's thread, for the retry thread and for the thread that drops the
`Zeno`: command, connection to itself, two joins, and `ZenoState::halt`.

The client is part of `Zeno` in as much as it decides what reaches the servers:
it issues request t when it has accepted the result of t - 1 (`Issued`), and
accepts a result that enough servers returned (`AcceptedResults`). The code
counts per round of transmissions, as `ZenoClient` does. `Zeno` accumulates the
answers of all rounds, which allows more acceptances; the one finding that
depends on it, `ClientGetsOwnResult`, has all its answers in one round.

### Abstractions

* Digests are collision free: the digest of a request is the request, `h` is
  the sequence of the requests it was chained from. `h_n == or.h` then compares
  whole histories, as hash chains do.
* Signatures cannot be forged. A message names its maker.
* The application is deterministic, so that an answer is determined by the
  history it was computed on. A result is that history. `AcceptedResults`
  thereby tells apart results that a particular application may not; the
  finding of run stale_reply is one where they differ in the applications of
  the tests too (a counter).
* `executed_reqs`, which indexes the log by client, is computed from the log;
  `new_views` is never used in the code.
* In `Connections`, opening a connection succeeds if and only if the peer
  listens; the peers that are `Late` do so from the first retry on. A message is
  a whole: neither framing nor partial writes are modelled.
* Integers do not overflow: `n` counts executed requests, `v` view changes.
* `pubkeys[v % len]` uses the vector as given; nothing assumes that it lists
  all the servers or that they are distinct.

## Runs

All bounds are explicit. In the runs of `Zeno`, `MaxTries` and `Tries[q][m]`
bound how often request m reaches server q; `Live` are the servers that run, the
others are silent; `Stoppable` are those that may be halted. In the runs of
`Connections`, `Slot` bounds how many connections to a peer are in use at a time,
`Capacity` what a connection takes until its peer reads, `MaxBreaks` how many
break, and `MaxRequests` or `Targets` what is sent; in `shutdown`, `Conn` are the
connections others open. With a bounded number of transmissions the servers'
behaviours end, so that deadlock is not checked there, nor where everything has
been dropped (`shutdown`), nor in `silent`, which gets stuck. In client, rounds
and broadcast the retry thread runs forever and deadlock is checked.

| run | instance | shows |
|---|---|---|
| failover | N = 3, f = 0, primary down, 3 requests of 2 clients, one transmitted 3 times, a server may be dropped | `ExactlyOnce`, `NoLostWakeup`, `NoPanic`, `OneOrderPerView`, `AtMostOneViewChange` |
| view_change | N = 4, f = 1, 3 live, a strong and a weak request, two primaries | `TypeOK`, `StrongReplyQuorum`, `NoStrandedCommit`, `Agreement`, `ImplementsStrongLog` |
| liveness | N = 4, f = 1, 3 live, a weak request and two strong ones, fair | `EveryRequestAccepted` |
| faulty | N = 4, f = 1, faulty primary of view 1, two strong requests | `CertificatesRestOnExecution`, `StrongReplyQuorum`, `OnlyWithCorrectAccusation` |
| client | N = 4, f = 1, one server faulty, a weak request and a strong one | `ResultsCorrect`, `OwnResponse` |
| rounds | N = 4, f = 1, one server down, one late, a connection breaks, fair | `EveryRequestReturns`, `ReplacesOnlyDead`, `ConnectionsTypeOK` |
| broadcast | 2 peers, one late, one that never reads, a connection breaks, 3 messages, fair | `OrderKept`, `EveryMessageIsTaken` |
| shutdown | 3 connections and the dummy, fair | `TypeOK`, `HaltReturnsIfListening`, `NoCallAfterHalt` |
| stale_reply | N = 4, f = 1, 3 live, two strong requests, the second sent twice | violation of `ClientGetsOwnResult` |
| queue | N = 3, f = 0, two requests, ordered differently in two views | violation of `QueuedRequestRuns` |
| quorum | N = 3, f = 0, two strong requests, two primaries | violation of `Agreement` |
| silent | N = 4, f = 1, one server that never answers, two weak requests, fair | violation of `EveryRequestReturns` |

Why the bounds are enough for the cases that matter:

* failover: with f = 0 a single accusation changes the view and certificates
  need no commits, so that two running servers are enough for the races of
  threads of one server: clobbered channels, ORs ahead of their turn,
  retransmissions in each state of the first transmission, timers, and a server
  dropped while threads wait. The servers leave view 0 at different times, and
  the ORs of the new primary reach a server before, while and after it leaves.
* view_change: with one of four servers silent a certificate needs the commits
  of both others, so that a lost commit stops a request. `Scenario`, part of the
  specification of the run, restricts it: the old primary gets the strong
  request when the timers run, the new one orders it again with another request
  before or after it; ViewChanges and FillHoles, which have no effect on a server
  that does not announce a view, are lost. All orders of what remains are
  explored: commits of both views mix at the servers. faulty and queue have
  scenarios of the same kind.
* liveness: every order of ORs, requests and commits of three requests,
  including a second OR before the first and commits before their OR.
* faulty: the servers hold the certificate of a first request when a second one
  is ordered, so that the ViewChanges carry a certificate and an OR beyond it,
  and a NewView wakes a thread with that OR and moves its server to view 1 at
  once: the thread must give up without having committed. The server is moved
  back into view 1 again and again, and two accusations are needed, of which the
  faulty server has one and repeats it. `ZenoFaulty` assumes that a faulty
  primary passes on ViewChanges it was sent and one of its own.
* client: the weak request returns after two equal answers and leaves up to two
  threads behind, each with the mutex of its connection; the second request's
  threads queue up behind them, at the faulty server too.
* rounds: with one server down a strong request needs all the others, one of
  which is connected by the retry thread only, and one connection breaks before,
  while or after it is used: a second round is needed, and the retry thread scans
  at every moment of the first. Three names per peer are enough for the one in
  the map and for what was taken off it.
* broadcast: a connection takes two messages until its peer reads, so that the
  third one to the peer that never reads blocks.
* shutdown: three connections fill the backlog before and after the dummy
  connection, and one call can wake another.
* The violations need only to be real: each is a behaviour of the specification
  (for queue, of `Spec` restricted to a scenario).

### Fairness

`FairSpec` asks of each live server that it takes steps as long as it can:
weak fairness of `Step(q)`. Threads of a server are scheduled by the operating
system and hold the mutex for bounded times; nothing in the code can postpone
a handler forever. A server has finitely many steps to take, so that none of
them is postponed forever under this fairness either. That messages in flight
are delivered is an assumption of the liveness run alone: the connections
between the live servers stay up. A timer may expire at any moment, before or
after the OR comes; in the liveness run each request is sent once, so that none
is started.

Over `Connections` each thread has fairness of its own, as threads of a round
must not starve each other. It is strong fairness where a thread waits for a
mutex that others take and release. That is more than `std::sync::Mutex`
promises, but what it excludes is one thread that finds the mutex taken at every
attempt forever; the retry thread holds the map's mutex for a scan and then
sleeps for a second (184-186), and a connection's mutex is contended by the
retry thread and by one thread per request in progress. `WriteFails` is fair because of the
write timeout; there is no fairness of a read timeout, which does not end a
read. Correct servers that are not silent answer what they read (`Answer`);
peers that receive broadcasts need not read, and no connection needs to be
opened, closed or used by anyone in `Shutdown`.

## What the code does not do

Four statements of comments, tests and assertions fail; each has a run with a
counterexample.

1. stale_reply: a strong request that is retransmitted while it collects commits
   is answered with the reply to the client's *previous* request (208-211), and
   the client counts that reply for the new one, as it compares only the data.
   If a round of transmissions fails on every connection after the servers
   executed the request (the client's connections break), the answers of the
   next round are all stale, and the client takes the old result.
2. queue: ORs of a view that was left stay in `pending_ors`. One of them in front
   hides the OR that is due (217, 369): requests hang until the stale number
   passes, which it never does once it is smaller than `n + 1`.
3. quorum: `start_zeno` asserts 3f < N (752). A certificate consists of 2f + 1
   servers whatever N is. With N > 4f + 1, for instance three servers with f = 0,
   certificates of two views need not share a server, and two strong requests
   are answered from diverging histories without any fault. The theorem
   `StrongAgreement` shows that N <= 4f + 1 is enough.
4. silent: one server that accepts connections and never answers stops a client,
   which is meant to tolerate f of them. A request returns as soon as enough
   servers agree and leaves a thread behind that waits for the silent server's
   response with the mutex of its connection, for good, as a read timeout is
   retried (`tcp.rs` 35). The retry thread then locks the map and waits for that
   connection (195-200), and the next request waits for the map (373).

Four more facts that reading and modelling make plain: `view_state` never becomes active
again, so that a server takes part in one view change and no correct server
ever announces a new view (`AtMostOneViewChange`, also a theorem); a
FillHole asks its addressee to send the missing ORs to the addressee, so that
it is never answered; `last_cc`, documented as the "highest commit certificate
we've received" (88), is the one whose thread got the mutex last (411), which
may be lower, and a ViewChange then reports more ORs than it has to; and `halt`
before the listener is bound waits until somebody else connects, as its own
connection is refused (hence the premise of `HaltReturnsIfListening`).

## Proofs

The theorems hold for every value of the constants that satisfies the named
ASSUMEs of the modules, which TLC evaluates in every run: for `Zeno`, every
finite set of servers, vector of keys, f with 3f < N, set of requests, bound on
transmissions, and set of live and stoppable servers; for the network, any
peers, silent, late, absent or faulty ones among them, any names for
connections, capacity and number of breaks, any requests or messages; for
`ZenoFaulty`, every set of at most f faulty servers. Five theorems make a further
assumption, which the table shows.

| module | theorem | says |
|---|---|---|
| `ZenoProofs` | `Invariance` | `IInv` and `Calm` always hold |
| | `TypeCorrect` | `TypeOK` |
| | `OneViewChange` | `AtMostOneViewChange` |
| | `CertificatesSound` | `CertificatesRestOnExecution` |
| | `StrongQuorum` | `StrongReplyQuorum` |
| | `StrongAgreement` | if N <= 4f + 1, `Agreement` |
| `ZenoOrderProofs` | `OrderInvariance` | `OrderInv` and `ReportInv` always hold |
| | `NeverPanics` | `NoPanic` |
| | `ExecutesInOrder` | `ExactlyOnce` |
| | `ViewsOrderOnce` | `OneOrderPerView` |
| | `NoWakeupLost` | `NoLostWakeup` |
| | `NoCommitStranded` | `NoStrandedCommit` |
| | `OneStrongLog` | if N <= 4f + 1, `ImplementsStrongLog` |
| `ZenoFaultyProofs` | `FaultyInvariance` | `IInv`, `OrderInv` and `ReportInv` always hold under `FaultySpec` |
| | `FaultyTypes`, `FaultyCertificates` | `TypeOK`, `CertificatesRestOnExecution` |
| | `FaultyStrongQuorum` | `StrongReplyQuorum` |
| | `FaultyAgreement`, `FaultyOneStrongLog` | if N <= 4f + 1, `Agreement`, `ImplementsStrongLog` |
| | `FaultyExecutesInOrder` | `ExactlyOnce` |
| | `FaultyNoWakeupLost`, `FaultyNoCommitStranded` | `NoLostWakeup`, `NoStrandedCommit` |
| | `FaultyViewsOrderOnce` | `OneOrderPerView` |
| | `FaultyPanics` | a server panics, if at all, where it slices its log |
| | `AccusationInvariance` | `AccusationInv` always holds |
| | `NoViewChangeByFaulty` | `OnlyWithCorrectAccusation` |
| `ZenoClientProofs` | `Invariance` | `IInv` of the client always holds |
| | `MutexesHold`, `DeadReplaced` | `ConnectionsTypeOK`, `ReplacesOnlyDead` |
| | `ResponsesOwned` | `OwnResponse` |
| | `OwnResultReturned` | if at most f servers are faulty, `ResultsCorrect` |
| `BroadcastProofs` | `Invariance` | `IInv` of the sending thread always holds |
| | `MutexesHold`, `DeadReplaced` | `ConnectionsTypeOK`, `ReplacesOnlyDead` |
| | `OrderIsKept` | `OrderKept` |
| `ShutdownProofs` | `Invariance` | `IInv` of the shutdown always holds |
| | `TypeCorrect`, `HaltEndsCalls` | `TypeOK`, `NoCallAfterHalt` |

So every safety property that a passing run checks is also a theorem. Those of
`ZenoFaultyProofs` are about `FaultySpec`, the others about the `Spec` of the
module they are about. That N <= 4f + 1 is needed is what run quorum shows; the code asserts
only 3f < N.

### Certificates and strong answers (`ZenoProofs`)

`Agreement` is far from inductive: it speaks of answers, and
an answer is made of commits that were collected earlier, each sent at an
execution earlier still, and may then go round through the reply cache. `IInv`
says where each of them comes from:

* `TypeOK`;
* the log of each server is the history its ORs chain (`LogOK`): the history in
  `h` of every OR in `all_executed_reqs` is a prefix of the server's `h`.
  That is what the history check of `check_and_execute_request` (338-351) gives;
* every commit in flight, in `pending_commits`, in a thread's `cert`
  or in `last_cc` is by another server that has its OR in its log; the commits
  in a `cert` are for the thread's own OR;
* an OR in a cached reply or in the hands of a thread that replies is, if it is
  strong, *backed*: more than 2f servers have it in their logs;
* ViewChanges and NewViews in flight or collected carry only such commits
  (`ViewMsgsOK`). They need not be about a log of the receiver, only of somebody.

Logs only grow, so that what rests on a log stays true. A step lemma per action
proves that it keeps `IInv`; most actions change one
server's state, whose conditions are collected in `ServerStep` and `RunStep`
(for the three actions that execute). When a thread stores its certificate,
the 2f committers and the server itself make the OR
backed. Two backed ORs have a common executor if N <= 4f + 1 (`QuorumsMeet`),
whose history both of their histories are prefixes of: `Agreement`.

Nothing in `IInv` bounds views: each step of a server keeps it, whatever messages
it is sent (`StepKeeps`), so that it is good for `FaultySpec` too. What only holds
of servers on their own is a second invariant, `Calm`: a
server is in view 0 or, once it left it, in view 1 with `view_state` changing, its
`last_cc` is of its own log, and no NewView is in flight. `AtMostOneViewChange`
and `NoPanic` need it: the log is sliced after `last_cc` (526), which lies in
the log unless a NewView brought it.

`apply_new_view` runs over the ViewChanges of a NewView and, for each, over its
ORs. What two nested `FoldLeft`s compute for every length cannot be stated as an
induction theorem the provers can use, so `ZenoStateProofs` proves what they
*keep*: from the well-foundedness of < on Nat, that a set with 0 that is closed
under + 1 contains Nat (`SetInduction`), and from that, with the definition of
`FoldLeft` unfolded, that a fold whose steps stay in a set ends in it (`FoldOrs`,
`FoldViewChanges`). The sets are those of the states that lie between the one
before and the one after: the log, the replies and the threads that do not wait
for an OR are untouched, `pending_ors` gained only reported ORs, a woken
thread has one of them or what was queued, `last_cc` is an old or a reported one
(`apply_new_viewEffect`).

### Order, panics and wakeups (`ZenoOrderProofs`)

Whether a handler panics depends on the numbers of ORs that were made at another
server, in flight for any time, queued, and handed over. `OrderInv` adds to
`IInv`:

* the k-th OR of a log orders the k-th request of the server's history, carries
  a history of length k and a number of at most k - 1; the log has n + 1 entries
  and reaches as far as `last_cc` (`OrderlyLog`). `order_message` numbers by the
  log, so that numbers and histories can only come apart if this fails;
* every OR in a log, in `pending_ors`, in flight or handed over was *made*
  (`Made`): the primary of its view has it in its own log, and the
  history it carries is in each client's order and of requests somebody received. The
  primary executes in the step in which it orders (`OrderRequest`), before the
  OR is sent: this is why two servers that execute in one view follow one
  history, its primary's;
* an OR in the hands of a woken thread is at most the next one. It may be
  behind by the time the thread has the mutex, which ends the thread, but never
  ahead, which would panic;
* the channels (`Waits`): a registered channel belongs to a thread that waits,
  and a thread that lacks commits is the registered one with none of its
  commits left in the queue; the queue has one OR per number, and nobody waits
  for the one that is due (`Queue`);
* a server panics, if at all, where it slices its log (`PanicsOnSlice`);
* a strong reply in the cache is one a thread gave.

`ReportInv` says of the ORs that ViewChanges and NewViews report what `OrderInv`
says of those in flight: they were made. A server that adopts a view therefore
queues and hands over nothing that `OrderInv` does not allow.

`HasLast` is in the invariant for the prover's sake: that a client with
requests in the log has a *last* one needs an induction over the log, which
the steps of the system do, one execution at a time. `InOrder` states
timestamp order by positions for the same reason.

### The abstract log (`StrongLog`, `ZenoOrderProofs`)

`Agreement` speaks of one state. `StrongLog` says
what a client sees over time: an answer is never taken back, it is computed from
a history of requests that somebody sent, none of them twice, and is comparable
with every answer given before. The refinement mapping takes the histories of
the threads that answer strong requests, also of those that answer from the
reply cache, and the requests that reached a server.

The proof of `OneStrongLog` has two halves. `OrderStepKeeps` shows of every
step what is *visible* of it (`Visible`): nothing, the arrival of one request,
or one new strong answer; never both and no answer gone. `AnswersFitLog` shows from both invariants
that an answer's history is one the log may give: its OR is in some log, hence
made, hence a history of distinct received requests, and comparable with the others.

### Beside faulty servers (`ZenoFaultyProofs`)

The faulty servers of `ZenoFaulty` only forge what is theirs: accusations, and
announcements that carry ViewChanges they were sent or an empty one. The former
change nothing the three invariants speak of; the latter keep them since what may be
passed on satisfies `ViewMsgsOK` and `ReportInv` where it was found. Correct servers'
steps keep them by `StepKeeps` and `OrderStepKeeps`, and the theorems that need
no more follow as they do for `Spec`, in particular the refinement of `StrongLog`.

`NoPanic` does not follow, and is false: a NewView may bring a server
a certificate for an OR beyond its own log, and when the server then leaves that view
it slices the log behind its end (524-526) with the mutex held. With
N = 5 and f = 1, TLC finds a behaviour of 26 states (it is not among the runs):
three servers certify a request, two of them leave view 0, and the faulty
primary of view 1 announces that view to the fifth one, which has executed
nothing. `FaultyPanics` says that this is the only place where a thread panics.

`AccusationInv` is an invariant of accusations alone: whoever is counted anywhere,
or is on the way to be, is one of the `Accusers`, the faulty servers and
the correct ones that count themselves, and a server that is not active counts
more than f. That the accusations of a view that was left stay is harmless for
this: a correct server that accused once counts itself forever. It needs of the
servers' steps only what `Accusing` says, which `StepKeeps` gives too. More
than f servers among at most f faulty ones and `Accusers` leave a correct one.

### The network, the client and the shutdown

`ConnectionsProofs` has one invariant for the map, the connections and the
threads (`ConnectionsInv`): who owns a connection's mutex is writing or reading on it, and
nobody else is; what the scan found dead stays dead and unused until it is
replaced, though the retry thread gives the mutexes up meanwhile; the map's mutex is held across steps by
the scan only. Every step of the module keeps it whatever is sent and answered,
and the two modules over it add their own part:

* `ZenoClient`: on a connection to a correct server there is nothing under way,
  or, while a thread owns it, exactly that thread's request or its answer
  (`Exchanges`). It is what makes the next response on the connection
  the owner's, although threads of older requests still wait on it. With it, results from
  correct servers are right, and a quorum of f + 1 or 2f + 1 equal results has a correct
  server in it if at most f are faulty (`AcceptedIsOwn`).
* `Broadcast`: the threads at work all send the current message, no connection holds
  a later one, and it holds the current one only when the thread for this peer
  has ended.
* `Shutdown`: the backlog has no connection twice, one command is sent, one
  dummy connection is made, and the listener has returned, after clearing
  `alive`, before the retry thread is joined.

### Only model-checked

* Liveness, which is out of the prover's reach, as is ENABLED:
  `EveryRequestAccepted`, `EveryRequestReturns`, `EveryMessageIsTaken`,
  `HaltReturnsIfListening`.
* The four violations, which are behaviours TLC found.

No module that is proved about has a RECURSIVE operator.

## Not modelled

* How messages are framed: `read_until` and `write` on null-terminated strings,
  and a write that times out in the middle of a message (`tcp.rs` 21-74). The
  hazards are listed in `PROJECT.json`.
* A thread that calls into the state after it was halted and registers a channel
  there: `zs.alive` is never read, so that such a thread waits until the process
  ends. `Shutdown` has the step; no promise of the code is about it.
* Wrong hashes, forged sequence numbers and equivocating primaries; clients
  that reuse timestamps. A server that may send any of these, with four live
  servers, is beyond what TLC can explore in minutes, even restricted to a
  scenario.
* Requests that a FillHole's answer would send along: they go to the sender
  itself, which has no connection to itself.
* Real time: a timer may expire at any moment.
* Signatures, serialization, the command line program and scripts.

## Plan

Done: all modules, runs and theorems above. What would come next:

1. Faulty servers that send ORs and commits of their own: `ViewMsgsOK` and
   `CommitOK` would have to speak of commits by correct servers only, and a
   certificate would rest on f + 1 of them.
2. A run of the panic of a lagging server above, next to those of the other
   violations.
3. Liveness across a view change with retransmission.
