---------------------------- MODULE ZenoMessages ----------------------------
(***************************************************************************)
(* The parameters of a Zeno deployment and the messages its replicas       *)
(* exchange (src/src/message.rs).                                          *)
(*                                                                         *)
(* Digests are collision free here: the digest of a request (d_req) is the *)
(* request itself, and the hash chain digest h, d((h_(n-1), d_req)), is    *)
(* the sequence of the requests it was chained from.  Signatures are not   *)
(* modelled: a message that carries the key of a replica was made by it.   *)
(***************************************************************************)
EXTENDS Integers, Sequences, FiniteSets

CONSTANTS
    Replica,        \* public keys of the servers (keys of pubkeys_to_url)
    Pubkeys,        \* the vector `pubkeys`: the order in which they lead
    max_failures,   \* the number f of faulty servers to tolerate
    Request,        \* the requests the clients issue, see RequestMessage
    MaxTries,       \* bound: transmissions of a request to one server
    NoOr            \* stands for "no OrderedRequest": Option::None

\* start_zeno asserts max_failures * 3 < pubkeys_to_url.len().
Assert3f(N, f) == f * 3 < N

ASSUME ReplicaAssumption ==
    /\ IsFiniteSet(Replica)
    /\ Pubkeys \in Seq(Replica) /\ Len(Pubkeys) > 0

ASSUME FailureAssumption ==
    max_failures \in Nat /\ Assert3f(Cardinality(Replica), max_failures)

\* The operation `o` of a request is determined by its client and timestamp.
ASSUME RequestAssumption ==
    \A m \in Request : /\ m = [c |-> m.c, t |-> m.t, s |-> m.s]
                       /\ m.t \in Nat /\ m.s \in BOOLEAN

ASSUME TriesAssumption == MaxTries \in Nat

Client == {m.c : m \in Request}

\* The k-th transmission of a request to a server.
Copy == 1 .. MaxTries

View == Nat

\* d_req identifies the request, so that the ordered request carries it.
OrderedRequest ==
    [v : View, n : Nat, h : Seq(Request), d_req : Request, i : Replica]

ASSUME NoOrAssumption == NoOr \notin OrderedRequest

Commit == [or : OrderedRequest, j : Replica]

\* or_n is the sequence number that was ahead of n + 1; i is the addressee.
FillHole == [v : View, n : Int, or_n : Nat, i : Replica]

IHateThePrimary == [v : View, i : Replica]

\* A vector of commits for one ordered request, kept sorted by signer.
CommitCertificate == SUBSET Commit

ViewChange ==
    [v : View, cc : CommitCertificate, o : Seq(OrderedRequest), i : Replica]

NewView == [v : View, p : Seq(ViewChange), i : Replica]

\* The sequence number a commit certificate vouches for, -1 when it is empty.
CcN(cc) == IF cc = {} THEN -1 ELSE (CHOOSE cm \in cc : TRUE).or.n

\* The leader of view v: the views rotate through the vector of keys.
get_primary_for_view(v) == Pubkeys[(v % Len(Pubkeys)) + 1]
=============================================================================
