---------------------------- MODULE FederatedNode -----------------------------
(***************************************************************************)
(* Nodes of the distributed kernel (distributed/distributed_kernel.py):    *)
(* capability epochs, vector clocks, revocation events that collect        *)
(* signatures, gossip to peers, and the fingerprint of a node's claims.    *)
(*                                                                         *)
(* A revocation event is one object that its signers and all receivers     *)
(* share; it is referred to by its position in events.  The transport      *)
(* that carries an event to receive_revocation is outside the module: it   *)
(* may deliver any event to any node, in any order, again and again.       *)
(***************************************************************************)
EXTENDS Integers, Sequences, FiniteSets

CONSTANTS
    Nodes,
    Capabilities,
    Owner,         \* the human owner's node of each capability
    Peers,         \* _peers of each node
    threshold,     \* signatures a revocation requires
    Signers,       \* bound: nodes that add their signatures
    Mutable,       \* bound: nodes whose registry changes
    MaxEvents      \* bound: revocations issued

ASSUME OwnerAssumption == Owner \in [Capabilities -> Nodes]
ASSUME PeersAssumption == Peers \in [Nodes -> SUBSET Nodes]
ASSUME BoundsAssumption ==
    /\ threshold \in Nat /\ MaxEvents \in Nat
    /\ Mutable \subseteq Nodes /\ Signers \subseteq Nodes

VARIABLES
    events,        \* every RevocationEvent, in order of creation
    signed,        \* signature_set of each event
    _epochs, _clock,
    _revocations,  \* events each node lists
    claims,        \* capabilities each node's registry holds a claim for
    _merkle        \* the claims the node's state hash was computed from

vars == <<events, signed, _epochs, _clock, _revocations, claims, _merkle>>

-------------------------------------------------------------------------------
(* Vector clocks and events *)

tick(c, n) == [c EXCEPT ![n] = @ + 1]

\* Mutant: the counts of the event are not taken over.
merge_own(c, d) == c

merge(c, d) == [n \in Nodes |-> IF c[n] >= d[n] THEN c[n] ELSE d[n]]

happens_before(c, d) == (\A n \in Nodes : c[n] <= d[n]) /\ c # d

\* Enough signatures, the owner's among them.
is_valid(i) ==
    /\ Cardinality(signed[i]) >= threshold
    /\ Owner[events[i].capability_id] \in signed[i]

is_stale(n, c, epoch) == epoch < _epochs[n][c]

is_capability_valid(n, c, epoch) == ~is_stale(n, c, epoch) /\ c \in claims[n]

\* Mutant: the signatures are not counted.
Accepts_unsigned(n, i) == events[i].epoch > _epochs[n][events[i].capability_id]

\* Mutant: an event of any epoch is taken.
Accepts_stale(n, i) == is_valid(i) /\ i \notin _revocations[n]

\* Mutant: only the very next epoch is taken.
Accepts_next(n, i) == is_valid(i) /\ events[i].epoch = _epochs[n][events[i].capability_id] + 1

\* What receive_revocation requires: an event that is valid now and of a higher
\* epoch than the node is at.
Accepts(n, i) == is_valid(i) /\ events[i].epoch > _epochs[n][events[i].capability_id]

-------------------------------------------------------------------------------
(* Operations of node n *)

\* The node's own epoch moves at once, whoever has signed so far.  The known
\* field is a history variable: the events the node lists by then.
issue_revocation(n, c) ==
    /\ Len(events) < MaxEvents
    /\ _epochs' = [_epochs EXCEPT ![n][c] = @ + 1]
    /\ _clock' = [_clock EXCEPT ![n] = tick(@, n)]
    /\ events' = Append(events, [capability_id |-> c, epoch |-> _epochs[n][c] + 1,
                                 clock |-> tick(_clock[n], n), known |-> _revocations[n]])
    /\ signed' = Append(signed, {Owner[c]})
    /\ _revocations' = [_revocations EXCEPT ![n] = @ \cup {Len(events) + 1}]
    /\ UNCHANGED <<claims, _merkle>>

add_signature(i, signer) ==
    /\ signed' = [signed EXCEPT ![i] = @ \cup {signer}]
    /\ UNCHANGED <<events, _epochs, _clock, _revocations, claims, _merkle>>

\* The effect of event i at the nodes of R that accept it.
Receive(R, i) ==
    LET accepting == {n \in R : Accepts(n, i)}
    IN  /\ _epochs' = [n \in Nodes |->
              IF n \in accepting
              THEN [_epochs[n] EXCEPT ![events[i].capability_id] = events[i].epoch]
              ELSE _epochs[n]]
        /\ _clock' = [n \in Nodes |->
              IF n \in accepting THEN merge(_clock[n], events[i].clock) ELSE _clock[n]]
        /\ _revocations' = [n \in Nodes |->
              IF n \in accepting THEN _revocations[n] \cup {i} ELSE _revocations[n]]
        /\ UNCHANGED <<events, signed, claims, _merkle>>

receive_revocation(n, i) == Receive({n}, i)

\* Fan-out to the peers, none of which passes the event on.
gossip_revocation(n, i) ==
    /\ i \in _revocations[n]
    /\ Receive(Peers[n], i)

\* The registry belongs to the host: claims come and go without the node.
MutateRegistry(n, c) ==
    /\ n \in Mutable
    /\ claims' = [claims EXCEPT ![n] = IF c \in @ THEN @ \ {c} ELSE @ \cup {c}]
    /\ UNCHANGED <<events, signed, _epochs, _clock, _revocations, _merkle>>

\* SHA-256 being injective, a Merkle state stands for the set of claims hashed
\* into its leaves, whose order is that of their holders and resources.
from_registry(registry) == registry

recompute_merkle(n) ==
    /\ _merkle' = [_merkle EXCEPT ![n] = from_registry(claims[n])]
    /\ UNCHANGED <<events, signed, _epochs, _clock, _revocations, claims>>

-------------------------------------------------------------------------------
\* Nodes as attach_registry leaves them, each with every claim.
Init ==
    /\ events = << >> /\ signed = << >>
    /\ _epochs = [n \in Nodes |-> [c \in Capabilities |-> 0]]
    /\ _clock = [n \in Nodes |-> [m \in Nodes |-> 0]]
    /\ _revocations = [n \in Nodes |-> {}]
    /\ claims = [n \in Nodes |-> Capabilities] /\ _merkle = claims

Next ==
    \/ \E n \in Nodes, c \in Capabilities : issue_revocation(n, c) \/ MutateRegistry(n, c)
    \/ \E i \in DOMAIN events, n \in Signers : add_signature(i, n)
    \/ \E i \in DOMAIN events, n \in Nodes : receive_revocation(n, i) \/ gossip_revocation(n, i)
    \/ \E n \in Nodes : recompute_merkle(n)

\* Every node goes on gossiping events it lists, as long as that changes
\* something somewhere.  Nobody has to sign, and the transport has to deliver
\* nothing.
Fairness ==
    \A n \in Nodes : WF_vars(\E i \in DOMAIN events : gossip_revocation(n, i))

Spec == Init /\ [][Next]_vars /\ Fairness

-------------------------------------------------------------------------------
(* Properties *)

RevocationEvents ==
    [capability_id : Capabilities, epoch : Nat, clock : [Nodes -> Nat], known : SUBSET Nat]

\* The type of the state.
TypeOK ==
    /\ events \in Seq(RevocationEvents)
    /\ signed \in Seq(SUBSET Nodes) /\ Len(signed) = Len(events)
    /\ _epochs \in [Nodes -> [Capabilities -> Nat]]
    /\ _clock \in [Nodes -> [Nodes -> Nat]]
    /\ _revocations \in [Nodes -> SUBSET DOMAIN events]
    /\ claims \in [Nodes -> SUBSET Capabilities] /\ _merkle \in [Nodes -> SUBSET Capabilities]

\* distributed_kernel.py:22: at a node that has listed a revocation, no later
\* event, in whatever order events arrive, makes a capability of an earlier
\* epoch valid again, and no claim put back into the registry does.
RevokedStaysRevoked ==
    \A n \in Nodes : \A i \in _revocations[n] :
        \A k \in 0 .. events[i].epoch - 1 : ~is_capability_valid(n, events[i].capability_id, k)

\* distributed_kernel.py:272: what a node has from elsewhere bears the owner's
\* signature and enough of them: the issuer of an event apart, who ticked its
\* own clock for it, only signed events are listed.
AcceptedWereSigned ==
    \A n \in Nodes : \A i \in _revocations[n] :
        is_valid(i) \/ \A m \in Nodes : m # n => i \notin _revocations[m]

\* An event its issuer had listed before it issued another one precedes it in
\* the order of the clocks; clocks of different events differ.
ClocksAreCausal ==
    \A i, j \in DOMAIN events :
        /\ i \in events[j].known => happens_before(events[i].clock, events[j].clock)
        /\ events[i].clock = events[j].clock => i = j

\* distributed_kernel.py:21: a revocation that has its signatures ends the
\* earlier epochs at every node, over honest nodes that go on gossiping.
RevocationSpreads ==
    \A i \in 1 .. MaxEvents :
        (i \in DOMAIN events /\ is_valid(i)) ~>
            /\ i \in DOMAIN events
            /\ \A n \in Nodes : _epochs[n][events[i].capability_id] >= events[i].epoch

===============================================================================
