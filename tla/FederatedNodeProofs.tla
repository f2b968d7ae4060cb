------------------------- MODULE FederatedNodeProofs --------------------------
(***************************************************************************)
(* For any nodes, peers, capabilities and thresholds: the state of a       *)
(* federation is well typed, and a revocation a node has listed is never   *)
(* undone by any later event, in any order of arrival.  An event that any  *)
(* node other than its issuer lists has its signatures, because signatures *)
(* are only ever added.  Vector clocks order what nodes knew.              *)
(***************************************************************************)
EXTENDS FederatedNode, FiniteSetTheorems, TLAPS

\* A node's epoch is at least that of every event it lists.
EpochsCover ==
    \A n \in Nodes : \A i \in _revocations[n] :
        _epochs[n][events[i].capability_id] >= events[i].epoch

\* The inductive invariant.
IInv == TypeOK /\ EpochsCover

LEMMA IInvInit == Init => IInv
BY DEF Init, IInv, TypeOK, EpochsCover

\* The fields of an event.
LEMMA EventFields ==
    ASSUME TypeOK, NEW i \in DOMAIN events
    PROVE  /\ events[i].capability_id \in Capabilities
           /\ events[i].epoch \in Nat
           /\ events[i].clock \in [Nodes -> Nat]
<1>1. events[i] \in RevocationEvents
  BY DEF TypeOK
<1> QED BY <1>1 DEF RevocationEvents

\* One event handed to any set of nodes.
LEMMA ReceiveKeeps ==
    ASSUME IInv, NEW R \in SUBSET Nodes, NEW i \in DOMAIN events, Receive(R, i)
    PROVE  IInv'
<1> DEFINE accepting == {n \in R : Accepts(n, i)}
           c == events[i].capability_id
<1>1. /\ c \in Capabilities /\ events[i].epoch \in Nat /\ events[i].clock \in [Nodes -> Nat]
      /\ UNCHANGED <<events, signed, claims, _merkle>>
  BY EventFields DEF Receive, IInv
<1>2. _epochs' = [n \in Nodes |->
          IF n \in accepting THEN [_epochs[n] EXCEPT ![c] = events[i].epoch] ELSE _epochs[n]]
  BY DEF Receive
<1>3. _clock' = [n \in Nodes |->
          IF n \in accepting THEN merge(_clock[n], events[i].clock) ELSE _clock[n]]
  BY DEF Receive
<1>4. _revocations' = [n \in Nodes |->
          IF n \in accepting THEN _revocations[n] \cup {i} ELSE _revocations[n]]
  BY DEF Receive
<1>5. \A n \in accepting : events[i].epoch > _epochs[n][c]
  BY DEF Accepts
<1>6. \A n \in Nodes : _epochs[n] \in [Capabilities -> Nat] /\ _clock[n] \in [Nodes -> Nat]
  BY DEF IInv, TypeOK
<1> HIDE DEF accepting, c
<1>7. _epochs' \in [Nodes -> [Capabilities -> Nat]]
  BY <1>1, <1>2, <1>6
<1>8. \A n \in Nodes : merge(_clock[n], events[i].clock) \in [Nodes -> Nat]
  BY <1>1, <1>6 DEF merge
<1>9. _clock' \in [Nodes -> [Nodes -> Nat]]
  BY <1>3, <1>6, <1>8
<1>10. _revocations' \in [Nodes -> SUBSET DOMAIN events]
  BY <1>4 DEF IInv, TypeOK
<1>11. TypeOK'
  BY <1>1, <1>7, <1>9, <1>10 DEF IInv, TypeOK
<1>12. EpochsCover'
  <2> SUFFICES ASSUME NEW n \in Nodes, NEW j \in _revocations'[n]
               PROVE  _epochs'[n][events[j].capability_id] >= events[j].epoch
    BY <1>1 DEF EpochsCover
  <2>0. /\ j \in DOMAIN events
        /\ events[j].capability_id \in Capabilities /\ events[j].epoch \in Nat
        /\ _epochs[n][events[j].capability_id] \in Nat /\ _epochs[n][c] \in Nat
    BY <1>1, <1>6, <1>10, EventFields DEF IInv, TypeOK
  <2>1. CASE n \notin accepting
    BY <1>2, <1>4, <2>1 DEF IInv, EpochsCover
  <2>2. CASE n \in accepting
    <3>1. _epochs'[n] = [_epochs[n] EXCEPT ![c] = events[i].epoch]
      BY <1>2, <2>2
    <3>2. _epochs'[n][c] = events[i].epoch
      BY <1>1, <1>6, <3>1
    <3>3. CASE j = i
      BY <1>1, <3>2, <3>3 DEF c
    <3>4. CASE j # i
      <4>1. _epochs[n][events[j].capability_id] >= events[j].epoch
        BY <1>4, <2>2, <3>4 DEF IInv, EpochsCover
      <4>2. CASE events[j].capability_id = c
        BY <1>1, <1>5, <2>0, <2>2, <3>2, <4>1, <4>2
      <4>3. CASE events[j].capability_id # c
        BY <1>6, <2>0, <3>1, <4>1, <4>3
      <4> QED BY <4>2, <4>3
    <3> QED BY <3>3, <3>4
  <2> QED BY <2>1, <2>2
<1> QED BY <1>11, <1>12 DEF IInv

LEMMA IssueKeeps ==
    ASSUME IInv, NEW n \in Nodes, NEW c \in Capabilities, issue_revocation(n, c)
    PROVE  IInv'
<1> DEFINE last == Len(events) + 1
<1>0. /\ events \in Seq(RevocationEvents) /\ signed \in Seq(SUBSET Nodes)
      /\ Len(signed) = Len(events) /\ DOMAIN events = 1 .. Len(events)
      /\ _epochs[n] \in [Capabilities -> Nat] /\ _clock[n] \in [Nodes -> Nat]
      /\ _revocations[n] \subseteq DOMAIN events
  BY DEF IInv, TypeOK
<1>1. PICK e : e = [capability_id |-> c, epoch |-> _epochs[n][c] + 1,
                    clock |-> tick(_clock[n], n), known |-> _revocations[n]]
  OBVIOUS
<1>2. e \in RevocationEvents
  BY <1>0, <1>1 DEF RevocationEvents, tick
<1>3. /\ events' = Append(events, e) /\ signed' = Append(signed, {Owner[c]})
      /\ _epochs' = [_epochs EXCEPT ![n][c] = @ + 1]
      /\ _clock' = [_clock EXCEPT ![n] = tick(@, n)]
      /\ _revocations' = [_revocations EXCEPT ![n] = @ \cup {last}]
      /\ UNCHANGED <<claims, _merkle>>
  BY <1>1 DEF issue_revocation
<1>4. /\ events' \in Seq(RevocationEvents) /\ Len(events') = last
      /\ DOMAIN events' = 1 .. last /\ last \in DOMAIN events'
      /\ \A j \in DOMAIN events : events'[j] = events[j]
      /\ events'[last] = e
  BY <1>0, <1>2, <1>3
<1>5. signed' \in Seq(SUBSET Nodes) /\ Len(signed') = last
  BY <1>0, <1>3, OwnerAssumption
<1>6. _epochs' \in [Nodes -> [Capabilities -> Nat]] /\ _clock' \in [Nodes -> [Nodes -> Nat]]
  BY <1>0, <1>3 DEF IInv, TypeOK, tick
<1>7. _revocations' \in [Nodes -> SUBSET DOMAIN events']
  <2>1. \A m \in Nodes : _revocations[m] \subseteq DOMAIN events'
    BY <1>0, <1>4 DEF IInv, TypeOK
  <2> QED BY <1>3, <1>4, <2>1 DEF IInv, TypeOK
<1>8. TypeOK'
  BY <1>3, <1>4, <1>5, <1>6, <1>7 DEF IInv, TypeOK
<1>9. EpochsCover'
  <2> SUFFICES ASSUME NEW m \in Nodes, NEW j \in _revocations'[m]
               PROVE  _epochs'[m][events'[j].capability_id] >= events'[j].epoch
    BY DEF EpochsCover
  <2>1. CASE j \in _revocations[m]
    <3>1. j \in DOMAIN events
      BY <2>1 DEF IInv, TypeOK
    <3>2. events'[j] = events[j] /\ events[j].capability_id \in Capabilities
          /\ events[j].epoch \in Nat
      BY <1>0, <1>4, <3>1, EventFields DEF IInv
    <3>3. _epochs[m][events[j].capability_id] >= events[j].epoch
      BY <2>1 DEF IInv, EpochsCover
    <3>4. \A x \in Capabilities : _epochs[m][x] \in Nat /\ _epochs'[m][x] >= _epochs[m][x]
      BY <1>0, <1>3 DEF IInv, TypeOK
    <3>5. _epochs'[m][events[j].capability_id] \in Nat
      BY <1>6, <3>2
    <3> QED BY <3>2, <3>3, <3>4, <3>5
  <2>2. CASE j \notin _revocations[m]
    <3>1. m = n /\ j = last
      BY <1>3, <2>2 DEF IInv, TypeOK
    <3>2. _epochs'[n][c] = _epochs[n][c] + 1 /\ _epochs[n][c] \in Nat
      BY <1>0, <1>3 DEF IInv, TypeOK
    <3> QED BY <1>1, <1>4, <3>1, <3>2
  <2> QED BY <2>1, <2>2
<1> QED BY <1>8, <1>9 DEF IInv

LEMMA IInvNext == IInv /\ [Next]_vars => IInv'
<1> SUFFICES ASSUME IInv, [Next]_vars PROVE IInv'
  OBVIOUS
<1>1. ASSUME NEW n \in Nodes, NEW c \in Capabilities, MutateRegistry(n, c) PROVE IInv'
  BY <1>1 DEF MutateRegistry, IInv, TypeOK, EpochsCover
<1>2. ASSUME NEW i \in DOMAIN events, NEW n \in Signers, add_signature(i, n) PROVE IInv'
  <2>1. signed' \in Seq(SUBSET Nodes) /\ Len(signed') = Len(signed)
    BY <1>2, BoundsAssumption DEF add_signature, IInv, TypeOK
  <2> QED BY <1>2, <2>1 DEF add_signature, IInv, TypeOK, EpochsCover
<1>3. ASSUME NEW i \in DOMAIN events, NEW n \in Nodes, receive_revocation(n, i) PROVE IInv'
  BY <1>3, ReceiveKeeps DEF receive_revocation
<1>4. ASSUME NEW i \in DOMAIN events, NEW n \in Nodes, gossip_revocation(n, i) PROVE IInv'
  BY <1>4, ReceiveKeeps, PeersAssumption DEF gossip_revocation
<1>5. ASSUME NEW n \in Nodes, recompute_merkle(n) PROVE IInv'
  BY <1>5 DEF recompute_merkle, from_registry, IInv, TypeOK, EpochsCover
<1>6. CASE UNCHANGED vars
  BY <1>6 DEF vars, IInv, TypeOK, EpochsCover
<1> QED BY <1>1, <1>2, <1>3, <1>4, <1>5, <1>6, IssueKeeps DEF Next

LEMMA IInvImplies == IInv => TypeOK /\ RevokedStaysRevoked
<1> SUFFICES ASSUME IInv, NEW n \in Nodes, NEW i \in _revocations[n],
                    NEW k \in 0 .. events[i].epoch - 1
             PROVE  ~is_capability_valid(n, events[i].capability_id, k)
  BY DEF IInv, RevokedStaysRevoked
<1>1. i \in DOMAIN events
  BY DEF IInv, TypeOK
<1>2. events[i].epoch \in Nat /\ events[i].capability_id \in Capabilities
  BY <1>1, EventFields DEF IInv
<1>3. _epochs[n][events[i].capability_id] \in Nat
  BY <1>2 DEF IInv, TypeOK
<1>4. _epochs[n][events[i].capability_id] >= events[i].epoch
  BY DEF IInv, EpochsCover
<1> QED BY <1>2, <1>3, <1>4 DEF is_capability_valid, is_stale

\* The state of a federation is well typed.
THEOREM TypeCorrect == Spec => []TypeOK
BY IInvInit, IInvNext, IInvImplies, PTL DEF Spec

\* distributed_kernel.py:22: at a node that has listed a revocation no event,
\* late, repeated or out of order, makes an earlier epoch valid again.
THEOREM RevokedAlwaysStaysRevoked == Spec => []RevokedStaysRevoked
BY IInvInit, IInvNext, IInvImplies, PTL DEF Spec

-------------------------------------------------------------------------------
(* Signatures *)

\* The invariant: the property, and finite signature sets to count.
SignedInv ==
    /\ IInv
    /\ AcceptedWereSigned
    /\ \A i \in DOMAIN events : IsFiniteSet(signed[i])

LEMMA SignedInit == Init => SignedInv
BY IInvInit DEF Init, SignedInv, AcceptedWereSigned

LEMMA ReceiveSigned ==
    ASSUME SignedInv, NEW R \in SUBSET Nodes, NEW i \in DOMAIN events, Receive(R, i)
    PROVE  SignedInv'
<1> DEFINE accepting == {n \in R : Accepts(n, i)}
<1>1. IInv'
  BY ReceiveKeeps DEF SignedInv
<1>2. UNCHANGED <<events, signed>>
  BY DEF Receive
<1>3. \A j : is_valid(j)' <=> is_valid(j)
  BY <1>2 DEF is_valid
<1>4. _revocations' = [n \in Nodes |->
          IF n \in accepting THEN _revocations[n] \cup {i} ELSE _revocations[n]]
  BY DEF Receive
<1>5. \A n \in accepting : is_valid(i)
  BY DEF Accepts
<1> HIDE DEF accepting
<1>6. ASSUME NEW n \in Nodes, NEW j \in _revocations'[n], ~is_valid(j)
      PROVE  \A m \in Nodes : m # n => j \notin _revocations'[m]
  <2>1. \A m \in Nodes : j \in _revocations'[m] => j \in _revocations[m]
    <3>1. CASE accepting = {}
      BY <1>4, <3>1
    <3>2. CASE accepting # {}
      <4>1. j # i
        BY <1>5, <1>6, <3>2
      <4> QED BY <1>4, <4>1
    <3> QED BY <3>1, <3>2
  <2> QED BY <1>6, <2>1 DEF SignedInv, AcceptedWereSigned
<1>7. AcceptedWereSigned'
  BY <1>3, <1>6 DEF AcceptedWereSigned
<1> QED BY <1>1, <1>2, <1>7 DEF SignedInv

LEMMA IssueSigned ==
    ASSUME SignedInv, NEW n \in Nodes, NEW c \in Capabilities, issue_revocation(n, c)
    PROVE  SignedInv'
<1> DEFINE last == Len(events) + 1
<1>0. /\ events \in Seq(RevocationEvents) /\ signed \in Seq(SUBSET Nodes)
      /\ Len(signed) = Len(events) /\ DOMAIN events = 1 .. Len(events)
      /\ Len(events) \in Nat
      /\ \A m \in Nodes : _revocations[m] \subseteq DOMAIN events
  BY DEF SignedInv, IInv, TypeOK
<1>1. PICK e : e = [capability_id |-> c, epoch |-> _epochs[n][c] + 1,
                    clock |-> tick(_clock[n], n), known |-> _revocations[n]]
  OBVIOUS
<1>2. e \in RevocationEvents
  <2>1. _epochs[n] \in [Capabilities -> Nat] /\ _clock[n] \in [Nodes -> Nat]
    BY DEF SignedInv, IInv, TypeOK
  <2>2. DOMAIN events \subseteq Nat
    BY <1>0
  <2> QED BY <1>0, <1>1, <2>1, <2>2 DEF RevocationEvents, tick
<1>3. /\ events' = Append(events, e) /\ signed' = Append(signed, {Owner[c]})
      /\ _revocations' = [_revocations EXCEPT ![n] = @ \cup {last}]
  BY <1>1 DEF issue_revocation
<1>4. /\ DOMAIN events' = 1 .. last
      /\ \A j \in DOMAIN events : events'[j] = events[j]
  BY <1>0, <1>2, <1>3
<1>5. /\ \A j \in DOMAIN events : signed'[j] = signed[j]
      /\ signed'[last] = {Owner[c]}
  BY <1>0, <1>3, OwnerAssumption
<1>6. \A j \in DOMAIN events' : IsFiniteSet(signed'[j])
  <2>1. IsFiniteSet({Owner[c]})
    BY FS_Singleton
  <2>2. \A j \in DOMAIN events' : j \in DOMAIN events \/ j = last
    BY <1>0, <1>4
  <2>3. \A j \in DOMAIN events : IsFiniteSet(signed'[j])
    BY <1>5 DEF SignedInv
  <2>4. IsFiniteSet(signed'[last])
    BY <1>5, <2>1
  <2> QED BY <2>2, <2>3, <2>4
<1>7. \A j \in DOMAIN events : is_valid(j)' <=> is_valid(j)
  BY <1>4, <1>5 DEF is_valid
<1>8. ASSUME NEW m \in Nodes, NEW j \in _revocations'[m], ~is_valid(j)'
      PROVE  \A k \in Nodes : k # m => j \notin _revocations'[k]
  <2>1. CASE j = last
    <3>1. last \notin DOMAIN events
      BY <1>0
    <3>2. \A k \in Nodes : last \notin _revocations[k]
      BY <1>0, <3>1
    <3>3. \A k \in Nodes : k # n => _revocations'[k] = _revocations[k]
      BY <1>3 DEF SignedInv, IInv, TypeOK
    <3> QED BY <1>8, <2>1, <3>2, <3>3
  <2>2. CASE j # last
    <3>1. \A k \in Nodes : j \in _revocations'[k] => j \in _revocations[k]
      BY <1>3, <2>2 DEF SignedInv, IInv, TypeOK
    <3>2. j \in DOMAIN events /\ ~is_valid(j)
      BY <1>0, <1>7, <1>8, <3>1
    <3> QED BY <3>1, <3>2 DEF SignedInv, AcceptedWereSigned
  <2> QED BY <2>1, <2>2
<1>9. AcceptedWereSigned'
  BY <1>8 DEF AcceptedWereSigned
<1> QED BY <1>6, <1>9, IssueKeeps DEF SignedInv

LEMMA SignatureSigned ==
    ASSUME SignedInv, IInv', NEW i \in DOMAIN events, NEW n \in Signers, add_signature(i, n)
    PROVE  SignedInv'
<1>1. /\ signed' = [signed EXCEPT ![i] = @ \cup {n}] /\ UNCHANGED <<events, _revocations>>
      /\ DOMAIN signed = DOMAIN events
  BY DEF add_signature, SignedInv, IInv, TypeOK
<1>2. ASSUME NEW j \in DOMAIN events
      PROVE  IsFiniteSet(signed'[j]) /\ (is_valid(j) => is_valid(j)')
  <2>1. PICK S, T : S = signed[j] /\ T = signed'[j]
    OBVIOUS
  <2>2. IsFiniteSet(S) /\ (T = S \/ T = S \cup {n})
    BY <1>1, <2>1 DEF SignedInv
  <2>3. IsFiniteSet(T) /\ S \in SUBSET T
    BY <2>2, FS_AddElement
  <2>4. /\ Cardinality(S) <= Cardinality(T)
        /\ Cardinality(S) \in Nat /\ Cardinality(T) \in Nat
    BY <2>2, <2>3, FS_Subset, FS_CardinalityType
  <2> QED BY <1>1, <2>1, <2>3, <2>4, BoundsAssumption DEF is_valid
<1>3. AcceptedWereSigned'
  <2>1. \A m \in Nodes : _revocations[m] \subseteq DOMAIN events
    BY DEF SignedInv, IInv, TypeOK
  <2> QED BY <1>1, <1>2, <2>1 DEF SignedInv, AcceptedWereSigned
<1> QED BY <1>1, <1>2, <1>3 DEF SignedInv

LEMMA SignedNext == SignedInv /\ [Next]_vars => SignedInv'
<1> SUFFICES ASSUME SignedInv, [Next]_vars PROVE SignedInv'
  OBVIOUS
<1>0. IInv'
  BY IInvNext DEF SignedInv
<1>1. ASSUME UNCHANGED <<events, signed, _revocations>> PROVE SignedInv'
  BY <1>0, <1>1 DEF SignedInv, AcceptedWereSigned, is_valid
<1>2. ASSUME NEW n \in Nodes, NEW c \in Capabilities, MutateRegistry(n, c) PROVE SignedInv'
  BY <1>1, <1>2 DEF MutateRegistry
<1>3. ASSUME NEW i \in DOMAIN events, NEW n \in Nodes, receive_revocation(n, i)
      PROVE  SignedInv'
  BY <1>3, ReceiveSigned DEF receive_revocation
<1>4. ASSUME NEW i \in DOMAIN events, NEW n \in Nodes, gossip_revocation(n, i)
      PROVE  SignedInv'
  BY <1>4, ReceiveSigned, PeersAssumption DEF gossip_revocation
<1>5. ASSUME NEW n \in Nodes, recompute_merkle(n) PROVE SignedInv'
  BY <1>1, <1>5 DEF recompute_merkle
<1>6. CASE UNCHANGED vars
  BY <1>1, <1>6 DEF vars
<1> QED BY <1>0, <1>2, <1>3, <1>4, <1>5, <1>6, IssueSigned, SignatureSigned DEF Next

\* distributed_kernel.py:272: an event that a node other than its issuer lists
\* bears the owner's signature and at least threshold signatures.
THEOREM AcceptedAlwaysSigned == Spec => []AcceptedWereSigned
<1>1. SignedInv => AcceptedWereSigned
  BY DEF SignedInv
<1> QED BY <1>1, SignedInit, SignedNext, PTL DEF Spec

-------------------------------------------------------------------------------
(* Clocks *)

\* No clock, of a node or of an event, is ahead of a node's own count.
OwnCountLeads ==
    \A m \in Nodes :
        /\ \A n \in Nodes : _clock[n][m] <= _clock[m][m]
        /\ \A i \in DOMAIN events : events[i].clock[m] <= _clock[m][m]

\* A node's clock covers what it lists.
ClocksCover ==
    \A n \in Nodes : \A i \in _revocations[n] : \A m \in Nodes : events[i].clock[m] <= _clock[n][m]

\* What was known at an event is an earlier event.
KnownIsEarlier == \A i \in DOMAIN events : events[i].known \subseteq 1 .. i - 1

CausalInv == IInv /\ OwnCountLeads /\ ClocksCover /\ KnownIsEarlier /\ ClocksAreCausal

LEMMA CausalInit == Init => CausalInv
BY IInvInit DEF Init, CausalInv, OwnCountLeads, ClocksCover, KnownIsEarlier, ClocksAreCausal

\* Merging keeps the larger of two counts.
LEMMA MergeIsLarger ==
    ASSUME NEW c \in [Nodes -> Nat], NEW d \in [Nodes -> Nat], NEW m \in Nodes
    PROVE  /\ merge(c, d)[m] \in Nat /\ merge(c, d)[m] >= c[m] /\ merge(c, d)[m] >= d[m]
           /\ merge(c, d)[m] = c[m] \/ merge(c, d)[m] = d[m]
BY DEF merge

LEMMA ReceiveCausal ==
    ASSUME CausalInv, NEW R \in SUBSET Nodes, NEW i \in DOMAIN events, Receive(R, i)
    PROVE  CausalInv'
<1> DEFINE accepting == {n \in R : Accepts(n, i)}
<1>0. IInv' /\ events' = events
  BY ReceiveKeeps DEF CausalInv, Receive
<1>1. PICK A : A = accepting /\ A \subseteq Nodes
  OBVIOUS
<1>2. /\ _clock' = [n \in Nodes |-> IF n \in A THEN merge(_clock[n], events[i].clock) ELSE _clock[n]]
      /\ _revocations' = [n \in Nodes |-> IF n \in A THEN _revocations[n] \cup {i} ELSE _revocations[n]]
  BY <1>1 DEF Receive
<1>3. /\ events[i].clock \in [Nodes -> Nat] /\ \A n \in Nodes : _clock[n] \in [Nodes -> Nat]
      /\ \A j \in DOMAIN events : events[j].clock \in [Nodes -> Nat]
      /\ \A n \in Nodes : _revocations[n] \subseteq DOMAIN events
  BY EventFields DEF CausalInv, IInv, TypeOK
<1>4. ASSUME NEW n \in Nodes, NEW m \in Nodes
      PROVE  /\ _clock'[n][m] \in Nat /\ _clock[n][m] \in Nat /\ events[i].clock[m] \in Nat
             /\ _clock'[n][m] >= _clock[n][m]
             /\ n \in A => _clock'[n][m] >= events[i].clock[m]
             /\ _clock'[n][m] = _clock[n][m] \/ _clock'[n][m] = events[i].clock[m]
  BY <1>2, <1>3, MergeIsLarger
<1>5. \A m \in Nodes : _clock'[m][m] \in Nat /\ _clock[m][m] \in Nat /\ _clock'[m][m] = _clock[m][m]
  <2> SUFFICES ASSUME NEW m \in Nodes PROVE _clock'[m][m] = _clock[m][m]
    BY <1>4
  <2>1. events[i].clock[m] <= _clock[m][m]
    BY DEF CausalInv, OwnCountLeads
  <2> QED BY <1>4, <2>1
<1>6. OwnCountLeads'
  BY <1>0, <1>4, <1>5 DEF CausalInv, OwnCountLeads
<1>7. ClocksCover'
  <2> SUFFICES ASSUME NEW n \in Nodes, NEW j \in _revocations'[n], NEW m \in Nodes
               PROVE  events[j].clock[m] <= _clock'[n][m]
    BY <1>0 DEF ClocksCover
  <2>1. CASE j \in _revocations[n]
    <3>1. events[j].clock[m] <= _clock[n][m] /\ events[j].clock[m] \in Nat
      BY <1>3, <2>1 DEF CausalInv, ClocksCover
    <3> QED BY <1>4, <3>1
  <2>2. CASE j \notin _revocations[n]
    <3>1. n \in A /\ j = i
      BY <1>2, <2>2
    <3> QED BY <1>4, <3>1
  <2> QED BY <2>1, <2>2
<1>8. KnownIsEarlier' /\ ClocksAreCausal'
  BY <1>0 DEF CausalInv, KnownIsEarlier, ClocksAreCausal, happens_before
<1> QED BY <1>0, <1>6, <1>7, <1>8 DEF CausalInv

\* The new event is ahead of every other in its issuer's count.
LEMMA IssueCausal ==
    ASSUME CausalInv, NEW n \in Nodes, NEW c \in Capabilities, issue_revocation(n, c)
    PROVE  CausalInv'
<1> DEFINE last == Len(events) + 1
<1>0. /\ IInv' /\ events \in Seq(RevocationEvents) /\ Len(events) \in Nat
      /\ DOMAIN events = 1 .. Len(events)
      /\ \A m \in Nodes : _clock[m] \in [Nodes -> Nat] /\ _revocations[m] \subseteq DOMAIN events
  <2>1. IInv /\ IInv'
    BY IssueKeeps, Zenon DEF CausalInv
  <2>2. TypeOK
    BY <2>1, Zenon DEF IInv
  <2>3. /\ events \in Seq(RevocationEvents)
        /\ _clock \in [Nodes -> [Nodes -> Nat]] /\ _revocations \in [Nodes -> SUBSET DOMAIN events]
    BY <2>2, Zenon DEF TypeOK
  <2>4. Len(events) \in Nat /\ DOMAIN events = 1 .. Len(events)
    BY <2>3
  <2>5. ASSUME NEW m \in Nodes
        PROVE  _clock[m] \in [Nodes -> Nat] /\ _revocations[m] \subseteq DOMAIN events
    <3>1. _revocations[m] \in SUBSET DOMAIN events
      BY <2>3, Zenon
    <3> QED BY <2>3, <3>1
  <2> QED BY <2>1, <2>3, <2>4, <2>5, Zenon
<1>1. PICK e, t : /\ t = tick(_clock[n], n)
                  /\ e = [capability_id |-> c, epoch |-> _epochs[n][c] + 1, clock |-> t,
                          known |-> _revocations[n]]
  OBVIOUS
<1>2. /\ t \in [Nodes -> Nat] /\ t[n] = _clock[n][n] + 1 /\ _clock[n][n] \in Nat
      /\ \A m \in Nodes : m # n => t[m] = _clock[n][m]
      /\ \A m \in Nodes : t[m] \in Nat /\ _clock[n][m] \in Nat /\ t[m] >= _clock[n][m]
  BY <1>0, <1>1 DEF tick
<1>3. /\ events' = Append(events, e)
      /\ _clock' = [_clock EXCEPT ![n] = t]
      /\ _revocations' = [_revocations EXCEPT ![n] = @ \cup {last}]
      /\ e.clock = t /\ e.known = _revocations[n]
  BY <1>1 DEF issue_revocation
<1>4. /\ DOMAIN events' = 1 .. last
      /\ \A j \in DOMAIN events : events'[j] = events[j] /\ events[j].clock \in [Nodes -> Nat]
      /\ events'[last] = e
      /\ \A j \in DOMAIN events' : j \in DOMAIN events \/ j = last
  <2>1. \A j \in DOMAIN events : events[j].clock \in [Nodes -> Nat]
    BY EventFields DEF CausalInv, IInv
  <2>2. PICK S : events \in Seq(S) /\ e \in S
    <3>1. events \in Seq(RevocationEvents \cup {e})
      BY <1>0
    <3> QED BY <3>1
  <2> QED BY <1>0, <1>3, <2>1, <2>2
<1>5. /\ _clock'[n] = t
      /\ \A m \in Nodes : m # n => _clock'[m] = _clock[m]
      /\ \A m \in Nodes : \A k \in Nodes : _clock'[m][k] \in Nat /\ _clock[m][k] \in Nat
                                          /\ _clock'[m][k] >= _clock[m][k]
  <2>1. DOMAIN _clock = Nodes
    BY DEF CausalInv, IInv, TypeOK
  <2>2. _clock'[n] = t /\ \A m \in Nodes : m # n => _clock'[m] = _clock[m]
    BY <1>3, <2>1
  <2>3. \A m \in Nodes : \A k \in Nodes : _clock[m][k] \in Nat
    BY <1>0
  <2> QED BY <1>2, <2>2, <2>3
<1>6. OwnCountLeads'
  <2>1. ASSUME NEW m \in Nodes, NEW k \in Nodes PROVE _clock'[k][m] <= _clock'[m][m]
    <3>1. _clock[k][m] <= _clock[m][m]
      BY DEF CausalInv, OwnCountLeads
    <3>2. CASE k = n
      <4>1. CASE m = n
        BY <1>5, <3>2, <4>1
      <4>2. CASE m # n
        BY <1>2, <1>5, <3>1, <3>2, <4>2
      <4> QED BY <4>1, <4>2
    <3>3. CASE k # n
      BY <1>5, <3>1, <3>3
    <3> QED BY <3>2, <3>3
  <2>2. ASSUME NEW m \in Nodes, NEW j \in DOMAIN events' PROVE events'[j].clock[m] <= _clock'[m][m]
    <3>1. CASE j \in DOMAIN events
      <4>1. events[j].clock[m] <= _clock[m][m] /\ events[j].clock[m] \in Nat
        BY <1>4, <3>1 DEF CausalInv, OwnCountLeads
      <4> QED BY <1>4, <1>5, <3>1, <4>1
    <3>2. CASE j = last
      BY <1>3, <1>4, <1>5, <2>1, <3>2
    <3> QED BY <1>4, <3>1, <3>2
  <2> QED BY <2>1, <2>2 DEF OwnCountLeads
<1>7. ClocksCover'
  <2> SUFFICES ASSUME NEW m \in Nodes, NEW j \in _revocations'[m], NEW k \in Nodes
               PROVE  events'[j].clock[k] <= _clock'[m][k]
    BY DEF ClocksCover
  <2>1. CASE j \in _revocations[m]
    <3>1. j \in DOMAIN events
      BY <1>0, <2>1
    <3>2. events[j].clock[k] <= _clock[m][k] /\ events[j].clock[k] \in Nat
      BY <1>4, <2>1, <3>1 DEF CausalInv, ClocksCover
    <3> QED BY <1>4, <1>5, <3>1, <3>2
  <2>2. CASE j \notin _revocations[m]
    <3>1. m = n /\ j = last
      BY <1>3, <2>2 DEF CausalInv, IInv, TypeOK
    <3> QED BY <1>2, <1>3, <1>4, <1>5, <3>1
  <2> QED BY <2>1, <2>2
<1>8. KnownIsEarlier'
  <2>1. \A j \in DOMAIN events : events'[j].known \subseteq 1 .. j - 1
    BY <1>4 DEF CausalInv, KnownIsEarlier
  <2>2. events'[last].known \subseteq 1 .. last - 1
    BY <1>0, <1>3, <1>4
  <2> QED BY <1>4, <2>1, <2>2 DEF KnownIsEarlier
<1>9. \A j \in DOMAIN events : t[n] > events[j].clock[n] /\ events[j].clock # t
  <2> SUFFICES ASSUME NEW j \in DOMAIN events PROVE t[n] > events[j].clock[n]
    BY <1>2, <1>4
  <2>1. events[j].clock[n] <= _clock[n][n] /\ events[j].clock[n] \in Nat
    BY <1>4 DEF CausalInv, OwnCountLeads
  <2> QED BY <1>2, <2>1
<1>10. ClocksAreCausal'
  <2> SUFFICES ASSUME NEW i \in DOMAIN events', NEW j \in DOMAIN events'
               PROVE  /\ i \in events'[j].known => happens_before(events'[i].clock, events'[j].clock)
                      /\ events'[i].clock = events'[j].clock => i = j
    BY DEF ClocksAreCausal, happens_before
  <2>1. CASE i \in DOMAIN events /\ j \in DOMAIN events
    BY <1>4, <2>1 DEF CausalInv, ClocksAreCausal
  <2>2. CASE i = last /\ j \in DOMAIN events
    <3>1. last \notin events'[j].known
      BY <1>0, <1>4, <2>2 DEF CausalInv, KnownIsEarlier
    <3> QED BY <1>3, <1>4, <1>9, <2>2, <3>1
  <2>3. CASE i \in DOMAIN events /\ j = last
    <3>1. ASSUME i \in _revocations[n] PROVE happens_before(events[i].clock, t)
      <4>1. \A m \in Nodes : events[i].clock[m] <= _clock[n][m] /\ events[i].clock[m] \in Nat
        BY <1>4, <2>3, <3>1 DEF CausalInv, ClocksCover
      <4>2. \A m \in Nodes : events[i].clock[m] <= t[m]
        BY <1>2, <4>1
      <4> QED BY <1>9, <2>3, <4>2 DEF happens_before
    <3> QED BY <1>3, <1>4, <1>9, <2>3, <3>1
  <2>4. CASE i = last /\ j = last
    <3>1. last \notin events'[last].known
      BY <1>0, <1>3, <1>4
    <3> QED BY <2>4, <3>1
  <2> QED BY <1>4, <2>1, <2>2, <2>3, <2>4
<1> QED BY <1>0, <1>6, <1>7, <1>8, <1>10 DEF CausalInv

LEMMA CausalNext == CausalInv /\ [Next]_vars => CausalInv'
<1> SUFFICES ASSUME CausalInv, [Next]_vars PROVE CausalInv'
  OBVIOUS
<1>0. IInv'
  BY IInvNext DEF CausalInv
<1>1. ASSUME UNCHANGED <<events, _clock, _revocations>> PROVE CausalInv'
  BY <1>0, <1>1 DEF CausalInv, OwnCountLeads, ClocksCover, KnownIsEarlier, ClocksAreCausal, happens_before
<1>2. ASSUME NEW i \in DOMAIN events, NEW n \in Nodes, receive_revocation(n, i) PROVE CausalInv'
  BY <1>2, ReceiveCausal DEF receive_revocation
<1>3. ASSUME NEW i \in DOMAIN events, NEW n \in Nodes, gossip_revocation(n, i) PROVE CausalInv'
  BY <1>3, ReceiveCausal, PeersAssumption DEF gossip_revocation
<1>4. ASSUME NEW n, NEW c, MutateRegistry(n, c) \/ add_signature(c, n) \/ recompute_merkle(n) PROVE CausalInv'
  BY <1>1, <1>4 DEF MutateRegistry, add_signature, recompute_merkle
<1> QED BY <1>1, <1>2, <1>3, <1>4, IssueCausal DEF Next, vars

\* Over any number of nodes and any order, loss and repetition of deliveries, the
\* clocks order an event after everything its issuer had listed, and no two
\* events bear the same clock.
THEOREM ClocksAlwaysCausal == Spec => []ClocksAreCausal
<1>1. CausalInv => ClocksAreCausal
  BY DEF CausalInv
<1> QED BY <1>1, CausalInit, CausalNext, PTL DEF Spec

===============================================================================
