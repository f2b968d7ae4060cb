------------------------- MODULE CapabilityGateProofs -------------------------
(***************************************************************************)
(* Theorems about the call gate, for every set of keys, proofs and         *)
(* requests, every clock and every depth bound.                            *)
(*                                                                         *)
(* The safety properties speak of the moment verify returns Permit.  They  *)
(* follow from what the walk knows about the nodes it has visited (Walked) *)
(* and from what the loop knows about the proofs it has passed (Passed).   *)
(* At the end, the gate implements Authorization: its positions in a walk  *)
(* are a path of the policy, since a hash names one parent at most.        *)
(***************************************************************************)
EXTENDS CapabilityGate, SequenceTheorems, WellFoundedInduction, TLAPS

\* What the nodes visited so far have in common with the leaf.
Walked ==
    /\ Len(chain) >= 1
    /\ Len(chain) <= MAX_CHAIN_DEPTH + 2
    /\ chain[1].subject_id = action.actor_id
    /\ chain[1].resource_hash = action.resource_hash
    /\ \A k \in 1 .. Len(chain) :
          /\ \E i \in DOMAIN bundle : chain[k] = bundle[i]
          /\ chain[k].resource_hash = action.resource_hash
          /\ chain[1].rights \subseteq chain[k].rights
    /\ \A k \in 1 .. Len(chain) - 1 :
          /\ chain[k].epoch >= action.min_epoch
          /\ chain[k].issuer_pubkey \in Keys
          /\ chain[k].signature =
                Signature(chain[k].issuer_pubkey, signing_message(chain[k]))
          /\ Sha256(chain[k].issuer_pubkey) = chain[k + 1].subject_id

\* A walk that has ended at a root grant.
Anchored ==
    /\ Walked
    /\ Len(chain) <= MAX_CHAIN_DEPTH + 1
    /\ RootGrant(current)
    /\ current.epoch >= action.min_epoch
    /\ action.required_rights \subseteq chain[1].rights

\* What the loop has established about the proofs before position n.
Passed(n) ==
    \A i \in 1 .. n - 1 :
        bundle[i].subject_id = action.actor_id =>
            /\ found
            /\ GrantAdmissible(bundle[i], action, now)
            /\ action.required_rights \subseteq bundle[i].rights

\* The walk in progress is the one of the proof the loop stands at.
InChain ==
    /\ capIx <= Len(bundle)
    /\ found
    /\ Walked
    /\ chain[1] = cap
    /\ GrantAdmissible(cap, action, now)

\* The layer that has let a not yet denied action through.
Progress ==
    /\ pc \in {"transit", "canonical"} =>
          capIx = 1 /\ chain = << >> /\ ~found
    /\ pc \in {"transit", "canonical", "caps", "chain", "revocations", "consent"}
          => decision = "None"
    /\ pc = "transit" => action = sealed
    /\ pc \in {"caps", "chain", "revocations", "consent"} => verify_binding(action)
    /\ pc = "caps" => Passed(capIx) /\ (found => Anchored) /\ (~found => chain = << >>)
    /\ pc = "chain" => Passed(capIx) /\ InChain
    /\ pc \in {"revocations", "consent"} =>
          Passed(Len(bundle) + 1) /\ found /\ Anchored
    /\ pc = "consent" => ~AnyProofRevoked(action)
    /\ decision = "Permit" =>
          /\ Passed(Len(bundle) + 1) /\ found /\ Anchored
          /\ ~AnyProofRevoked(action)

IInv == TypeOK /\ Progress /\ Len(chain) <= MAX_CHAIN_DEPTH + 2

-------------------------------------------------------------------------------
\* Position of the first proof that carries hash h.
FirstAt(h, b) == CHOOSE i \in Carrying(h, b) : \A j \in Carrying(h, b) : i <= j

LEMMA FirstAtIsFirst ==
    ASSUME NEW S, NEW b \in Seq(S), NEW h, NEW m \in Carrying(h, b)
    PROVE  /\ FirstAt(h, b) \in DOMAIN b /\ FirstCarrying(h, b) = b[FirstAt(h, b)]
           /\ FirstAt(h, b) \in Carrying(h, b)
           /\ (\A j \in Carrying(h, b) : m <= j) => m = FirstAt(h, b)
           /\ \A j \in Carrying(h, b) : FirstAt(h, b) <= j
<1>1. Carrying(h, b) \subseteq Nat
  BY LenProperties DEF Carrying
<1>2. PICK n \in Carrying(h, b) : \A j \in Carrying(h, b) : ~(<<j, n>> \in OpToRel(<, Nat))
  <2>1. IsWellFoundedOn(OpToRel(<, Nat), Nat)
    BY NatLessThanWellFounded
  <2> QED BY <1>1, <2>1, WFMin
<1>3. \A j \in Carrying(h, b) : n <= j
  <2> SUFFICES ASSUME NEW j \in Carrying(h, b) PROVE n <= j
    OBVIOUS
  <2>1. ~(j < n)
    BY <1>1, <1>2, Zenon DEF OpToRel
  <2> QED BY <1>1, <2>1
<1>4. FirstAt(h, b) \in Carrying(h, b) /\ \A j \in Carrying(h, b) : FirstAt(h, b) <= j
  BY <1>3 DEF FirstAt
<1>5. FirstCarrying(h, b) = b[FirstAt(h, b)]
  BY DEF FirstCarrying, FirstAt
<1>6. (\A j \in Carrying(h, b) : m <= j) => m = FirstAt(h, b)
  BY <1>1, <1>4
<1> QED BY <1>4, <1>5, <1>6 DEF Carrying

\* iter().find on a hash some proof carries: the result is a proof of the
\* bundle and carries the hash.
LEMMA FirstCarryingIsInBundle ==
    ASSUME NEW S, NEW b \in Seq(S), NEW h, Carrying(h, b) # {}
    PROVE  \E i \in DOMAIN b : b[i].proof_hash = h /\ FirstCarrying(h, b) = b[i]
BY FirstAtIsFirst DEF Carrying

\* What the assumptions say of one action, sealed or altered.
LEMMA RequestsAreTyped ==
    ASSUME NEW a \in Requests
    PROVE  /\ ActionOK(a)
           /\ \A b \in Alter(a) : ActionOK(b)
BY RequestsAssumption DEF ActionOK

LEMMA InitHolds == Init => IInv
<1> SUFFICES ASSUME Init PROVE IInv
  OBVIOUS
<1>1. TypeOK
  <2>1. ActionOK(action)
    BY RequestsAreTyped DEF Init
  <2>2. Len(bundle) \in Nat
    BY <2>1, LenProperties DEF ActionOK, bundle
  <2>3. capIx \in 1 .. Len(bundle) + 1
    BY <2>2 DEF Init
  <2>4. chain \in Seq(Proofs)
    BY EmptySeq DEF Init
  <2> QED BY <2>1, <2>3, <2>4 DEF TypeOK, Init, PCs
<1>2. Progress
  BY DEF Progress, Init
<1>3. Len(chain) <= MAX_CHAIN_DEPTH + 2
  BY DepthAssumption DEF Init
<1> QED BY <1>1, <1>2, <1>3 DEF IInv

-------------------------------------------------------------------------------
(* Steps *)

\* The facts about the walk and the loop depend on four variables only.
LEMMA Frame ==
    ASSUME UNCHANGED <<action, now, chain, found>>
    PROVE  /\ bundle' = bundle
           /\ Walked' <=> Walked
           /\ Anchored' <=> Anchored
           /\ \A n : Passed(n)' <=> Passed(n)
           /\ AnyProofRevoked(action)' <=> AnyProofRevoked(action)
           /\ verify_binding(action)' <=> verify_binding(action)
<1>1. action' = action /\ now' = now /\ chain' = chain /\ found' = found
  OBVIOUS
<1>2. bundle' = bundle
  BY <1>1 DEF bundle
<1>3. Walked' <=> Walked
  BY <1>1, <1>2 DEF Walked
<1>4. Anchored' <=> Anchored
  BY <1>1, <1>3 DEF Anchored, current
<1>5. \A n : Passed(n)' <=> Passed(n)
  BY <1>1, <1>2 DEF Passed
<1> QED BY <1>1, <1>2, <1>3, <1>4, <1>5

\* A proof passed at position n extends what is known up to n.
LEMMA PassOne ==
    ASSUME TypeOK, Passed(capIx),
           capIx <= Len(bundle),
           cap.subject_id = action.actor_id =>
               /\ found
               /\ GrantAdmissible(cap, action, now)
               /\ action.required_rights \subseteq cap.rights
    PROVE  Passed(capIx + 1)
<1>1. capIx \in Nat
  BY LenProperties DEF TypeOK, ActionOK, bundle
<1>2. \A i \in 1 .. (capIx + 1) - 1 : i \in 1 .. capIx - 1 \/ i = capIx
  BY <1>1
<1> QED BY <1>2 DEF Passed, cap

LEMMA ExecuteStep ==
    ASSUME IInv, NEW a \in {sealed} \cup Alter(sealed), NEW t \in Times, Execute(a, t)
    PROVE  IInv'
<1> USE DEF IInv
<1>1. ActionOK(a)
  BY RequestsAreTyped, Zenon DEF TypeOK
<1>2. Len(a.capability_proofs) \in Nat
  BY <1>1, LenProperties DEF ActionOK
<1>3. capIx = 1 /\ chain = << >> /\ ~found /\ decision = "None"
  BY DEF Progress, Execute
<1>4. TypeOK'
  BY <1>1, <1>2, <1>3 DEF TypeOK, Execute, ActionOK, bundle, PCs
<1>5. Progress'
  BY <1>3 DEF Progress, Execute
<1> QED BY <1>4, <1>5 DEF Execute

LEMMA CanonicalGateStep ==
    ASSUME IInv, CanonicalGate
    PROVE  IInv'
<1> USE DEF IInv
<1>1. TypeOK'
  BY DEF TypeOK, CanonicalGate, Return, bundle, PCs
<1>2. capIx = 1 /\ chain = << >> /\ ~found /\ decision = "None"
  BY DEF Progress, CanonicalGate
<1>3. Passed(1)
  BY DEF Passed
<1>4. Progress'
  <2>1. CASE verify_binding(action) /\ bundle # << >>
    BY <1>2, <1>3, <2>1, Frame DEF Progress, CanonicalGate
  <2>2. CASE ~(verify_binding(action) /\ bundle # << >>)
    BY <2>2 DEF Progress, CanonicalGate, Return
  <2> QED BY <2>1, <2>2
<1> QED BY <1>1, <1>4 DEF CanonicalGate

LEMMA SkipProofStep ==
    ASSUME IInv, SkipProof
    PROVE  IInv'
<1> USE DEF IInv
<1>0. capIx \in Nat /\ Len(bundle) \in Nat
  BY LenProperties DEF TypeOK, ActionOK, bundle
<1>1. TypeOK'
  BY <1>0 DEF TypeOK, SkipProof, bundle
<1>2. Passed(capIx + 1)
  BY PassOne DEF Progress, SkipProof
<1>3. Progress'
  BY <1>2, Frame DEF Progress, SkipProof
<1> QED BY <1>1, <1>3 DEF SkipProof

LEMMA TakeGrantStep ==
    ASSUME IInv, TakeGrant
    PROVE  IInv'
<1> USE DEF IInv
<1>0. /\ capIx \in Nat /\ Len(bundle) \in Nat /\ capIx \in DOMAIN bundle
      /\ cap \in Proofs /\ bundle' = bundle /\ cap' = cap
  <2>1. capIx \in Nat /\ Len(bundle) \in Nat /\ capIx \in 1 .. Len(bundle)
    BY LenProperties DEF TypeOK, ActionOK, bundle, TakeGrant
  <2>2. capIx \in DOMAIN bundle
    BY <2>1, LenProperties DEF TypeOK, ActionOK, bundle
  <2>3. cap \in Proofs
    BY <2>1, ElementOfSeq DEF TypeOK, ActionOK, cap, bundle
  <2> QED BY <2>1, <2>2, <2>3 DEF TakeGrant, bundle, cap
<1>1. Passed(capIx)'
  BY <1>0 DEF Progress, Passed, TakeGrant
<1>2. CASE GrantAdmissible(cap, action, now)
  <2>1. chain' = <<cap>> /\ chain' \in Seq(Proofs) /\ Len(chain') = 1 /\ chain'[1] = cap
    <3>1. chain' = <<cap>>
      BY <1>2 DEF TakeGrant
    <3>2. <<cap>> \in Seq(Proofs) /\ Len(<<cap>>) = 1 /\ <<cap>>[1] = cap
      BY <1>0
    <3> QED BY <3>1, <3>2
  <2>2. TypeOK'
    BY <1>0, <1>2, <2>1 DEF TypeOK, TakeGrant, PCs
  <2>3. Walked'
    BY <1>0, <1>2, <2>1, DepthAssumption DEF Walked, TakeGrant, GrantAdmissible, cap
  <2>4. InChain'
    BY <1>0, <1>2, <2>1, <2>3 DEF InChain, TakeGrant
  <2>5. Progress'
    BY <1>1, <1>2, <2>4, <1>0 DEF Progress, TakeGrant, verify_binding
  <2> QED BY <2>1, <2>2, <2>5, DepthAssumption
<1>3. CASE ~GrantAdmissible(cap, action, now)
  <2>1. TypeOK'
    BY <1>0, <1>3 DEF TypeOK, TakeGrant, Return, PCs
  <2>2. Progress'
    BY <1>3 DEF Progress, TakeGrant, Return
  <2> QED BY <1>3, <2>1, <2>2 DEF TakeGrant
<1> QED BY <1>2, <1>3

LEMMA RejectNodeStep ==
    ASSUME IInv, RejectNode
    PROVE  IInv'
<1> USE DEF IInv
<1>1. TypeOK'
  BY DEF TypeOK, RejectNode, Return, PCs, bundle
<1>2. Progress'
  BY DEF Progress, RejectNode, Return
<1> QED BY <1>1, <1>2 DEF RejectNode

\* The walk gains a node: the parent is a proof of the bundle, and what it
\* shares with the leaf follows from what the child shares with it.
LEMMA FollowParentStep ==
    ASSUME IInv, FollowParent
    PROVE  IInv'
<1> USE DEF IInv
<1> DEFINE n == Len(chain)
           parent == FirstCarrying(current.issuer, bundle)
<1>0. /\ bundle \in Seq(Proofs) /\ chain \in Seq(Proofs) /\ n \in Nat
      /\ InChain /\ Walked /\ n >= 1 /\ n - 1 <= MAX_CHAIN_DEPTH
  BY LenProperties
     DEF TypeOK, ActionOK, bundle, Progress, InChain, Walked, FollowParent, DepthAllowed
<1>1. PICK i \in DOMAIN bundle : parent = bundle[i]
  BY <1>0, FirstCarryingIsInBundle DEF FollowParent, DelegatedNode
<1>2. parent \in Proofs
  BY <1>0, <1>1, LenProperties, ElementOfSeq
<1>3. /\ chain' = Append(chain, parent) /\ chain' \in Seq(Proofs)
      /\ Len(chain') = n + 1 /\ chain'[n + 1] = parent
      /\ \A k \in 1 .. n : chain'[k] = chain[k]
  BY <1>0, <1>2, AppendProperties DEF FollowParent
<1>4. bundle' = bundle /\ cap' = cap /\ action' = action /\ found' = found
      /\ now' = now /\ capIx' = capIx /\ pc' = "chain" /\ decision' = decision
      /\ sealed' = sealed
  BY DEF FollowParent, bundle, cap
<1>5. TypeOK'
  BY <1>3, <1>4 DEF TypeOK, PCs
<1>6. Delegates(parent, chain[n]) /\ NodeFresh(chain[n], action)
      /\ chain[n].issuer_pubkey \in Keys
      /\ chain[n].signature =
            Signature(chain[n].issuer_pubkey, signing_message(chain[n]))
  BY DEF FollowParent, DelegatedNode, Verifies, current
<1>7. Walked'
  <2>1. Len(chain') >= 1 /\ Len(chain') <= MAX_CHAIN_DEPTH + 2
    BY <1>0, <1>3, DepthAssumption
  <2>2. chain'[1] = chain[1]
    BY <1>0, <1>3
  <2>3. ASSUME NEW k \in 1 .. Len(chain')
        PROVE  /\ \E j \in DOMAIN bundle : chain'[k] = bundle[j]
               /\ chain'[k].resource_hash = action.resource_hash
               /\ chain'[1].rights \subseteq chain'[k].rights
    <3>1. CASE k \in 1 .. n
      BY <1>0, <1>3, <2>2, <3>1 DEF Walked
    <3>2. CASE k = n + 1
      <4>1. chain[n].resource_hash = action.resource_hash
            /\ chain[1].rights \subseteq chain[n].rights
        BY <1>0 DEF Walked
      <4> QED BY <1>1, <1>3, <1>6, <2>2, <3>2, <4>1 DEF Delegates
    <3> QED BY <1>0, <1>3, <3>1, <3>2
  <2>4. ASSUME NEW k \in 1 .. Len(chain') - 1
        PROVE  /\ chain'[k].epoch >= action.min_epoch
               /\ chain'[k].issuer_pubkey \in Keys
               /\ chain'[k].signature =
                     Signature(chain'[k].issuer_pubkey, signing_message(chain'[k]))
               /\ Sha256(chain'[k].issuer_pubkey) = chain'[k + 1].subject_id
    <3>1. CASE k \in 1 .. n - 1
      <4>1. chain'[k] = chain[k] /\ chain'[k + 1] = chain[k + 1]
        BY <1>0, <1>3, <3>1
      <4> QED BY <1>0, <3>1, <4>1 DEF Walked
    <3>2. CASE k = n
      <4>1. chain'[k] = chain[n] /\ chain'[k + 1] = parent
        BY <1>0, <1>3, <3>2
      <4> QED BY <1>6, <4>1 DEF Delegates, NodeFresh
    <3> QED BY <1>0, <1>3, <3>1, <3>2
  <2> QED BY <1>0, <1>4, <2>1, <2>2, <2>3, <2>4 DEF Walked
<1>8. InChain'
  BY <1>0, <1>3, <1>4, <1>7 DEF InChain
<1>9. Progress'
  <2>1. Passed(capIx)'
    BY <1>4 DEF Progress, Passed, FollowParent
  <2> QED BY <1>4, <1>8, <2>1 DEF Progress, FollowParent
<1> QED BY <1>5, <1>7, <1>9 DEF Walked

LEMMA ReachRootStep ==
    ASSUME IInv, ReachRoot
    PROVE  IInv'
<1> USE DEF IInv
<1>0. capIx \in Nat /\ Len(bundle) \in Nat /\ bundle' = bundle
  BY LenProperties DEF TypeOK, ActionOK, bundle, ReachRoot
<1>1. CASE action.required_rights \subseteq cap.rights
  <2>1. TypeOK'
    BY <1>0, <1>1 DEF TypeOK, ReachRoot, PCs, Progress, InChain
  <2>2. Passed(capIx + 1)
    BY <1>1, PassOne DEF Progress, InChain, ReachRoot
  <2>3. Anchored
    <3>1. Len(chain) <= MAX_CHAIN_DEPTH + 1
      BY DepthAssumption, LenProperties DEF ReachRoot, DepthAllowed, TypeOK
    <3> QED BY <1>1, <3>1 DEF Anchored, Progress, InChain, ReachRoot, NodeFresh
  <2>4. Progress'
    BY <1>1, <2>2, <2>3, Frame DEF Progress, InChain, ReachRoot
  <2> QED BY <2>1, <2>4 DEF ReachRoot
<1>2. CASE ~(action.required_rights \subseteq cap.rights)
  <2>1. TypeOK'
    BY <1>0, <1>2 DEF TypeOK, ReachRoot, Return, PCs
  <2>2. Progress'
    BY <1>2 DEF Progress, ReachRoot, Return
  <2> QED BY <2>1, <2>2 DEF ReachRoot
<1> QED BY <1>1, <1>2

LEMMA EndOfProofsStep ==
    ASSUME IInv, EndOfProofs
    PROVE  IInv'
<1> USE DEF IInv
<1>0. capIx = Len(bundle) + 1 /\ bundle' = bundle
  BY LenProperties DEF TypeOK, ActionOK, bundle, EndOfProofs
<1>1. TypeOK'
  BY <1>0 DEF TypeOK, EndOfProofs, Return, PCs
<1>2. Progress'
  <2>1. CASE found
    BY <1>0, <2>1, Frame DEF Progress, EndOfProofs
  <2>2. CASE ~found
    BY <2>2 DEF Progress, EndOfProofs, Return
  <2> QED BY <2>1, <2>2
<1> QED BY <1>1, <1>2 DEF EndOfProofs

LEMMA CheckRevocationsStep ==
    ASSUME IInv, CheckRevocations
    PROVE  IInv'
<1> USE DEF IInv
<1>1. TypeOK'
  BY DEF TypeOK, CheckRevocations, Return, PCs, bundle
<1>2. Progress'
  <2>1. CASE AnyProofRevoked(action)
    BY <2>1 DEF Progress, CheckRevocations, Return
  <2>2. CASE ~AnyProofRevoked(action)
    BY <2>2, Frame DEF Progress, CheckRevocations
  <2> QED BY <2>1, <2>2
<1> QED BY <1>1, <1>2 DEF CheckRevocations

LEMMA CheckConsentStep ==
    ASSUME IInv, CheckConsent
    PROVE  IInv'
<1> USE DEF IInv
<1>1. TypeOK'
  BY DEF TypeOK, CheckConsent, Return, PCs, bundle
<1>2. Progress'
  BY Frame DEF Progress, CheckConsent, Return
<1> QED BY <1>1, <1>2 DEF CheckConsent

LEMMA NextHolds == IInv /\ [Next]_vars => IInv'
<1> SUFFICES ASSUME IInv, [Next]_vars PROVE IInv'
  OBVIOUS
<1>1. ASSUME NEW a \in {sealed} \cup Alter(sealed), NEW t \in Times, Execute(a, t)
      PROVE  IInv'
  BY <1>1, ExecuteStep
<1>2. CASE VerifyStep
  BY <1>2, CanonicalGateStep, SkipProofStep, TakeGrantStep, RejectNodeStep,
     FollowParentStep, ReachRootStep, EndOfProofsStep, CheckRevocationsStep,
     CheckConsentStep DEF VerifyStep
<1>3. CASE UNCHANGED vars
  <2>1. TypeOK'
    BY <1>3 DEF vars, IInv, TypeOK, bundle
  <2>2. InChain' <=> InChain
    BY <1>3, Frame DEF vars, InChain, cap
  <2>3. Progress'
    BY <1>3, <2>2, Frame DEF vars, IInv, Progress
  <2> QED BY <1>3, <2>1, <2>3 DEF vars, IInv
<1> QED BY <1>1, <1>2, <1>3 DEF Next

\* The inductive invariant holds in every reachable state.
THEOREM Inductive == Spec => []IInv
BY InitHolds, NextHolds, PTL DEF Spec

-------------------------------------------------------------------------------
(* Theorems *)

\* verify keeps the types of its locals: the loop index stays within one past
\* the bundle and the walk visits proofs of the bundle's type.
THEOREM TypeCorrect == Spec => []TypeOK
<1>1. IInv => TypeOK
  BY DEF IInv
<1> QED BY <1>1, Inductive, PTL

\* No chain of delegations, however long or arranged, yields more than a grant
\* the root key signed (validate_chain and the rights check of verify).
THEOREM RootGrantAlwaysCovers == Spec => []RootGrantCovers
<1>1. IInv => RootGrantCovers
  <2> SUFFICES ASSUME IInv, decision = "Permit" PROVE RootGrantCovers
    BY DEF RootGrantCovers
  <2>1. Anchored /\ Walked
    BY DEF IInv, Progress, Anchored
  <2>2. Len(chain) \in 1 .. Len(chain)
    BY <2>1, LenProperties DEF Walked, IInv, TypeOK
  <2>3. PICK i \in DOMAIN bundle : current = bundle[i]
    BY <2>1, <2>2 DEF Walked, current
  <2>4. /\ current.resource_hash = action.resource_hash
        /\ action.required_rights \subseteq current.rights
    BY <2>1, <2>2 DEF Walked, Anchored, current
  <2> QED BY <2>1, <2>3, <2>4 DEF Anchored, RootGrantCovers
<1> QED BY <1>1, Inductive, PTL

\* Behind a permit every delegation was signed by the principal the node above
\* it was issued to, and no node is of a retired epoch (AT-5.1, AT-3.1).
THEOREM ChainAlwaysHeldByItsSigners == Spec => []ChainHeldByItsSigners
<1>1. IInv => ChainHeldByItsSigners
  <2> SUFFICES ASSUME IInv, decision = "Permit", NEW k \in DOMAIN chain
               PROVE  /\ chain[k].epoch >= action.min_epoch
                      /\ k < Len(chain) =>
                           \E key \in Keys :
                              /\ Sha256(key) = chain[k + 1].subject_id
                              /\ chain[k].signature =
                                    Signature(key, signing_message(chain[k]))
    BY DEF ChainHeldByItsSigners
  <2>1. Anchored /\ Walked
    BY DEF IInv, Progress, Anchored
  <2>2. Len(chain) \in Nat /\ k \in 1 .. Len(chain)
    BY LenProperties DEF IInv, TypeOK
  <2>3. CASE k = Len(chain)
    BY <2>1, <2>2, <2>3 DEF Anchored, current
  <2>4. CASE k \in 1 .. Len(chain) - 1
    BY <2>1, <2>4 DEF Walked
  <2> QED BY <2>2, <2>3, <2>4
<1> QED BY <1>1, Inductive, PTL

\* All the proofs an actor presents must hold, and there is at least one.
THEOREM EveryGrantAlwaysHolds == Spec => []EveryGrantHolds
<1>1. IInv => EveryGrantHolds
  <2> SUFFICES ASSUME IInv, decision = "Permit" PROVE EveryGrantHolds
    BY DEF EveryGrantHolds
  <2>1. Anchored /\ Walked /\ Passed(Len(bundle) + 1)
    BY DEF IInv, Progress, Anchored
  <2>2. Len(bundle) \in Nat /\ DOMAIN bundle = 1 .. (Len(bundle) + 1) - 1
    BY LenProperties DEF IInv, TypeOK, ActionOK, bundle
  <2>3. \E i \in DOMAIN bundle : bundle[i].subject_id = action.actor_id
    <3>1. 1 \in 1 .. Len(chain)
      BY <2>1, LenProperties DEF Walked, IInv, TypeOK
    <3> QED BY <2>1, <3>1 DEF Walked
  <2> QED BY <2>1, <2>2, <2>3 DEF Passed, EveryGrantHolds
<1> QED BY <1>1, Inductive, PTL

\* A root-signed notice for any proof of the bundle prevents a permit.
THEOREM RevocationAlwaysBinds == Spec => []RevocationBinds
<1>1. IInv => RevocationBinds
  BY DEF IInv, Progress, RevocationBinds, AnyProofRevoked, Revoked, bundle
<1> QED BY <1>1, Inductive, PTL

\* The walk visits at most two nodes more than MAX_CHAIN_DEPTH, so a bundle
\* whose parent hashes form a cycle cannot keep it going.
THEOREM WalkAlwaysBounded == Spec => []WalkBounded
<1>1. IInv => WalkBounded
  BY DEF IInv, Progress, Anchored, WalkBounded
<1> QED BY <1>1, Inductive, PTL

-------------------------------------------------------------------------------
(* The seal *)

\* What the hash binds of the proofs of an action.
LEMMA ProofsBound ==
    ASSUME NEW s, NEW t, Each(s, to_canonical_bytes) = Each(t, to_canonical_bytes)
    PROVE  AgreeEach(ProofFieldsButIssuer, s, t)
<1>1. DOMAIN s = DOMAIN t
  BY DEF Each
<1>2. ASSUME NEW i \in DOMAIN s
      PROVE  to_canonical_bytes(s[i]) = to_canonical_bytes(t[i])
  BY <1>1, <1>2 DEF Each
<1>3. ASSUME NEW i \in DOMAIN s PROVE AgreeOn(ProofFieldsButIssuer, s[i], t[i])
  BY <1>2, <1>3 DEF AgreeOn, ProofFieldsButIssuer, to_canonical_bytes
<1> QED BY <1>1, <1>3 DEF AgreeEach

\* What it binds of the notices.
LEMMA NoticesBound ==
    ASSUME NEW s, NEW t, Each(s, LAMBDA r : <<revocation_message(r), r.signature>>) = Each(t, LAMBDA r : <<revocation_message(r), r.signature>>)
    PROVE  AgreeEach(NoticeFields, s, t)
<1>1. DOMAIN s = DOMAIN t
  BY DEF Each
<1>2. ASSUME NEW i \in DOMAIN s
      PROVE  <<revocation_message(s[i]), s[i].signature>> = <<revocation_message(t[i]), t[i].signature>>
  BY <1>1, <1>2 DEF Each
<1>3. ASSUME NEW i \in DOMAIN s PROVE AgreeOn(NoticeFields, s[i], t[i])
  BY <1>2, <1>3 DEF AgreeOn, NoticeFields, revocation_message
<1> QED BY <1>1, <1>3 DEF AgreeEach

\* What it binds of the consents.
LEMMA ConsentsBound ==
    ASSUME NEW s, NEW t, Each(s, consent_canonical_bytes) = Each(t, consent_canonical_bytes)
    PROVE  AgreeEach(ConsentFields, s, t)
<1>1. DOMAIN s = DOMAIN t
  BY DEF Each
<1>2. ASSUME NEW i \in DOMAIN s
      PROVE  consent_canonical_bytes(s[i]) = consent_canonical_bytes(t[i])
  BY <1>1, <1>2 DEF Each
<1>3. ASSUME NEW i \in DOMAIN s PROVE AgreeOn(ConsentFields, s[i], t[i])
  BY <1>2, <1>3 DEF AgreeOn, ConsentFields, consent_canonical_bytes, consent_message
<1> QED BY <1>1, <1>3 DEF AgreeEach

\* Hashes that agree are of the same fields.
LEMMA SealedFields ==
    ASSUME NEW a, NEW b, compute_hash(a) = compute_hash(b)
    PROVE  /\ AgreeOn(ActionFields, a, b)
           /\ AgreeEach(ProofFieldsButIssuer, a.capability_proofs, b.capability_proofs)
           /\ AgreeEach(NoticeFields, a.revocation_proofs, b.revocation_proofs)
           /\ AgreeEach(ConsentFields, a.consent_proofs, b.consent_proofs)
<1>1. /\ a.actor_id = b.actor_id /\ a.resource_hash = b.resource_hash
      /\ a.required_rights = b.required_rights /\ a.nonce = b.nonce /\ a.timestamp = b.timestamp
      /\ a.min_epoch = b.min_epoch /\ a.requires_consent = b.requires_consent
      /\ Each(a.capability_proofs, to_canonical_bytes) = Each(b.capability_proofs, to_canonical_bytes)
      /\ Each(a.revocation_proofs, LAMBDA r : <<revocation_message(r), r.signature>>)
           = Each(b.revocation_proofs, LAMBDA r : <<revocation_message(r), r.signature>>)
      /\ Each(a.consent_proofs, consent_canonical_bytes) = Each(b.consent_proofs, consent_canonical_bytes)
  BY DEF compute_hash, Sha256
<1> QED BY <1>1, ProofsBound, NoticesBound, ConsentsBound DEF AgreeOn, ActionFields

\* From the canonical gate on the seal of the action is known to be its own.
SealInv ==
    /\ sealed \in Requests
    /\ pc \in {"caps", "chain", "revocations", "consent"} => verify_binding(action)
    /\ decision = "Permit" => verify_binding(action)

LEMMA SealInit == Init => SealInv
BY DEF Init, SealInv

LEMMA SealNext == IInv /\ SealInv /\ [Next]_vars => SealInv'
<1> SUFFICES ASSUME IInv, SealInv, [Next]_vars PROVE SealInv'
  OBVIOUS
<1> USE DEF SealInv
<1>1. ASSUME NEW a \in {sealed} \cup Alter(sealed), NEW t \in Times, Execute(a, t) PROVE SealInv'
  <2>1. decision = "None"
    BY <1>1 DEF Execute, IInv, Progress
  <2> QED BY <1>1, <2>1 DEF Execute
<1>2. CASE VerifyStep
  <2>1. UNCHANGED <<sealed, action>>
    BY <1>2 DEF VerifyStep, CanonicalGate, SkipProof, TakeGrant, RejectNode, FollowParent, ReachRoot,
                EndOfProofs, CheckRevocations, CheckConsent
  <2>2. verify_binding(action)' <=> verify_binding(action)
    BY <2>1
  <2>3. CASE CanonicalGate
    BY <2>1, <2>2, <2>3 DEF CanonicalGate, Return, IInv, Progress
  <2>4. CASE ~CanonicalGate
    <3>1. verify_binding(action)
      BY <1>2, <2>4 DEF VerifyStep, SkipProof, TakeGrant, RejectNode, FollowParent, ReachRoot,
                        EndOfProofs, CheckRevocations, CheckConsent
    <3> QED BY <2>1, <2>2, <3>1
  <2> QED BY <2>3, <2>4
<1>3. CASE UNCHANGED vars
  BY <1>3 DEF vars, verify_binding
<1> QED BY <1>1, <1>2, <1>3 DEF Next

\* The nodes of the chain behind a permit bear signatures made over themselves.
LEMMA ChainIsGenuine ==
    ASSUME IInv, decision = "Permit", NEW k \in DOMAIN chain
    PROVE  Genuine(chain[k]) /\ \E i \in DOMAIN bundle : chain[k] = bundle[i]
<1>1. Anchored /\ Walked
  BY DEF IInv, Progress, Anchored
<1>2. Len(chain) \in Nat /\ k \in 1 .. Len(chain)
  BY LenProperties DEF IInv, TypeOK
<1>3. CASE k = Len(chain)
  BY <1>1, <1>2, <1>3, RootKeyAssumption DEF Anchored, Walked, RootGrant, Verifies, current, Genuine
<1>4. CASE k \in 1 .. Len(chain) - 1
  BY <1>1, <1>2, <1>4 DEF Walked, Genuine
<1> QED BY <1>2, <1>3, <1>4

\* Two genuine proofs with one signature name one parent.
LEMMA OneSignatureOneIssuer ==
    ASSUME NEW p, NEW q, Genuine(p), Genuine(q), p.signature = q.signature
    PROVE  p.issuer = q.issuer
<1>1. PICK j, l : Signature(j, signing_message(p)) = Signature(l, signing_message(q))
  BY DEF Genuine
<1>2. signing_message(p) = signing_message(q)
  BY <1>1 DEF Signature
<1> QED BY <1>2 DEF signing_message

\* Layer 1: whatever alters an action between the adapter and the gate without
\* sealing it anew, what is permitted is in every field what was sealed, but for
\* the issuers of proofs, and these lead no walk elsewhere.
THEOREM PermitAlwaysAsSealed == Spec => []PermitAsSealed
<1>1. IInv /\ SealInv => PermitAsSealed
  <2> SUFFICES ASSUME IInv, SealInv, decision = "Permit", action.binding_hash = sealed.binding_hash
               PROVE  PermitAsSealed
    BY DEF PermitAsSealed
  <2>1. compute_hash(action) = compute_hash(sealed)
    BY SealAssumption DEF SealInv, verify_binding
  <2>2. ASSUME NEW k \in DOMAIN chain
        PROVE  \E i \in DOMAIN bundle :
                  /\ chain[k] = bundle[i]
                  /\ Genuine(sealed.capability_proofs[i]) => chain[k].issuer = sealed.capability_proofs[i].issuer
    <3>1. PICK i \in DOMAIN bundle : chain[k] = bundle[i] /\ Genuine(chain[k])
      BY <2>2, ChainIsGenuine
    <3>2. AgreeEach(ProofFieldsButIssuer, bundle, sealed.capability_proofs)
      BY <2>1, SealedFields DEF bundle
    <3>3. bundle[i].signature = sealed.capability_proofs[i].signature
      BY <3>2 DEF AgreeEach, AgreeOn, ProofFieldsButIssuer
    <3> QED BY <3>1, <3>3, OneSignatureOneIssuer
  <2> QED BY <2>1, <2>2, SealedFields DEF PermitAsSealed, bundle
<1> QED BY <1>1, InitHolds, NextHolds, SealInit, SealNext, PTL DEF Spec

-------------------------------------------------------------------------------
(* The policy *)

\* The policy's words for roots, delegations and grants are the gate's.
LEMMA PolicyRoots ==
    ASSUME NEW a, NEW i \in DOMAIN a.capability_proofs
    PROVE  i \in Policy!RootGranted(a) <=> RootGrant(a.capability_proofs[i])
BY DEF Policy!RootGranted, Policy!Positions, Policy!At, Policy!Verifies, Policy!Signature,
       Policy!signing_message, RootGrant, Verifies, Signature, signing_message

LEMMA PolicyDelegations ==
    ASSUME NEW S, NEW a, a.capability_proofs \in Seq(S),
           NEW i \in DOMAIN a.capability_proofs, NEW j \in DOMAIN a.capability_proofs
    PROVE  Policy!DelegatedFrom(a, i, j) <=>
              LET b == a.capability_proofs
              IN  /\ DelegatedNode(b[i], b) /\ Delegates(b[j], b[i])
                  /\ j = FirstAt(b[i].issuer, b)
<1> DEFINE b == a.capability_proofs
<1>1. b \in Seq(S) /\ i \in DOMAIN b /\ j \in DOMAIN b
  OBVIOUS
<1>2. DOMAIN b \subseteq Nat
  BY <1>1, LenProperties
<1>3. Policy!DelegatedFrom(a, i, j) <=>
          /\ b[i].issuer # Root /\ b[i].issuer = b[j].proof_hash
          /\ \A k \in DOMAIN b : b[k].proof_hash = b[j].proof_hash => k >= j
          /\ Verifies(b[i].issuer_pubkey, signing_message(b[i]), b[i].signature)
          /\ Delegates(b[j], b[i])
  BY DEF Policy!DelegatedFrom, Policy!Positions, Policy!At, Policy!Verifies, Policy!Signature,
         Policy!signing_message, Policy!Sha256, Verifies, Signature, signing_message, Sha256, Delegates
<1>4. ASSUME b[i].issuer = b[j].proof_hash, \A k \in DOMAIN b : b[k].proof_hash = b[j].proof_hash => k >= j
      PROVE  Carrying(b[i].issuer, b) # {} /\ j = FirstAt(b[i].issuer, b)
  <2>1. j \in Carrying(b[i].issuer, b) /\ \A k \in Carrying(b[i].issuer, b) : j <= k
    BY <1>1, <1>2, <1>4 DEF Carrying
  <2> HIDE DEF b
  <2> QED BY <1>1, <2>1, FirstAtIsFirst
<1>5. ASSUME Carrying(b[i].issuer, b) # {}, j = FirstAt(b[i].issuer, b)
      PROVE  /\ b[i].issuer = b[j].proof_hash
             /\ \A k \in DOMAIN b : b[k].proof_hash = b[j].proof_hash => k >= j
  <2> HIDE DEF b
  <2>1. j \in Carrying(b[i].issuer, b) /\ \A k \in Carrying(b[i].issuer, b) : j <= k
    BY <1>1, <1>5, FirstAtIsFirst
  <2> QED BY <1>2, <1>1, <2>1 DEF Carrying
<1> HIDE DEF b
<1>6. Policy!DelegatedFrom(a, i, j) <=>
          DelegatedNode(b[i], b) /\ Delegates(b[j], b[i]) /\ j = FirstAt(b[i].issuer, b)
  BY <1>3, <1>4, <1>5 DEF DelegatedNode
<1> QED BY <1>6 DEF b

\* p gives the positions of the nodes visited, each delegated from the next.
WalkAt(p) ==
    /\ p \in [0 .. Len(chain) - 1 -> DOMAIN bundle]
    /\ p[0] = capIx
    /\ \A k \in 0 .. Len(chain) - 1 : chain[k + 1] = bundle[p[k]]
    /\ \A k \in 0 .. Len(chain) - 2 : /\ p[k] \in Policy!Fresh(action)
                                      /\ Policy!DelegatedFrom(action, p[k], p[k + 1])

\* A path from the proof the loop stands at to a root grant, if there is one,
\* starts with p: a hash names one parent.
OnlyWay(p) ==
    \A m \in 0 .. MAX_CHAIN_DEPTH : \A path \in [0 .. m -> Policy!Fresh(action)] :
        path[0] = capIx /\ Policy!LeadsToRoot(action, m, path) =>
            Len(chain) - 1 <= m /\ \A k \in 0 .. Len(chain) - 1 : path[k] = p[k]

PassedAnchored(n) ==
    \A i \in 1 .. n - 1 : bundle[i].subject_id = action.actor_id =>
        i \in Policy!Anchored(action, MAX_CHAIN_DEPTH)

WalkInv ==
    /\ pc = "chain" => \E p : WalkAt(p) /\ OnlyWay(p)
    /\ pc \in {"caps", "chain"} => PassedAnchored(capIx)
    /\ pc \in {"revocations", "consent"} => PassedAnchored(Len(bundle) + 1)

\* What the type invariant says of the loop and the walk.
LEMMA LoopFacts ==
    ASSUME IInv, pc = "chain"
    PROVE  /\ bundle \in Seq(Proofs) /\ DOMAIN bundle = 1 .. Len(bundle) /\ Len(bundle) \in Nat
           /\ chain \in Seq(Proofs) /\ Len(chain) \in Nat /\ Len(chain) >= 1
           /\ capIx \in DOMAIN bundle /\ capIx \in Nat /\ decision = "None"
           /\ cap.subject_id = action.actor_id /\ GrantAdmissible(cap, action, now)
           /\ verify_binding(action) /\ MAX_CHAIN_DEPTH \in Nat
BY LenProperties, DepthAssumption DEF IInv, TypeOK, ActionOK, bundle, Progress, InChain, Walked

\* The last position visited is the current node's.
LEMMA WalkEnd ==
    ASSUME IInv, pc = "chain", NEW p, WalkAt(p)
    PROVE  p[Len(chain) - 1] \in DOMAIN bundle /\ current = bundle[p[Len(chain) - 1]]
<1>1. PICK n \in Nat : n = Len(chain) - 1
  <2>1. Len(chain) \in Nat /\ Len(chain) >= 1
    BY LoopFacts, Zenon
  <2> QED BY <2>1
<1>2. n \in 0 .. n /\ n + 1 = Len(chain)
  BY <1>1, LoopFacts
<1>3. p \in [0 .. n -> DOMAIN bundle] /\ chain[n + 1] = bundle[p[n]]
  BY <1>1, <1>2 DEF WalkAt
<1> QED BY <1>1, <1>2, <1>3 DEF current

LEMMA TakeGrantWalk ==
    ASSUME IInv, WalkInv, TakeGrant
    PROVE  WalkInv'
<1>0. /\ capIx \in Nat /\ Len(bundle) \in Nat /\ capIx \in DOMAIN bundle
      /\ action' = action /\ bundle' = bundle /\ capIx' = capIx /\ MAX_CHAIN_DEPTH \in Nat
  <2>1. capIx \in Nat /\ Len(bundle) \in Nat /\ capIx \in 1 .. Len(bundle)
    BY LenProperties DEF IInv, TypeOK, ActionOK, bundle, TakeGrant
  <2>2. capIx \in DOMAIN bundle
    BY <2>1, LenProperties DEF IInv, TypeOK, ActionOK, bundle
  <2> QED BY <2>1, <2>2, DepthAssumption DEF TakeGrant, bundle
<1>1. PassedAnchored(capIx)'
  BY <1>0 DEF WalkInv, PassedAnchored, TakeGrant
<1>2. CASE GrantAdmissible(cap, action, now)
  <2>1. pc' = "chain" /\ chain' = <<cap>>
    BY <1>2 DEF TakeGrant
  <2>2. Len(chain') = 1 /\ chain'[1] = bundle[capIx]
    BY <2>1 DEF cap
  <2>3. PICK p : p = [k \in 0 .. 0 |-> capIx]
    OBVIOUS
  <2>4. p \in [0 .. 0 -> DOMAIN bundle] /\ p[0] = capIx
    BY <1>0, <2>3
  <2>5. WalkAt(p)'
    BY <1>0, <2>2, <2>4 DEF WalkAt
  <2>6. OnlyWay(p)'
    BY <1>0, <2>2, <2>4 DEF OnlyWay
  <2> QED BY <1>1, <2>1, <2>5, <2>6 DEF WalkInv
<1>3. CASE ~GrantAdmissible(cap, action, now)
  BY <1>3 DEF TakeGrant, Return, WalkInv
<1> QED BY <1>2, <1>3

LEMMA FollowParentWalk ==
    ASSUME IInv, WalkInv, FollowParent
    PROVE  WalkInv'
<1> DEFINE n == Len(chain) - 1
           next == FirstAt(current.issuer, bundle)
<1>0. pc = "chain" /\ pc' = "chain" /\ action' = action /\ bundle' = bundle /\ capIx' = capIx
  BY DEF FollowParent, bundle
<1>1. /\ bundle \in Seq(Proofs) /\ DOMAIN bundle = 1 .. Len(bundle) /\ Len(bundle) \in Nat
      /\ chain \in Seq(Proofs) /\ Len(chain) \in Nat /\ Len(chain) >= 1 /\ n \in Nat
      /\ MAX_CHAIN_DEPTH \in Nat
  BY <1>0, LoopFacts
<1>2. PICK p : WalkAt(p) /\ OnlyWay(p)
  BY <1>0 DEF WalkInv
<1>3. p \in [0 .. n -> DOMAIN bundle] /\ p[n] \in DOMAIN bundle /\ current = bundle[p[n]]
  BY <1>0, <1>2, WalkEnd DEF WalkAt
<1>4. /\ DelegatedNode(current, bundle) /\ Delegates(FirstCarrying(current.issuer, bundle), current)
      /\ NodeFresh(current, action) /\ DepthAllowed(n)
      /\ chain' = Append(chain, FirstCarrying(current.issuer, bundle))
  BY DEF FollowParent
<1>5. next \in DOMAIN bundle /\ FirstCarrying(current.issuer, bundle) = bundle[next]
  BY <1>1, <1>4, FirstAtIsFirst DEF DelegatedNode
<1>6. /\ chain' \in Seq(Proofs) /\ Len(chain') = Len(chain) + 1 /\ chain'[Len(chain) + 1] = bundle[next]
      /\ \A k \in 1 .. Len(chain) : chain'[k] = chain[k]
  <2>1. bundle[next] \in Proofs
    BY <1>1, <1>5, ElementOfSeq
  <2> QED BY <1>1, <1>4, <1>5, <2>1, AppendProperties
<1>7. Policy!DelegatedFrom(action, p[n], next)
  BY <1>1, <1>3, <1>4, <1>5, PolicyDelegations DEF bundle
<1>8. p[n] \in Policy!Fresh(action)
  BY <1>3, <1>4 DEF Policy!Fresh, Policy!Positions, Policy!At, NodeFresh, bundle
<1>9. PICK q : q = [k \in 0 .. n + 1 |-> IF k = n + 1 THEN next ELSE p[k]]
  OBVIOUS
<1> HIDE DEF next
<1>10. /\ q \in [0 .. n + 1 -> DOMAIN bundle] /\ q[n + 1] = next
       /\ \A k \in 0 .. n : q[k] = p[k]
  BY <1>1, <1>3, <1>5, <1>9
<1>11. Len(chain') - 1 = n + 1 /\ Len(chain') - 2 = n /\ Len(chain) - 2 = n - 1
  BY <1>1, <1>6
<1> HIDE DEF n
<1>12. WalkAt(q)'
  <2>1. \A k \in 0 .. n + 1 : chain'[k + 1] = bundle[q[k]]
    <3> SUFFICES ASSUME NEW k \in 0 .. n + 1 PROVE chain'[k + 1] = bundle[q[k]]
      OBVIOUS
    <3>1. CASE k \in 0 .. n
      <4>1. k + 1 \in 1 .. Len(chain) /\ k \in 0 .. Len(chain) - 1
        BY <1>1, <3>1 DEF n
      <4> QED BY <1>2, <1>6, <1>10, <3>1, <4>1 DEF WalkAt
    <3>2. CASE k = n + 1
      <4>1. k + 1 = Len(chain) + 1
        BY <1>1, <3>2 DEF n
      <4> QED BY <1>6, <1>10, <3>2, <4>1
    <3> QED BY <1>1, <3>1, <3>2
  <2>2. \A k \in 0 .. n : /\ q[k] \in Policy!Fresh(action)
                         /\ Policy!DelegatedFrom(action, q[k], q[k + 1])
    <3> SUFFICES ASSUME NEW k \in 0 .. n
                 PROVE  q[k] \in Policy!Fresh(action) /\ Policy!DelegatedFrom(action, q[k], q[k + 1])
      OBVIOUS
    <3>1. CASE k \in 0 .. n - 1
      <4>1. k \in 0 .. Len(chain) - 2 /\ k + 1 \in 0 .. n /\ q[k] = p[k] /\ q[k + 1] = p[k + 1]
        BY <1>1, <1>10, <1>11, <3>1
      <4> QED BY <1>2, <4>1 DEF WalkAt
    <3>2. CASE k = n
      <4>1. q[k] = p[n] /\ q[k + 1] = next
        BY <1>1, <1>10, <3>2
      <4> QED BY <1>7, <1>8, <4>1
    <3> QED BY <1>1, <3>1, <3>2
  <2>3. q[0] = capIx
    BY <1>1, <1>2, <1>10 DEF WalkAt
  <2> QED BY <1>0, <1>10, <1>11, <2>1, <2>2, <2>3 DEF WalkAt
<1>13. OnlyWay(q)'
  <2> SUFFICES ASSUME NEW m \in 0 .. MAX_CHAIN_DEPTH, NEW path \in [0 .. m -> Policy!Fresh(action)],
                      path[0] = capIx, Policy!LeadsToRoot(action, m, path)
               PROVE  n + 1 <= m /\ \A k \in 0 .. n + 1 : path[k] = q[k]
    BY <1>0, <1>11 DEF OnlyWay
  <2>1. n <= m /\ \A k \in 0 .. n : path[k] = p[k]
    BY <1>2 DEF OnlyWay, n
  <2>2. path[n] = p[n] /\ m \in Nat
    BY <1>1, <2>1
  <2>3. m # n
    <3>1. path[m] \in Policy!RootGranted(action)
      BY DEF Policy!LeadsToRoot
    <3>2. ~RootGrant(current)
      BY <1>4 DEF DelegatedNode, RootGrant
    <3> QED BY <1>3, <2>2, <3>1, <3>2, PolicyRoots DEF bundle
  <2>4. n \in 0 .. m - 1 /\ n + 1 \in 0 .. m
    BY <1>1, <2>1, <2>2, <2>3
  <2>5. Policy!DelegatedFrom(action, p[n], path[n + 1])
    BY <2>2, <2>4 DEF Policy!LeadsToRoot
  <2>6. path[n + 1] \in DOMAIN bundle
    BY <2>4 DEF Policy!Fresh, Policy!Positions, bundle
  <2>7. path[n + 1] = next
    BY <1>1, <1>3, <2>5, <2>6, PolicyDelegations DEF bundle, next
  <2>8. \A k \in 0 .. n + 1 : k \in 0 .. n \/ k = n + 1
    BY <1>1
  <2> QED BY <1>1, <1>10, <2>1, <2>2, <2>3, <2>7, <2>8
<1>14. PassedAnchored(capIx)'
  BY <1>0 DEF WalkInv, PassedAnchored
<1> QED BY <1>0, <1>12, <1>13, <1>14 DEF WalkInv

\* A walk that ends at a root grant in time is a path of the policy.
LEMMA ReachRootAnchors ==
    ASSUME IInv, WalkInv, ReachRoot
    PROVE  capIx \in Policy!Anchored(action, MAX_CHAIN_DEPTH)
<1>1. pc = "chain"
  BY DEF ReachRoot
<1>2. PICK p : WalkAt(p)
  BY <1>1 DEF WalkInv
<1>3. PICK n \in Nat : n = Len(chain) - 1 /\ Len(chain) - 2 = n - 1
  <2>1. Len(chain) \in Nat /\ Len(chain) >= 1
    BY <1>1, LoopFacts, Zenon
  <2> QED BY <2>1
<1>4. /\ p \in [0 .. n -> DOMAIN bundle] /\ p[0] = capIx
      /\ \A k \in 0 .. n - 1 : p[k] \in Policy!Fresh(action) /\ Policy!DelegatedFrom(action, p[k], p[k + 1])
      /\ p[n] \in DOMAIN bundle /\ current = bundle[p[n]]
  BY <1>1, <1>2, <1>3, WalkEnd DEF WalkAt
<1>5. n \in 0 .. MAX_CHAIN_DEPTH
  BY <1>3, DepthAssumption DEF ReachRoot, DepthAllowed
<1>6. p[n] \in Policy!Fresh(action) /\ p[n] \in Policy!RootGranted(action)
  BY <1>4, PolicyRoots DEF ReachRoot, NodeFresh, Policy!Fresh, Policy!Positions, Policy!At, bundle
<1>7. p \in [0 .. n -> Policy!Fresh(action)]
  <2>1. \A k \in 0 .. n : p[k] \in Policy!Fresh(action)
    <3>1. \A k \in 0 .. n : k \in 0 .. n - 1 \/ k = n
      OBVIOUS
    <3> QED BY <1>4, <1>6, <3>1
  <2> QED BY <1>4, <2>1
<1>8. Policy!LeadsToRoot(action, n, p)
  BY <1>4, <1>6 DEF Policy!LeadsToRoot
<1>9. capIx \in Policy!Positions(action)
  BY <1>1, LoopFacts DEF Policy!Positions, bundle
<1> QED BY <1>4, <1>5, <1>7, <1>8, <1>9 DEF Policy!Anchored

\* A walk that is given up would have gone on along any path of the policy.
LEMMA RejectNodeUnanchored ==
    ASSUME IInv, WalkInv, RejectNode
    PROVE  capIx \notin Policy!Anchored(action, MAX_CHAIN_DEPTH)
<1> SUFFICES ASSUME capIx \in Policy!Anchored(action, MAX_CHAIN_DEPTH) PROVE FALSE
  OBVIOUS
<1>1. pc = "chain"
  BY DEF RejectNode
<1>2. PICK p : WalkAt(p) /\ OnlyWay(p)
  BY <1>1 DEF WalkInv
<1>2a. PICK m \in 0 .. MAX_CHAIN_DEPTH :
         \E path \in [0 .. m -> Policy!Fresh(action)] :
            path[0] = capIx /\ Policy!LeadsToRoot(action, m, path)
  BY DEF Policy!Anchored
<1>3. PICK path \in [0 .. m -> Policy!Fresh(action)] :
         path[0] = capIx /\ Policy!LeadsToRoot(action, m, path)
  BY <1>2a
<1>4. PICK n \in Nat : n = Len(chain) - 1
  <2>1. Len(chain) \in Nat /\ Len(chain) >= 1
    BY <1>1, LoopFacts, Zenon
  <2> QED BY <2>1
<1>5. n <= m /\ m \in Nat /\ m <= MAX_CHAIN_DEPTH /\ path[n] = p[n]
  BY <1>2, <1>3, <1>4, DepthAssumption DEF OnlyWay
<1>6. p[n] \in DOMAIN bundle /\ current = bundle[p[n]]
  BY <1>1, <1>2, <1>4, WalkEnd
<1>7. DepthAllowed(Len(chain) - 1)
  BY <1>4, <1>5, DepthAssumption DEF DepthAllowed
<1>8. NodeFresh(current, action)
  <2>1. path[n] \in Policy!Fresh(action)
    BY <1>5
  <2> QED BY <1>5, <1>6, <2>1 DEF Policy!Fresh, Policy!At, NodeFresh, bundle
<1>9. CASE n = m
  <2>1. path[n] \in Policy!RootGranted(action)
    BY <1>3, <1>9 DEF Policy!LeadsToRoot
  <2>2. RootGrant(current)
    BY <1>5, <1>6, <2>1, PolicyRoots DEF bundle
  <2> QED BY <1>7, <1>8, <2>2 DEF RejectNode
<1>10. CASE n # m
  <2>1. n \in 0 .. m - 1 /\ n + 1 \in 0 .. m
    BY <1>5, <1>10
  <2>2. Policy!DelegatedFrom(action, p[n], path[n + 1])
    BY <1>3, <1>5, <2>1 DEF Policy!LeadsToRoot
  <2>3. path[n + 1] \in DOMAIN bundle
    BY <2>1 DEF Policy!Fresh, Policy!Positions, bundle
  <2>4. bundle \in Seq(Proofs)
    BY <1>1, LoopFacts
  <2>5. /\ DelegatedNode(current, bundle) /\ Delegates(bundle[path[n + 1]], current)
        /\ path[n + 1] = FirstAt(current.issuer, bundle)
    BY <1>6, <2>2, <2>3, <2>4, PolicyDelegations DEF bundle
  <2>6. FirstCarrying(current.issuer, bundle) = bundle[path[n + 1]]
    BY <2>5 DEF FirstCarrying, FirstAt
  <2> QED BY <1>7, <1>8, <2>5, <2>6 DEF RejectNode
<1> QED BY <1>9, <1>10

\* The proof the loop stands at is passed only when it is somebody else's or
\* anchored.
LEMMA PassAnchored ==
    ASSUME capIx \in Nat, PassedAnchored(capIx),
           cap.subject_id = action.actor_id => capIx \in Policy!Anchored(action, MAX_CHAIN_DEPTH)
    PROVE  PassedAnchored(capIx + 1)
<1>1. \A i \in 1 .. (capIx + 1) - 1 : i \in 1 .. capIx - 1 \/ i = capIx
  OBVIOUS
<1> QED BY <1>1 DEF PassedAnchored, cap

LEMMA WalkInit == Init => WalkInv
BY DEF Init, WalkInv

LEMMA WalkNext == IInv /\ WalkInv /\ [Next]_vars => WalkInv'
<1> SUFFICES ASSUME IInv, WalkInv, [Next]_vars PROVE WalkInv'
  OBVIOUS
<1>0. capIx \in Nat /\ Len(bundle) \in Nat
  BY LenProperties DEF IInv, TypeOK, ActionOK, bundle
<1>1. ASSUME NEW a \in {sealed} \cup Alter(sealed), NEW t \in Times, Execute(a, t) PROVE WalkInv'
  BY <1>1 DEF Execute, WalkInv
<1>2. CASE CanonicalGate
  <2>1. capIx' = 1 /\ PassedAnchored(1)'
    BY <1>2 DEF CanonicalGate, IInv, Progress, PassedAnchored
  <2>2. pc' \in {"caps", "done"}
    BY <1>2 DEF CanonicalGate, Return
  <2> QED BY <2>1, <2>2 DEF WalkInv
<1>3. CASE SkipProof
  <2>1. PassedAnchored(capIx + 1)
    BY <1>0, <1>3, PassAnchored DEF SkipProof, WalkInv
  <2>2. pc' = "caps" /\ capIx' = capIx + 1 /\ action' = action
    BY <1>3 DEF SkipProof
  <2> QED BY <2>1, <2>2 DEF WalkInv, PassedAnchored, bundle
<1>4. CASE TakeGrant
  BY <1>4, TakeGrantWalk
<1>5. CASE RejectNode \/ CheckConsent
  BY <1>5 DEF RejectNode, CheckConsent, Return, WalkInv
<1>6. CASE FollowParent
  BY <1>6, FollowParentWalk
<1>7. CASE ReachRoot
  <2>1. PassedAnchored(capIx + 1)
    BY <1>0, <1>7, PassAnchored, ReachRootAnchors DEF ReachRoot, WalkInv
  <2>2. action' = action /\ ((pc' = "caps" /\ capIx' = capIx + 1) \/ pc' = "done")
    BY <1>7 DEF ReachRoot, Return
  <2> QED BY <2>1, <2>2 DEF WalkInv, PassedAnchored, bundle
<1>8. CASE EndOfProofs
  <2>1. capIx = Len(bundle) + 1 /\ PassedAnchored(capIx)
    BY <1>0, <1>8 DEF EndOfProofs, IInv, TypeOK, WalkInv
  <2>2. action' = action /\ pc' \in {"revocations", "done"}
    BY <1>8 DEF EndOfProofs, Return
  <2> QED BY <2>1, <2>2 DEF WalkInv, PassedAnchored, bundle
<1>9. CASE CheckRevocations
  <2>1. action' = action /\ pc' \in {"consent", "done"} /\ PassedAnchored(Len(bundle) + 1)
    BY <1>9 DEF CheckRevocations, Return, WalkInv
  <2> QED BY <2>1 DEF WalkInv, PassedAnchored, bundle
<1>10. CASE UNCHANGED vars
  <2>1. UNCHANGED <<action, pc, capIx, chain, bundle>>
    BY <1>10 DEF vars, bundle
  <2>2. \A p : WalkAt(p)' <=> WalkAt(p)
    BY <2>1 DEF WalkAt
  <2>3. \A p : OnlyWay(p)' <=> OnlyWay(p)
    BY <2>1 DEF OnlyWay
  <2> QED BY <2>1, <2>2, <2>3 DEF WalkInv, PassedAnchored
<1> QED BY <1>1, <1>2, <1>3, <1>4, <1>5, <1>6, <1>7, <1>8, <1>9, <1>10 DEF Next, VerifyStep

\* The policy, in the gate's words.
LEMMA PolicyVocabulary ==
    /\ Policy!verify_binding(action) <=> verify_binding(action)
    /\ Policy!Grants(action) = {i \in DOMAIN bundle : bundle[i].subject_id = action.actor_id}
    /\ Policy!NothingRevoked(action) <=> ~AnyProofRevoked(action)
    /\ Policy!ConsentGiven(action, now) <=> Consented(action, now)
<1>1. Policy!verify_binding(action) <=> verify_binding(action)
  BY DEF Policy!verify_binding, verify_binding, Policy!compute_hash, compute_hash, Policy!Each, Each,
         Policy!Sha256, Sha256, Policy!to_canonical_bytes, to_canonical_bytes,
         Policy!revocation_message, revocation_message,
         Policy!consent_canonical_bytes, consent_canonical_bytes, Policy!consent_message, consent_message
<1>2. Policy!Grants(action) = {i \in DOMAIN bundle : bundle[i].subject_id = action.actor_id}
  BY DEF Policy!Grants, Policy!Positions, Policy!At, bundle
<1>3. \A h : h \in Policy!RevokedHashes(action) <=> Revoked(h, action)
  BY DEF Policy!RevokedHashes, Policy!verify_revocation_sig, Policy!Verifies, Policy!revocation_message,
         Policy!Signature, Revoked, verify_revocation_sig, Verifies, revocation_message, Signature
<1>4. Policy!NothingRevoked(action) <=> ~AnyProofRevoked(action)
  BY <1>3 DEF Policy!NothingRevoked, Policy!At, Policy!Positions, AnyProofRevoked
<1>5. ASSUME NEW c
      PROVE  /\ Policy!Sha256(c.grantor_pubkey) = Sha256(c.grantor_pubkey)
             /\ Policy!consent_message(c) = consent_message(c)
             /\ Policy!Verifies(c.grantor_pubkey, consent_message(c), c.signature)
                   <=> Verifies(c.grantor_pubkey, consent_message(c), c.signature)
             /\ Policy!compute_consent_id(c) = compute_consent_id(c)
             /\ now <= c.expires_at <=> c.expires_at >= now
  BY DEF Policy!Sha256, Sha256, Policy!consent_message, consent_message, Policy!Verifies, Verifies,
         Policy!Signature, Signature, Policy!compute_consent_id, compute_consent_id
<1>6. Policy!ConsentGiven(action, now) <=> Consented(action, now)
  BY <1>3, <1>5 DEF Policy!ConsentGiven, Consented, verify_consent
<1> QED BY <1>1, <1>2, <1>4, <1>6

\* What verify denies, at whatever layer, the policy does not authorize.
LEMMA DenialsJustified ==
    ASSUME IInv, WalkInv, VerifyStep, decision' = "Deny"
    PROVE  ~Policy!Authorized(action, now)
<1>0. decision = "None"
  BY DEF VerifyStep, CanonicalGate, SkipProof, TakeGrant, RejectNode, FollowParent, ReachRoot, EndOfProofs,
         CheckRevocations, CheckConsent, IInv, Progress
<1>1. capIx \in Nat /\ capIx >= 1 /\ Len(bundle) \in Nat /\ DOMAIN bundle = 1 .. Len(bundle)
  BY LenProperties DEF IInv, TypeOK, ActionOK, bundle
<1>2. CASE CanonicalGate
  <2>1. ~verify_binding(action) \/ bundle = << >>
    BY <1>0, <1>2 DEF CanonicalGate
  <2>2. bundle = << >> => Policy!Grants(action) = {}
    BY PolicyVocabulary
  <2> QED BY <2>1, <2>2, PolicyVocabulary DEF Policy!Authorized
<1>3. CASE TakeGrant
  <2>1. ~GrantAdmissible(cap, action, now) /\ capIx \in Policy!Grants(action)
    BY <1>0, <1>1, <1>3, PolicyVocabulary DEF TakeGrant, cap
  <2>2. capIx \in Policy!Anchored(action, MAX_CHAIN_DEPTH) => cap.epoch >= action.min_epoch
    <3> SUFFICES ASSUME capIx \in Policy!Anchored(action, MAX_CHAIN_DEPTH) PROVE cap.epoch >= action.min_epoch
      OBVIOUS
    <3>1. PICK m \in 0 .. MAX_CHAIN_DEPTH :
             \E path \in [0 .. m -> Policy!Fresh(action)] : path[0] = capIx
      BY DEF Policy!Anchored
    <3>2. capIx \in Policy!Fresh(action)
      BY <3>1
    <3> QED BY <3>2 DEF Policy!Fresh, Policy!At, cap, bundle
  <2> QED BY <2>1, <2>2 DEF Policy!Authorized, GrantAdmissible, Policy!At, cap, bundle
<1>4. CASE RejectNode
  <2>1. capIx \in Policy!Grants(action)
    BY <1>4, LoopFacts, PolicyVocabulary DEF RejectNode, cap
  <2> QED BY <1>4, <2>1, RejectNodeUnanchored DEF Policy!Authorized
<1>5. CASE ReachRoot
  <2>1. capIx \in Policy!Grants(action) /\ ~(action.required_rights \subseteq cap.rights)
    BY <1>0, <1>5, LoopFacts, PolicyVocabulary DEF ReachRoot, cap
  <2> QED BY <2>1 DEF Policy!Authorized, Policy!At, cap, bundle
<1>6. CASE EndOfProofs
  <2>1. ~found /\ capIx = Len(bundle) + 1 /\ Passed(capIx)
    BY <1>0, <1>1, <1>6 DEF EndOfProofs, IInv, TypeOK, Progress
  <2>2. \A i \in DOMAIN bundle : i \in 1 .. capIx - 1
    BY <1>1, <2>1
  <2>3. Policy!Grants(action) = {}
    BY <2>1, <2>2, PolicyVocabulary DEF Passed
  <2> QED BY <2>3 DEF Policy!Authorized
<1>7. CASE CheckRevocations
  BY <1>0, <1>7, PolicyVocabulary DEF CheckRevocations, Policy!Authorized
<1>8. CASE CheckConsent
  BY <1>8, PolicyVocabulary DEF CheckConsent, Return, Policy!Authorized
<1>9. CASE SkipProof \/ FollowParent
  BY <1>0, <1>9 DEF SkipProof, FollowParent
<1> QED BY <1>2, <1>3, <1>4, <1>5, <1>6, <1>7, <1>8, <1>9 DEF VerifyStep

\* What verify permits, the policy authorizes.
LEMMA PermitsJustified ==
    ASSUME IInv, WalkInv, VerifyStep, decision' = "Permit"
    PROVE  Policy!Authorized(action, now) /\ decision = "None"
<1>0. decision = "None"
  BY DEF VerifyStep, CanonicalGate, SkipProof, TakeGrant, RejectNode, FollowParent, ReachRoot, EndOfProofs,
         CheckRevocations, CheckConsent, IInv, Progress
<1>1. CheckConsent
  BY <1>0 DEF VerifyStep, CanonicalGate, SkipProof, TakeGrant, RejectNode, FollowParent, ReachRoot,
              EndOfProofs, CheckRevocations, Return
<1>2. /\ Consented(action, now) /\ ~AnyProofRevoked(action) /\ verify_binding(action)
      /\ PassedAnchored(Len(bundle) + 1) /\ Passed(Len(bundle) + 1)
  BY <1>1 DEF CheckConsent, Return, IInv, Progress, WalkInv
<1>3. Len(bundle) \in Nat /\ DOMAIN bundle = 1 .. (Len(bundle) + 1) - 1
  BY LenProperties DEF IInv, TypeOK, ActionOK, bundle
<1>4. \E i \in DOMAIN bundle : bundle[i].subject_id = action.actor_id
  <2>1. Anchored /\ Walked
    BY <1>1 DEF CheckConsent, IInv, Progress, Anchored
  <2>2. 1 \in 1 .. Len(chain)
    BY <2>1, LenProperties DEF Walked, IInv, TypeOK
  <2> QED BY <2>1, <2>2 DEF Walked
<1>5. Policy!Grants(action) # {}
  BY <1>4, PolicyVocabulary
<1>6. ASSUME NEW i \in Policy!Grants(action)
      PROVE  /\ i \in Policy!Anchored(action, MAX_CHAIN_DEPTH)
             /\ Policy!At(action, i).resource_hash = action.resource_hash
             /\ action.required_rights \subseteq Policy!At(action, i).rights
             /\ Policy!At(action, i).expiry >= now
  <2>1. i \in 1 .. (Len(bundle) + 1) - 1 /\ bundle[i].subject_id = action.actor_id
    BY <1>3, PolicyVocabulary
  <2> QED BY <1>2, <2>1 DEF PassedAnchored, Passed, GrantAdmissible, Policy!At, bundle
<1> QED BY <1>0, <1>2, <1>5, <1>6, PolicyVocabulary DEF Policy!Authorized

\* The loops, the early returns and the order of the checks decide as the
\* declarative policy does: every step of verify is a decision of the policy on
\* the action as it arrived, or none.
THEOREM GateImplementsPolicy == Spec => ImplementsPolicy
<1>1. Init => Policy!Init
  BY DEF Init, Policy!Init
<1>2. IInv /\ WalkInv /\ [Next]_vars => [Policy!Next]_<<action, now, decision>>
  <2> SUFFICES ASSUME IInv, WalkInv, [Next]_vars PROVE [Policy!Next]_<<action, now, decision>>
    OBVIOUS
  <2>1. ASSUME NEW a \in {sealed} \cup Alter(sealed), NEW t \in Times, Execute(a, t) PROVE Policy!Receive
    BY <2>1 DEF Execute, IInv, Progress, Policy!Receive
  <2>2. CASE VerifyStep
    <3>1. UNCHANGED <<action, now>> /\ decision' \in {decision, "Permit", "Deny"}
      BY <2>2 DEF VerifyStep, CanonicalGate, SkipProof, TakeGrant, RejectNode, FollowParent, ReachRoot,
                  EndOfProofs, CheckRevocations, CheckConsent, Return
    <3>2. decision = "None"
      BY <2>2 DEF VerifyStep, CanonicalGate, SkipProof, TakeGrant, RejectNode, FollowParent, ReachRoot,
                  EndOfProofs, CheckRevocations, CheckConsent, IInv, Progress
    <3>3. decision' = "Deny" => Policy!Decide
      BY <2>2, <3>1, <3>2, DenialsJustified DEF Policy!Decide
    <3>4. decision' = "Permit" => Policy!Decide
      BY <2>2, <3>1, <3>2, PermitsJustified DEF Policy!Decide
    <3> QED BY <3>1, <3>3, <3>4 DEF Policy!Next
  <2>3. CASE UNCHANGED vars
    BY <2>3 DEF vars
  <2> QED BY <2>1, <2>2, <2>3 DEF Next, Policy!Next
<1> QED BY <1>1, <1>2, InitHolds, NextHolds, WalkInit, WalkNext, PTL DEF Spec, ImplementsPolicy, Policy!Spec

===============================================================================
