---------------------------- MODULE CapabilityGate ----------------------------
(***************************************************************************)
(* The stateless verify function behind CallGate::execute, as the machine  *)
(* it runs: the canonical gate, the loop over the actor's proofs with the  *)
(* chain walk of validate_chain inside it, the revocation notices, the     *)
(* consent gate (authgate-kernel/src/tcb/engine.rs, dag.rs, call_gate.rs). *)
(*                                                                         *)
(* Between the adapter that seals an action and the gate that receives it  *)
(* the action crosses untrusted code, which may alter it (Alter) and, the  *)
(* binding hash being a plain digest, may seal what it altered anew.       *)
(***************************************************************************)
EXTENDS CapabilityProofs

CONSTANTS
    Proofs,          \* capability proofs that occur in bundles
    Requests,        \* actions an adapter may seal
    Alter(_),        \* what an action may have become when the gate gets it
    Times,           \* values of the caller's clock
    MAX_CHAIN_DEPTH  \* 16 in the code

ASSUME DepthAssumption == MAX_CHAIN_DEPTH \in Nat
ASSUME TimesAssumption == Times \subseteq Nat
ASSUME ProofsAssumption == \A p \in Proofs : p.epoch \in Nat /\ p.expiry \in Nat
ASSUME RequestsAssumption ==
    \A a \in Requests :
        /\ a.capability_proofs \in Seq(Proofs)
        /\ a.min_epoch \in Nat
        /\ \A b \in Alter(a) : b.capability_proofs \in Seq(Proofs)
                               /\ b.min_epoch \in Nat

\* An adapter hands over sealed actions.
ASSUME SealAssumption == \A a \in Requests : verify_binding(a)

VARIABLES
    sealed,      \* the action as the adapter sealed it
    action,      \* the action under verification
    now,         \* the clock value passed to execute
    pc,          \* where verify is
    capIx,       \* position of the loop over capability_proofs
    found,       \* found_actor_cap
    chain,       \* nodes the current chain walk has visited, leaf first
    decision     \* "None" until verify returns

vars == <<sealed, action, now, pc, capIx, found, chain, decision>>

bundle == action.capability_proofs
cap == bundle[capIx]
current == chain[Len(chain)]

-------------------------------------------------------------------------------
(* Checks on one proof *)

\* A proof of the actor is admitted as a grant: what the loop of Layer 2
\* requires before it walks the chain.
GrantAdmissible(p, a, t) ==
    /\ p.resource_hash = a.resource_hash
    /\ p.expiry >= t
    /\ p.epoch >= a.min_epoch

\* The loop guard of validate_chain, depth being the hops already made.
DepthAllowed(depth) == depth <= MAX_CHAIN_DEPTH

\* Positions of the proofs that carry hash h.
Carrying(h, b) == {i \in DOMAIN b : b[i].proof_hash = h}

\* The first proof of the bundle that carries hash h (iter().find).
FirstCarrying(h, b) ==
    b[CHOOSE i \in Carrying(h, b) : \A j \in Carrying(h, b) : i <= j]

\* Mutant: the rights of the child are not compared with the parent's.
Delegates_no_attenuation(parent, child) ==
    /\ child.resource_hash = parent.resource_hash
    /\ Sha256(child.issuer_pubkey) = parent.subject_id

\* Mutant: any key may sign below a parent (AT-5.1 undone).
Delegates_any_issuer(parent, child) ==
    /\ child.resource_hash = parent.resource_hash
    /\ child.rights \subseteq parent.rights

\* The holder of parent issued child: same resource, the parent's subject is
\* the identity of the key that signed the child, no right is added.
Delegates(parent, child) ==
    /\ child.resource_hash = parent.resource_hash
    /\ Sha256(child.issuer_pubkey) = parent.subject_id
    /\ child.rights \subseteq parent.rights

\* A node granted by the trust anchor itself.
RootGrant(p) == p.issuer = Root /\ Verifies(RootKey, signing_message(p), p.signature)

\* Every node of a chain is of an admitted epoch.
NodeFresh(p, a) == p.epoch >= a.min_epoch

\* A delegated node bears its issuer's signature and its parent is in b.
DelegatedNode(p, b) ==
    /\ p.issuer # Root
    /\ Verifies(p.issuer_pubkey, signing_message(p), p.signature)
    /\ Carrying(p.issuer, b) # {}

\* A root-signed notice of the action names hash h.
Revoked(h, a) ==
    \E i \in DOMAIN a.revocation_proofs :
        /\ verify_revocation_sig(a.revocation_proofs[i])
        /\ a.revocation_proofs[i].target_proof_hash = h

\* Mutant: notices are matched with the actor's own proofs only.
AnyProofRevoked_leaves(a) ==
    \E i \in DOMAIN a.capability_proofs :
        /\ a.capability_proofs[i].subject_id = a.actor_id
        /\ Revoked(a.capability_proofs[i].proof_hash, a)

\* Layer 3: a notice names a proof of the bundle, an intermediate one included.
AnyProofRevoked(a) ==
    \E i \in DOMAIN a.capability_proofs :
        Revoked(a.capability_proofs[i].proof_hash, a)

\* Layer 4: the consent gate.
Consented(a, t) ==
    a.requires_consent =>
        \E i \in DOMAIN a.consent_proofs :
            LET c == a.consent_proofs[i]
            IN  /\ verify_consent(c, a, t)
                /\ ~(c.revocable /\ Revoked(c.consent_id, a))

-------------------------------------------------------------------------------
(* Steps of verify *)

Return(d) == pc' = "done" /\ decision' = d

\* CallGate::execute(action, t), the action as it arrives.
Execute(a, t) ==
    /\ pc = "transit"
    /\ a = sealed \/ a \in Alter(sealed)
    /\ action' = a /\ now' = t
    /\ pc' = "canonical"
    /\ UNCHANGED <<sealed, capIx, found, chain, decision>>

CanonicalGate ==
    /\ pc = "canonical"
    /\ IF verify_binding(action) /\ bundle # << >>
       THEN pc' = "caps" /\ UNCHANGED decision
       ELSE Return("Deny")
    /\ UNCHANGED <<sealed, action, now, capIx, found, chain>>

\* A proof issued to somebody else serves as a chain link only.
SkipProof ==
    /\ pc = "caps" /\ capIx <= Len(bundle)
    /\ cap.subject_id # action.actor_id
    /\ capIx' = capIx + 1
    /\ UNCHANGED <<sealed, action, now, pc, found, chain, decision>>

\* A proof issued to the actor must hold as a grant: one that fails denies.
TakeGrant ==
    /\ pc = "caps" /\ capIx <= Len(bundle)
    /\ cap.subject_id = action.actor_id
    /\ found' = TRUE
    /\ IF GrantAdmissible(cap, action, now)
       THEN pc' = "chain" /\ chain' = <<cap>> /\ UNCHANGED decision
       ELSE Return("Deny") /\ UNCHANGED chain
    /\ UNCHANGED <<sealed, action, now, capIx>>

\* validate_chain, an iteration that returns Err.
RejectNode ==
    /\ pc = "chain"
    /\ ~ /\ DepthAllowed(Len(chain) - 1)
         /\ NodeFresh(current, action)
         /\ \/ RootGrant(current)
            \/ /\ DelegatedNode(current, bundle)
               /\ Delegates(FirstCarrying(current.issuer, bundle), current)
    /\ Return("Deny")
    /\ UNCHANGED <<sealed, action, now, capIx, found, chain>>

\* Mutant: the walk goes back to the leaf and its depth with it.
FollowParent_from_leaf ==
    /\ pc = "chain"
    /\ NodeFresh(current, action)
    /\ DelegatedNode(current, bundle)
    /\ Delegates(FirstCarrying(current.issuer, bundle), current)
    /\ chain' = <<FirstCarrying(current.issuer, bundle)>>
    /\ UNCHANGED <<sealed, action, now, pc, capIx, found, decision>>

\* validate_chain, an iteration that moves on to the parent.
FollowParent ==
    /\ pc = "chain"
    /\ DepthAllowed(Len(chain) - 1)
    /\ NodeFresh(current, action)
    /\ DelegatedNode(current, bundle)
    /\ Delegates(FirstCarrying(current.issuer, bundle), current)
    /\ chain' = Append(chain, FirstCarrying(current.issuer, bundle))
    /\ UNCHANGED <<sealed, action, now, pc, capIx, found, decision>>

\* validate_chain returns Ok at a root grant; the grant's rights are then
\* compared with what the action requires.
ReachRoot ==
    /\ pc = "chain"
    /\ DepthAllowed(Len(chain) - 1)
    /\ NodeFresh(current, action)
    /\ RootGrant(current)
    /\ IF action.required_rights \subseteq cap.rights
       THEN pc' = "caps" /\ capIx' = capIx + 1 /\ UNCHANGED decision
       ELSE Return("Deny") /\ UNCHANGED capIx
    /\ UNCHANGED <<sealed, action, now, found, chain>>

\* Mutant: an action without a proof of the actor gets through.
EndOfProofs_none_needed ==
    /\ pc = "caps" /\ capIx > Len(bundle)
    /\ pc' = "revocations" /\ UNCHANGED decision
    /\ UNCHANGED <<sealed, action, now, capIx, found, chain>>

EndOfProofs ==
    /\ pc = "caps" /\ capIx > Len(bundle)
    /\ IF found THEN pc' = "revocations" /\ UNCHANGED decision
                ELSE Return("Deny")
    /\ UNCHANGED <<sealed, action, now, capIx, found, chain>>

CheckRevocations ==
    /\ pc = "revocations"
    /\ IF AnyProofRevoked(action) THEN Return("Deny")
                                  ELSE pc' = "consent" /\ UNCHANGED decision
    /\ UNCHANGED <<sealed, action, now, capIx, found, chain>>

CheckConsent ==
    /\ pc = "consent"
    /\ Return(IF Consented(action, now) THEN "Permit" ELSE "Deny")
    /\ UNCHANGED <<sealed, action, now, capIx, found, chain>>

-------------------------------------------------------------------------------
\* The adapter has sealed an action; the locals of verify are as the call
\* creates them (verify keeps nothing between calls).
Init ==
    /\ sealed \in Requests /\ action = sealed
    /\ now \in Times
    /\ pc = "transit"
    /\ capIx = 1 /\ found = FALSE /\ chain = << >> /\ decision = "None"

VerifyStep ==
    \/ CanonicalGate \/ SkipProof \/ TakeGrant
    \/ RejectNode \/ FollowParent \/ ReachRoot
    \/ EndOfProofs \/ CheckRevocations \/ CheckConsent

Next ==
    \/ \E a \in {sealed} \cup Alter(sealed), t \in Times : Execute(a, t)
    \/ VerifyStep

\* verify runs to its return once it is called: it neither blocks nor waits.
Fairness == WF_vars(VerifyStep)

Spec == Init /\ [][Next]_vars /\ Fairness

-------------------------------------------------------------------------------
(* Properties *)

PCs == {"transit", "canonical", "caps", "chain", "revocations",
        "consent", "done"}

ActionOK(a) == a.capability_proofs \in Seq(Proofs) /\ a.min_epoch \in Nat

\* The type of the state of a verification.
TypeOK ==
    /\ sealed \in Requests
    /\ ActionOK(action)
    /\ now \in Times
    /\ pc \in PCs
    /\ capIx \in 1 .. Len(bundle) + 1
    /\ found \in BOOLEAN
    /\ chain \in Seq(Proofs)
    /\ decision \in {"None", "Permit", "Deny"}

\* INV-ATTENUATION, INV-RESOURCE-PROP, INV-ROOTSIG: whatever path the walk took, a
\* permitted action is covered by a grant the root key signed: same resource, at
\* least the required rights, an admitted epoch.  No chain of delegations, of any
\* shape or order in the bundle, yields more than some root grant gave.
RootGrantCovers ==
    decision = "Permit" =>
        \E i \in DOMAIN bundle :
            /\ RootGrant(bundle[i])
            /\ bundle[i].resource_hash = action.resource_hash
            /\ action.required_rights \subseteq bundle[i].rights
            /\ bundle[i].epoch >= action.min_epoch

\* AT-5.1, AT-3.1: in the chain behind a permitted action every delegation was
\* signed by the principal the node above was issued to, and every node,
\* not only the leaf, is of an admitted epoch.
ChainHeldByItsSigners ==
    decision = "Permit" =>
        \A k \in DOMAIN chain :
            /\ chain[k].epoch >= action.min_epoch
            /\ k < Len(chain) =>
                 \E key \in Keys :
                    /\ Sha256(key) = chain[k + 1].subject_id
                    /\ chain[k].signature = Signature(key, signing_message(chain[k]))

\* A permitted action vouches for every proof its actor put in the bundle: one
\* stale, foreign or insufficient proof denies, wherever it stands.
EveryGrantHolds ==
    decision = "Permit" =>
        /\ \E i \in DOMAIN bundle : bundle[i].subject_id = action.actor_id
        /\ \A i \in DOMAIN bundle :
              bundle[i].subject_id = action.actor_id =>
                  /\ GrantAdmissible(bundle[i], action, now)
                  /\ action.required_rights \subseteq bundle[i].rights

\* INV-REVOCATION: a notice for any link of the bundle, a delegator's included, stops
\* the action.
RevocationBinds ==
    decision = "Permit" =>
        \A i \in DOMAIN bundle, j \in DOMAIN action.revocation_proofs :
            verify_revocation_sig(action.revocation_proofs[j]) =>
                action.revocation_proofs[j].target_proof_hash # bundle[i].proof_hash

\* The fields of an action that are no lists, and those of the members of its lists.
ActionFields == {"actor_id", "resource_hash", "required_rights", "nonce", "timestamp", "min_epoch",
                 "requires_consent"}
ProofFieldsButIssuer == {"proof_hash", "subject_id", "resource_hash", "rights", "expiry", "epoch",
                         "issuer_pubkey", "signature"}
NoticeFields == {"target_proof_hash", "revoked_at", "signature"}
ConsentFields == {"grantor", "grantee", "resource_hash", "rights", "expires_at", "revocable", "nonce",
                  "consent_id", "grantor_pubkey", "signature"}

\* r and t agree on the fields F, two sequences of records at every position.
AgreeOn(F, r, t) == \A f \in F : r[f] = t[f]
AgreeEach(F, s, t) == DOMAIN s = DOMAIN t /\ \A i \in DOMAIN s : AgreeOn(F, s[i], t[i])

\* A proof whose signature was made over its own fields.
Genuine(p) == \E key \in Keys : p.signature = Signature(key, signing_message(p))

\* Layer 1, for what alters an action but does not seal it anew: it is permitted
\* only with every field as the adapter sealed it, its notices, consents and
\* proofs included, but for the issuer of a proof, which the hash leaves out.  An
\* issuer changed on the way does not lead the walk elsewhere: the nodes of the
\* chain name the parents that they named when they were sealed.
PermitAsSealed ==
    decision = "Permit" /\ action.binding_hash = sealed.binding_hash =>
        /\ AgreeOn(ActionFields, action, sealed)
        /\ AgreeEach(ProofFieldsButIssuer, bundle, sealed.capability_proofs)
        /\ AgreeEach(NoticeFields, action.revocation_proofs, sealed.revocation_proofs)
        /\ AgreeEach(ConsentFields, action.consent_proofs, sealed.consent_proofs)
        /\ \A k \in DOMAIN chain : \E i \in DOMAIN bundle :
              /\ chain[k] = bundle[i]
              /\ Genuine(sealed.capability_proofs[i]) => chain[k].issuer = sealed.capability_proofs[i].issuer

\* The claim of CanonicalAction's comment (types.rs:133-134): whatever field is
\* modified after construction, the hash changes and the action is rejected.
AlteredIsRejected ==
    decision = "Permit" /\ action.binding_hash = sealed.binding_hash => action = sealed

\* The walk is bounded even when parent hashes form a cycle: at most
\* MAX_CHAIN_DEPTH delegations lie between a permitted grant and its root.
WalkBounded ==
    /\ Len(chain) <= MAX_CHAIN_DEPTH + 2
    /\ decision = "Permit" => Len(chain) <= MAX_CHAIN_DEPTH + 1

\* Every call returns: no bundle keeps validate_chain going.
EveryCallReturns == (pc = "canonical") ~> (pc = "done")

\* The gate decides as the declarative policy does.
Policy == INSTANCE Authorization WITH MaxHops <- MAX_CHAIN_DEPTH
ImplementsPolicy == Policy!Spec

===============================================================================
