---------------------------- MODULE Authorization -----------------------------
(***************************************************************************)
(* What the call gate promises: one decision per action, and the decision  *)
(* is Permit exactly when the action is authorized.  Authorized speaks of  *)
(* paths of delegations in the bundle, without the loops, the early returns*)
(* and the order of checks of the code; CapabilityGate implements it.      *)
(***************************************************************************)
EXTENDS CapabilityProofs

CONSTANTS MaxHops    \* delegations between a grant and its root: 16 in the code

VARIABLES action, now, decision

Positions(a) == DOMAIN a.capability_proofs
At(a, i) == a.capability_proofs[i]

\* Positions of the proofs the root itself granted.
RootGranted(a) ==
    {i \in Positions(a) :
        /\ At(a, i).issuer = Root
        /\ Verifies(RootKey, signing_message(At(a, i)), At(a, i).signature)}

\* i was delegated from j: i names j, the holder of j signed it, and it
\* stays within j.  A hash names the first proof that carries it.
DelegatedFrom(a, i, j) ==
    LET child == At(a, i)
        parent == At(a, j)
    IN  /\ child.issuer # Root
        /\ child.issuer = parent.proof_hash
        /\ \A k \in Positions(a) : At(a, k).proof_hash = parent.proof_hash => k >= j
        /\ Verifies(child.issuer_pubkey, signing_message(child), child.signature)
        /\ parent.subject_id = Sha256(child.issuer_pubkey)
        /\ child.resource_hash = parent.resource_hash
        /\ child.rights \subseteq parent.rights

Fresh(a) == {i \in Positions(a) : At(a, i).epoch >= a.min_epoch}

\* A path of m delegations, over proofs that are fresh, up to a root grant.
LeadsToRoot(a, m, path) ==
    /\ path[m] \in RootGranted(a)
    /\ \A k \in 0 .. m - 1 : DelegatedFrom(a, path[k], path[k + 1])

\* Positions from which a root grant is at most n delegations away.
Anchored(a, n) ==
    {i \in Positions(a) :
        \E m \in 0 .. n : \E path \in [0 .. m -> Fresh(a)] :
            path[0] = i /\ LeadsToRoot(a, m, path)}

\* Hashes the root has revoked, as far as the action says.
RevokedHashes(a) ==
    {a.revocation_proofs[i].target_proof_hash :
        i \in {k \in DOMAIN a.revocation_proofs :
                  verify_revocation_sig(a.revocation_proofs[k])}}

\* The actor's own proofs: all of them must hold.
Grants(a) == {i \in Positions(a) : At(a, i).subject_id = a.actor_id}

\* The root has revoked no proof of the bundle, a delegator's included.
NothingRevoked(a) == {At(a, i).proof_hash : i \in Positions(a)} \cap RevokedHashes(a) = {}

\* Where consent is required, a grantor has signed one that covers the action.
ConsentGiven(a, t) ==
    a.requires_consent =>
        \E i \in DOMAIN a.consent_proofs :
             LET c == a.consent_proofs[i]
             IN  /\ c.grantor = Sha256(c.grantor_pubkey)
                 /\ Verifies(c.grantor_pubkey, consent_message(c), c.signature)
                 /\ c.consent_id = compute_consent_id(c)
                 /\ c.grantee = a.actor_id /\ c.resource_hash = a.resource_hash
                 /\ a.required_rights \subseteq c.rights
                 /\ t <= c.expires_at \/ c.expires_at = 0
                 /\ c.revocable => c.consent_id \notin RevokedHashes(a)

Authorized(a, t) ==
    /\ verify_binding(a)
    /\ Grants(a) # {}
    /\ Grants(a) \subseteq Anchored(a, MaxHops)
    /\ \A i \in Grants(a) : /\ At(a, i).resource_hash = a.resource_hash
                            /\ a.required_rights \subseteq At(a, i).rights
                            /\ At(a, i).expiry >= t
    /\ NothingRevoked(a)
    /\ ConsentGiven(a, t)

-------------------------------------------------------------------------------
Init == decision = "None"

\* An action arrives, or the previous decision has been taken.
Receive == decision' = "None"

Decide ==
    /\ decision = "None"
    /\ decision' = IF Authorized(action, now) THEN "Permit" ELSE "Deny"
    /\ UNCHANGED <<action, now>>

Next == Receive \/ Decide

Spec == Init /\ [][Next]_<<action, now, decision>>
===============================================================================
