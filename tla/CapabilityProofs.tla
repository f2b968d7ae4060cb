--------------------------- MODULE CapabilityProofs ---------------------------
(***************************************************************************)
(* The data of the trusted core: capability proofs, revocation notices,    *)
(* consent records and the canonical action that bundles them              *)
(* (authgate-kernel/src/tcb/types.rs, consent.rs).                         *)
(*                                                                         *)
(* Cryptography is symbolic.  SHA-256 is the injective constructor Sha256, *)
(* an ed25519 signature is the pair of the signing key and the signed      *)
(* message, and a rights bitmask is the set of its bits.                   *)
(***************************************************************************)
EXTENDS Integers, Sequences

CONSTANTS
    Keys,            \* the byte strings that parse as an ed25519 public key
    RootKey,         \* the trust anchor a CallGate is constructed with
    Root             \* IssuerRef::Root

ASSUME RootKeyAssumption == RootKey \in Keys

\* SHA-256, collision free.
Sha256(x) == [sha256 |-> x]

\* An ed25519 signature made with key k over message m.
Signature(k, m) == [by |-> k, over |-> m]

\* VerifyingKey::from_bytes(k) succeeds and k verifies sig over m.
Verifies(k, m, sig) == k \in Keys /\ sig = Signature(k, m)

-------------------------------------------------------------------------------
(* CapabilityProof *)

\* The fields the issuer signs: all but proof_hash and the signature itself.
signing_message(p) ==
    <<p.subject_id, p.resource_hash, p.rights, p.expiry, p.epoch,
      p.issuer, p.issuer_pubkey>>

\* The fields of a proof that enter the binding hash: issuer is not one.
to_canonical_bytes(p) ==
    <<p.proof_hash, p.subject_id, p.resource_hash, p.rights, p.expiry,
      p.epoch, p.signature, p.issuer_pubkey>>

(* RevocationProof *)

revocation_message(r) == <<r.target_proof_hash, r.revoked_at>>

\* Only root-signed revocation notices count.
verify_revocation_sig(r) ==
    Verifies(RootKey, revocation_message(r), r.signature)

(* ConsentRecord *)

consent_message(c) ==
    <<c.grantor, c.grantee, c.resource_hash, c.rights, c.expires_at,
      c.revocable, c.nonce, c.consent_id, c.grantor_pubkey>>

consent_canonical_bytes(c) == <<consent_message(c), c.signature>>

\* Neither the expiry nor the revocable flag is part of the identifier.
compute_consent_id(c) ==
    Sha256(<<c.grantor, c.grantee, c.resource_hash, c.rights, c.nonce>>)

\* Mutant: the expiry test without its "0 means never" case.
verify_consent_zero_expires(c, a, now) ==
    /\ c.grantor = Sha256(c.grantor_pubkey)
    /\ c.grantee = a.actor_id
    /\ c.resource_hash = a.resource_hash
    /\ a.required_rights \subseteq c.rights
    /\ c.expires_at >= now
    /\ c.consent_id = compute_consent_id(c)
    /\ Verifies(c.grantor_pubkey, consent_message(c), c.signature)

\* A consent record covers what action a asks for at time now.
verify_consent(c, a, now) ==
    /\ c.grantor = Sha256(c.grantor_pubkey)
    /\ c.grantee = a.actor_id
    /\ c.resource_hash = a.resource_hash
    /\ a.required_rights \subseteq c.rights
    /\ c.expires_at = 0 \/ c.expires_at >= now
    /\ c.consent_id = compute_consent_id(c)
    /\ Verifies(c.grantor_pubkey, consent_message(c), c.signature)

-------------------------------------------------------------------------------
(* CanonicalAction *)

\* Element-wise image of a sequence.
Each(s, Op(_)) == [i \in DOMAIN s |-> Op(s[i])]

\* Mutant: the consent records of an action are not hashed with it.
compute_hash_no_consents(a) ==
    Sha256(<<a.actor_id, a.resource_hash, a.required_rights, a.nonce, a.timestamp,
             a.min_epoch, Each(a.capability_proofs, to_canonical_bytes),
             Each(a.revocation_proofs, LAMBDA r : <<revocation_message(r), r.signature>>),
             a.requires_consent>>)

\* Hash of every field in canonical order, binding_hash excepted.
compute_hash(a) ==
    Sha256(<<a.actor_id, a.resource_hash, a.required_rights, a.nonce, a.timestamp,
             a.min_epoch, Each(a.capability_proofs, to_canonical_bytes),
             Each(a.revocation_proofs, LAMBDA r :
                     <<revocation_message(r), r.signature>>),
             a.requires_consent,
             Each(a.consent_proofs, consent_canonical_bytes)>>)

verify_binding(a) == a.binding_hash = compute_hash(a)

===============================================================================
