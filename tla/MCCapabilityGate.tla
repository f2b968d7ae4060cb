--------------------------- MODULE MCCapabilityGate ---------------------------
(***************************************************************************)
(* Bundles of the call gate for TLC.  The pool of proofs has every link of *)
(* a chain root -> a -> b -> c, the ways a link can fail, and two nodes    *)
(* whose parent hashes form a cycle; requests bundle them in every order.  *)
(***************************************************************************)
EXTENDS CapabilityGate, FiniteSets

CONSTANTS ka, kb, kc, h1, h2, h3, h4, res, other, NoSig

\* A proof node signed by key k.
Node(h, to, r, rights, exp, ep, from, k) ==
    LET p == [proof_hash |-> h, subject_id |-> Sha256(to), resource_hash |-> r,
              rights |-> rights, expiry |-> exp, epoch |-> ep, issuer |-> from,
              issuer_pubkey |-> k, signature |-> NoSig]
    IN  [p EXCEPT !.signature = Signature(k, signing_message(p))]

\* Well-formed links.
rootA == Node(h1, ka, res, {"read", "write"}, 2, 2, Root, RootKey)
aToB  == Node(h2, kb, res, {"read", "write"}, 2, 2, h1, ka)
bToC  == Node(h3, kc, res, {"read"}, 2, 2, h2, kb)
cToB  == Node(h4, kb, res, {"read"}, 2, 2, h3, kc)

\* Links that fail one check each.
rootAReadOnly == Node(h1, ka, res, {"read"}, 2, 2, Root, RootKey)
rootAOther    == Node(h1, ka, other, {"read", "write"}, 2, 2, Root, RootKey)
rootAStale    == Node(h1, ka, res, {"read", "write"}, 2, 1, Root, RootKey)
rootAExpired  == Node(h1, ka, res, {"read", "write"}, 0, 2, Root, RootKey)
selfRootA     == Node(h1, ka, res, {"read", "write"}, 2, 2, Root, ka)
aToBExpired   == Node(h2, kb, res, {"read"}, 0, 2, h1, ka)
cSignsForA    == Node(h2, kb, res, {"read"}, 2, 2, h1, kc)
forged        == [aToB EXCEPT !.rights = {"read"}]

\* A cycle: b's proof names c's as its parent and the other way round.
bFromC == Node(h2, kb, res, {"read"}, 2, 2, h3, kc)

MCProofs == {rootA, aToB, bToC, cToB, rootAReadOnly, rootAOther, rootAStale,
             rootAExpired, selfRootA, aToBExpired, cSignsForA, forged, bFromC}

\* Proofs with one issuer reference changed on the way.
Redirected == {[p EXCEPT !.issuer = h] : p \in {aToB, bToC}, h \in {h1, h4}}

Bundles(pool, n) ==
    UNION {{s \in [1 .. k -> pool] : \A i, j \in 1 .. k : i # j => s[i] # s[j]} :
              k \in 0 .. n}

Notice(h, k) == [target_proof_hash |-> h, revoked_at |-> 1,
                 signature |-> Signature(k, <<h, 1>>)]

Consent(exp, revocable) ==
    LET c == [grantor |-> Sha256(ka), grantee |-> Sha256(kb), resource_hash |-> res,
              rights |-> {"read"}, expires_at |-> exp, revocable |-> revocable,
              nonce |-> 0, consent_id |-> NoSig, grantor_pubkey |-> ka,
              signature |-> NoSig]
        d == [c EXCEPT !.consent_id = compute_consent_id(c)]
    IN  [d EXCEPT !.signature = Signature(ka, consent_message(d))]

ConsentIssue == compute_consent_id(Consent(0, TRUE))

SealAction(a) == [a EXCEPT !.binding_hash = compute_hash(a)]

Request(who, need, ep, caps, revs, requires, consents) ==
    SealAction([actor_id |-> Sha256(who), resource_hash |-> res,
          required_rights |-> need, capability_proofs |-> caps,
          revocation_proofs |-> revs, nonce |-> 0, timestamp |-> 0,
          min_epoch |-> ep, requires_consent |-> requires,
          consent_proofs |-> consents, binding_hash |-> NoSig])

\* Chains, whole and broken, in every order of the bundle.
ChainRequests ==
    {Request(who, need, 2, caps, << >>, FALSE, << >>) :
        who \in {kb, kc}, need \in {{"read"}, {"write"}},
        caps \in Bundles(MCProofs, 3)
                \cup {s \in Bundles({rootA, aToB, bToC, cToB}, 4) : Len(s) = 4}}

\* Notices and consents on one sound chain.
GateRequests ==
    {Request(kb, {"read"}, ep, <<aToB, rootA>>, revs, TRUE, consents) :
        ep \in {1, 3},
        revs \in {<< >>, <<Notice(h1, RootKey)>>, <<Notice(h2, kc)>>,
                  <<Notice(ConsentIssue, RootKey)>>, <<Notice(ConsentIssue, kc)>>},
        consents \in {<<Consent(e, r)>> : e \in {0, 1, 2}, r \in BOOLEAN}
                     \cup {<< >>, <<[Consent(0, TRUE) EXCEPT !.rights = {}],
                                    Consent(2, FALSE)>>}}

MCRequests == ChainRequests \cup GateRequests

\* Untrusted code changes what is asked for, which consents come with it, or an
\* issuer reference, and may then seal what it has made.
MCAlter(a) ==
    LET changed ==
          IF a.capability_proofs \notin {<<aToB, rootA>>, <<bToC, aToB, rootA>>} THEN {}
          ELSE {[a EXCEPT !.required_rights = {}], [a EXCEPT !.requires_consent = FALSE],
                [a EXCEPT !.consent_proofs = <<Consent(2, FALSE)>>], [a EXCEPT !.min_epoch = 0]}
               \cup {[a EXCEPT !.capability_proofs[1] = p] : p \in Redirected}
    IN  changed \cup {SealAction(b) : b \in changed}

MCProofPool == MCProofs \cup Redirected
===============================================================================
