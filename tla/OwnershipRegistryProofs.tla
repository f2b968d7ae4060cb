------------------------ MODULE OwnershipRegistryProofs ------------------------
(***************************************************************************)
(* Conservation of authority in the registry, for any principals, claims   *)
(* and bounds.  The invariant speaks of the index as well as of the list,  *)
(* because delegate chooses the claim it attenuates from the index.        *)
(* Then the agreement of index and list: _index_remove takes out equal     *)
(* claims, not the objects that leave the list, and is right because every *)
(* mutator drops either all or none of the claims that are equal.          *)
(* Then conflicts and owners on record, what a revocation and a cascade    *)
(* leave behind, and the isolation of snapshots.                           *)
(***************************************************************************)
EXTENDS OwnershipRegistry, WellFoundedInduction, FiniteSetTheorems, TLAPS

\* c stays within one claim that was asserted directly on its resource.
Covered(c) ==
    \E a \in asserted : /\ a.resource.name = c.resource.name
                        /\ c.rights \subseteq a.rights
                        /\ c.confidence <= a.confidence

ClaimOK(c) ==
    /\ c.obj \in Nat
    /\ c.confidence \in 0 .. FullConfidence
    /\ c.rights \subseteq Operations
    /\ Covered(c)

Conserved ==
    /\ \A c \in claims \cup index : ClaimOK(c)
    /\ inserted \in Nat
    /\ asserted \subseteq Offers

-------------------------------------------------------------------------------
\* A nonempty set of naturals has a least element.
LEMMA LeastNatural ==
    ASSUME NEW T, T \subseteq Nat, T # {}
    PROVE  \E m \in T : \A j \in T : m <= j
<1>1. IsWellFoundedOn(OpToRel(<, Nat), Nat)
  BY NatLessThanWellFounded
<1>2. PICK m \in T : \A j \in T : ~(<<j, m>> \in OpToRel(<, Nat))
  BY <1>1, WFMin
<1>3. ASSUME NEW j \in T PROVE m <= j
  <2>1. ~(j < m)
    BY <1>2, Zenon DEF OpToRel
  <2> QED BY <2>1
<1> QED BY <1>3

\* c is more confident than d, or as confident and not listed later.
NoWorse(c, d) ==
    c.confidence > d.confidence \/ (c.confidence = d.confidence /\ c.obj <= d.obj)

\* max by confidence over a nonempty list of claims returns one of them, the first
\* of the most confident.
LEMMA BestIsMember ==
    ASSUME NEW S, S # {},
           \A c \in S : c.obj \in Nat /\ c.confidence \in 0 .. FullConfidence
    PROVE  Best(S) \in S /\ \A d \in S : NoWorse(Best(S), d)
<1> USE BoundsAssumption
<1>1. PICK c1 \in S : \A d \in S : d.confidence <= c1.confidence
  <2> DEFINE T == {FullConfidence - c.confidence : c \in S}
  <2>1. T \subseteq Nat /\ T # {}
    OBVIOUS
  <2>2. PICK m \in T : \A j \in T : m <= j
    BY <2>1, LeastNatural
  <2>3. PICK c \in S : m = FullConfidence - c.confidence
    OBVIOUS
  <2>4. ASSUME NEW d \in S PROVE d.confidence <= c.confidence
    <3>1. m <= FullConfidence - d.confidence
      BY <2>2
    <3> QED BY <2>3, <3>1
  <2> QED BY <2>4
<1>2. PICK c2 \in S : /\ c2.confidence = c1.confidence
                      /\ \A d \in S : d.confidence = c1.confidence => c2.obj <= d.obj
  <2> DEFINE U == {c \in S : c.confidence = c1.confidence}
             T == {c.obj : c \in U}
  <2>1. T \subseteq Nat /\ T # {}
    OBVIOUS
  <2>2. PICK m \in T : \A j \in T : m <= j
    BY <2>1, LeastNatural
  <2>3. PICK c \in U : m = c.obj
    OBVIOUS
  <2>4. ASSUME NEW d \in S, d.confidence = c1.confidence PROVE c.obj <= d.obj
    <3>1. m <= d.obj
      BY <2>2, <2>4
    <3> QED BY <2>3, <3>1
  <2> QED BY <2>3, <2>4
<1>3. \A d \in S : NoWorse(c2, d)
  BY <1>1, <1>2 DEF NoWorse
<1> QED BY <1>3, Zenon DEF Best, NoWorse

LEMMA InitConserved == Init => Conserved
BY DEF Init, Conserved

\* What Insert may add is the claim it is given, nothing else.
LEMMA InsertStep ==
    ASSUME Conserved, NEW c, Insert(c), asserted \subseteq asserted',
           asserted' \subseteq Offers, claims' # claims => ClaimOK(c)'
    PROVE  Conserved'
<1>1. \A d : ClaimOK(d) => ClaimOK(d)'
  BY DEF ClaimOK, Covered
<1>2. CASE UNCHANGED <<claims, index, inserted>>
  BY <1>1, <1>2 DEF Conserved
<1>3. CASE /\ claims' = claims \cup {c} /\ index' = index \cup {c}
           /\ inserted' = inserted + 1
  <2>1. CASE claims' # claims
    BY <1>1, <1>3, <2>1 DEF Conserved
  <2>2. CASE claims' = claims
    BY <1>1, <1>3, <2>2 DEF Conserved
  <2> QED BY <2>1, <2>2
<1> QED BY <1>2, <1>3 DEF Insert

LEMMA DropStep ==
    ASSUME Conserved, NEW R, Drop(R), UNCHANGED <<asserted, inserted>>
    PROVE  Conserved'
<1>1. claims' \subseteq claims /\ index' \subseteq index
  BY DEF Drop, _index_remove
<1>2. \A d : ClaimOK(d) => ClaimOK(d)'
  BY DEF ClaimOK, Covered
<1> QED BY <1>1, <1>2 DEF Conserved

LEMMA AddClaimStep ==
    ASSUME Conserved, NEW o \in Offers, add_claim(o)
    PROVE  Conserved'
<1>0. PICK c : c = Claim(o, NoOne)
  OBVIOUS
<1>1. asserted \subseteq asserted' /\ (claims' # claims => o \in asserted')
      /\ asserted' \subseteq Offers
  BY DEF add_claim, Conserved
<1>2. c.resource = o.resource /\ c.rights = o.rights /\ c.confidence = o.confidence
      /\ c.obj = inserted + 1
  BY <1>0 DEF Claim
<1>3. claims' # claims => ClaimOK(c)'
  <2> SUFFICES ASSUME claims' # claims PROVE ClaimOK(c)'
    OBVIOUS
  <2>1. o.confidence <= o.confidence
    BY OffersAssumption, BoundsAssumption
  <2>2. Covered(c)'
    BY <1>1, <1>2, <2>1 DEF Covered
  <2> QED BY <1>2, <2>2, OffersAssumption DEF ClaimOK, Conserved
<1>4. Insert(c)
  BY <1>0 DEF add_claim
<1> QED BY <1>1, <1>3, <1>4, InsertStep

LEMMA DelegateStep ==
    ASSUME Conserved, NEW o \in Offers, NEW by \in Entities, delegate(o, by)
    PROVE  Conserved'
<1> DEFINE candidates == Delegatable(by, o.resource)
<1>0. PICK best, c : /\ best = Best(candidates)
                     /\ c = Claim(o, by)
  OBVIOUS
<1>1. candidates # {} /\ candidates \subseteq index /\ Attenuates(o, best) /\ Insert(c)
      /\ asserted' = asserted
  BY <1>0 DEF delegate, Delegatable
<1>2. best \in candidates
  BY <1>0, <1>1, BestIsMember, BoundsAssumption DEF Conserved, ClaimOK
<1>3. ClaimOK(best) /\ KeyOf(best) = _claim_key(by, o.resource)
  BY <1>1, <1>2 DEF Conserved, Delegatable
<1>4. best.resource.name = o.resource.name
  BY <1>3 DEF KeyOf, _claim_key
<1>5. c.resource = o.resource /\ c.rights = o.rights /\ c.confidence = o.confidence
      /\ c.obj = inserted + 1
  BY <1>0 DEF Claim
<1>6. c.rights \subseteq best.rights /\ c.confidence <= best.confidence
  BY <1>1, <1>5, OffersAssumption DEF Attenuates
<1>7. Covered(c)
  <2>1. PICK a \in asserted : /\ a.resource.name = best.resource.name
                              /\ best.rights \subseteq a.rights
                              /\ best.confidence <= a.confidence
    BY <1>3 DEF ClaimOK, Covered
  <2>2. c.confidence <= a.confidence
    BY <1>3, <1>5, <1>6, <2>1, OffersAssumption, BoundsAssumption DEF ClaimOK, Conserved
  <2> QED BY <1>4, <1>5, <1>6, <2>1, <2>2 DEF Covered
<1>8. ClaimOK(c)'
  BY <1>1, <1>5, <1>7, OffersAssumption DEF ClaimOK, Covered, Conserved
<1>9. asserted' \subseteq Offers
  BY <1>1 DEF Conserved
<1> QED BY <1>1, <1>8, <1>9, InsertStep

LEMMA NextConserved == Conserved /\ [Next]_vars => Conserved'
<1> SUFFICES ASSUME Conserved, [Next]_vars PROVE Conserved'
  OBVIOUS
<1>1. ASSUME NEW o \in Offers, add_claim(o) PROVE Conserved'
  BY <1>1, AddClaimStep
<1>2. ASSUME NEW o \in Offers, NEW e \in Entities, delegate(o, e) PROVE Conserved'
  BY <1>2, DelegateStep
<1>3. ASSUME NEW n, revoke_all(n) PROVE Conserved'
  BY <1>3, DropStep DEF revoke_all
<1>4. ASSUME NEW n, NEW r, revoke_on_resource(n, r) PROVE Conserved'
  BY <1>4, DropStep DEF revoke_on_resource
<1>5. ASSUME NEW n, revoke_cascading(n) PROVE Conserved'
  BY <1>5, DropStep DEF revoke_cascading
<1>6. CASE expire_stale
  BY <1>6, DropStep DEF expire_stale
<1>7. ASSUME UNCHANGED <<claims, index, inserted, asserted>> PROVE Conserved'
  BY <1>7 DEF Conserved, ClaimOK, Covered
<1>8. ASSUME NEW p \in Registrations, register_machine(p[1], p[2]) PROVE Conserved'
  BY <1>7, <1>8 DEF register_machine
<1>9. ASSUME NEW k, NEW N, advance_epoch(k, N) PROVE Conserved'
  BY <1>7, <1>9 DEF advance_epoch, live
<1>10. CASE freeze \/ expire_stale_on_snapshot \/ Tick \/ UNCHANGED vars
  BY <1>7, <1>10 DEF freeze, expire_stale_on_snapshot, Tick, live, vars
<1> QED BY <1>1, <1>2, <1>3, <1>4, <1>5, <1>6, <1>8, <1>9, <1>10 DEF Next, Mutate

-------------------------------------------------------------------------------
\* However claims are asserted, delegated, revoked and expired, every claim of
\* the registry stays within one claim that add_claim accepted on that
\* resource, in rights and in confidence (delegate's attenuation).
THEOREM AuthorityAlwaysConserved == Spec => []AuthorityConserved
<1>1. Conserved => AuthorityConserved
  BY DEF Conserved, ClaimOK, Covered, AuthorityConserved
<1> QED BY <1>1, InitConserved, NextConserved, PTL DEF Spec

-------------------------------------------------------------------------------
(* The index and the list *)

\* A claim is an object with these fields.
ClaimFields ==
    {"obj", "holder", "resource", "rights", "confidence", "expires_at", "delegated_by"}

\* The inductive invariant behind the type and the agreement of the two.
Agreement ==
    /\ TypeOK
    /\ heap \in [1 .. 2 * MaxClaims -> Nat]
    /\ IsFiniteSet(claims)
    /\ \A c \in claims : DOMAIN c = ClaimFields
    /\ \A c, d \in claims : c.obj = d.obj => c = d
    /\ IndexConsistent

LEMMA InitAgreement == Init => Agreement
<1> SUFFICES ASSUME Init PROVE Agreement
  OBVIOUS
<1>1. heap \in [1 .. 2 * MaxClaims -> Nat]
  BY DEF Init
<1>2. TypeOK
  BY <1>1, BoundsAssumption DEF Init, TypeOK
<1> QED BY <1>1, <1>2, FS_EmptySet DEF Init, Agreement, IndexConsistent

\* Taking the equals of R out of the index takes out R, when R contains every
\* claim that is equal to one of its own.
LEMMA IndexRemove ==
    ASSUME NEW S, IsFiniteSet(S), \A c \in S : c.obj \in Nat,
           NEW R \in SUBSET S,
           \A c \in S, d \in R : SameClaim(c, d) => c \in R
    PROVE  _index_remove(S, R) = S \ R
<1> DEFINE Earlier(c) == {d \in S : SameClaim(c, d) /\ d.obj < c.obj}
           Equals(c) == {d \in R : SameClaim(c, d)}
<1>1. ASSUME NEW c \in S, c \notin R PROVE Cardinality(Earlier(c)) >= Cardinality(Equals(c))
  <2>1. Equals(c) = {}
    BY <1>1
  <2>2. IsFiniteSet(Earlier(c))
    BY FS_Subset
  <2>3. Cardinality(Earlier(c)) \in Nat
    BY <2>2, FS_CardinalityType
  <2> QED BY <2>1, <2>3, FS_EmptySet
<1>2. ASSUME NEW c \in R PROVE ~(Cardinality(Earlier(c)) >= Cardinality(Equals(c)))
  <2>1. IsFiniteSet(Equals(c))
    BY FS_Subset
  <2>2. \A x, y : SameClaim(x, y) => SameClaim(y, x)
    BY DEF SameClaim
  <2>3. Earlier(c) \subseteq Equals(c)
    BY <1>2, <2>2
  <2>4. c \in Equals(c) /\ c \notin Earlier(c)
    BY <1>2 DEF SameClaim
  <2>5. Earlier(c) \in SUBSET Equals(c) /\ Earlier(c) # Equals(c)
    BY <2>3, <2>4
  <2>6. PICK E, Q : E = Earlier(c) /\ Q = Equals(c)
    OBVIOUS
  <2>7. IsFiniteSet(Q) /\ E \in SUBSET Q /\ E # Q
    BY <2>1, <2>5, <2>6
  <2>8. IsFiniteSet(E) /\ Cardinality(E) <= Cardinality(Q) /\ Cardinality(E) # Cardinality(Q)
    BY <2>7, FS_Subset
  <2>9. Cardinality(E) \in Nat /\ Cardinality(Q) \in Nat
    BY <2>7, <2>8, FS_CardinalityType
  <2> QED BY <2>6, <2>8, <2>9
<1> QED BY <1>1, <1>2 DEF _index_remove

LEMMA DropAgrees ==
    ASSUME Agreement, NEW R \in SUBSET claims, Drop(R),
           \A c \in claims, d \in R : SameClaim(c, d) => c \in R,
           UNCHANGED <<heap, inserted, now>>
    PROVE  Agreement'
<1>1. \A c \in claims : c.obj \in Nat
  BY BoundsAssumption DEF Agreement, TypeOK
<1>2. index' = claims' /\ claims' \subseteq claims
  <2>1. _index_remove(claims, R) = claims \ R
    BY <1>1, IndexRemove DEF Agreement
  <2> QED BY <2>1 DEF Drop, Agreement, IndexConsistent
<1>3. IsFiniteSet(claims')
  BY <1>2, FS_Subset DEF Agreement
<1>4. TypeOK'
  BY <1>2 DEF Agreement, TypeOK
<1>5. \A c \in claims' : DOMAIN c = ClaimFields
  BY <1>2 DEF Agreement
<1> QED BY <1>2, <1>3, <1>4, <1>5 DEF Agreement, IndexConsistent

LEMMA InsertAgrees ==
    ASSUME Agreement, NEW o \in Offers, NEW by \in Entities \cup {NoOne},
           Insert(Claim(o, by)), inserted < MaxClaims, now' = now
    PROVE  Agreement'
<1>0. PICK c : c = Claim(o, by)
  OBVIOUS
<1>1. /\ c.obj = inserted + 1 /\ c.holder \in Entities /\ c.resource \in Resources
      /\ c.rights \subseteq Operations /\ c.confidence \in 0 .. FullConfidence
      /\ c.delegated_by \in Entities \cup {NoOne} /\ DOMAIN c = ClaimFields
  BY <1>0, OffersAssumption DEF Claim, ClaimFields
<1>2. CASE UNCHANGED <<claims, index, heap, inserted>>
  BY <1>2 DEF Agreement, TypeOK, IndexConsistent
<1>3. CASE /\ claims' = claims \cup {c} /\ index' = index \cup {c}
           /\ heap' = [heap EXCEPT ![c.obj] = 1] /\ inserted' = inserted + 1
  <2>1. inserted' \in 0 .. MaxClaims /\ inserted \in Nat
    BY <1>3, BoundsAssumption DEF Agreement, TypeOK
  <2>2. heap' \in [1 .. 2 * MaxClaims -> Nat]
    BY <1>3 DEF Agreement
  <2>3. IsFiniteSet(claims')
    BY <1>3, FS_AddElement DEF Agreement
  <2>4. \A d \in claims' : d.obj \in 1 .. inserted'
    BY <1>1, <1>3, <2>1 DEF Agreement, TypeOK
  <2>5. TypeOK'
    BY <1>1, <1>3, <2>1, <2>2, <2>4 DEF Agreement, TypeOK
  <2>6. \A d \in claims' : DOMAIN d = ClaimFields
    BY <1>1, <1>3 DEF Agreement
  <2>7. \A d, e \in claims' : d.obj = e.obj => d = e
    <3>1. \A d \in claims : d.obj \in 1 .. inserted
      BY Zenon DEF Agreement, TypeOK
    <3>2. \A d \in claims : d.obj # c.obj
      BY <1>1, <2>1, <3>1
    <3> QED BY <1>3, <3>2, Zenon DEF Agreement
  <2> QED BY <1>3, <2>2, <2>3, <2>5, <2>6, <2>7 DEF Agreement, IndexConsistent
<1> QED BY <1>0, <1>2, <1>3 DEF Insert

LEMMA NextAgreement == Agreement /\ [Next]_vars => Agreement'
<1> SUFFICES ASSUME Agreement, [Next]_vars PROVE Agreement'
  OBVIOUS
<1> USE BoundsAssumption
<1>1. ASSUME NEW o \in Offers, add_claim(o) PROVE Agreement'
  BY <1>1, InsertAgrees DEF add_claim
<1>2. ASSUME NEW o \in Offers, NEW e \in Entities, delegate(o, e) PROVE Agreement'
  BY <1>2, InsertAgrees DEF delegate
<1>3. ASSUME NEW n, revoke_all(n) PROVE Agreement'
  BY <1>3, DropAgrees DEF revoke_all, SameClaim
<1>4. ASSUME NEW n, NEW r, revoke_on_resource(n, r) PROVE Agreement'
  BY <1>4, DropAgrees DEF revoke_on_resource, SameClaim
<1>5. ASSUME NEW n, revoke_cascading(n) PROVE Agreement'
  BY <1>5, DropAgrees DEF revoke_cascading, SameClaim
<1>6. CASE expire_stale
  BY <1>6, DropAgrees DEF expire_stale, Stale, SameClaim
<1>7. ASSUME NEW p \in Registrations, register_machine(p[1], p[2]) PROVE Agreement'
  BY <1>7 DEF register_machine, Agreement, TypeOK, IndexConsistent
<1>8. ASSUME NEW k \in 2 .. MaxEpoch, NEW N, advance_epoch(k, N) PROVE Agreement'
  <2>1. heap' \in [1 .. 2 * MaxClaims -> Nat]
    BY <1>8 DEF advance_epoch, Agreement
  <2>2. UNCHANGED <<claims, index, inserted, now>>
    BY <1>8 DEF advance_epoch, live
  <2> QED BY <2>1, <2>2 DEF Agreement, TypeOK, IndexConsistent
<1>9. CASE freeze
  <2>1. heap' \in [1 .. 2 * MaxClaims -> Nat]
    BY <1>9 DEF freeze, Agreement
  <2>2. UNCHANGED <<claims, index, inserted, now>>
    BY <1>9 DEF freeze, live
  <2> QED BY <2>1, <2>2 DEF Agreement, TypeOK, IndexConsistent
<1>10. CASE Tick
  BY <1>10 DEF Tick, live, Agreement, TypeOK, IndexConsistent
<1>11. CASE expire_stale_on_snapshot \/ UNCHANGED vars
  BY <1>11 DEF expire_stale_on_snapshot, live, vars, Agreement, TypeOK, IndexConsistent
<1> QED BY <1>1, <1>2, <1>3, <1>4, <1>5, <1>6, <1>7, <1>8, <1>9, <1>10, <1>11 DEF Next, Mutate

\* The state of the registry is well typed for any principals, offers and
\* bounds.
THEOREM TypeCorrect == Spec => []TypeOK
<1>1. Agreement => TypeOK
  BY DEF Agreement
<1> QED BY <1>1, InitAgreement, NextAgreement, PTL DEF Spec

\* The index lists exactly the claims of the list, after any number of
\* duplicates, epochs, revocations and expiries (_index_remove).
THEOREM IndexAlwaysConsistent == Spec => []IndexConsistent
<1>1. Agreement => IndexConsistent
  BY DEF Agreement
<1> QED BY <1>1, InitAgreement, NextAgreement, PTL DEF Spec

-------------------------------------------------------------------------------
(* Conflicts *)

\* Claims are numbered in order of insertion, and what they expire at is a time.
Numbered ==
    /\ inserted \in Nat /\ now \in Nat
    /\ \A c \in claims : c.obj \in 1 .. inserted /\ c.expires_at \in Nat \cup {Never}
    /\ ConflictsRecorded

LEMMA InitNumbered == Init => Numbered
BY DEF Init, Numbered, ConflictsRecorded

\* Fewer claims, more time and more conflicts on record disturb nothing.
LEMMA FewerNumbered ==
    ASSUME Numbered, claims' \subseteq claims, conflicts \subseteq conflicts',
           inserted' = inserted, now' \in Nat, now <= now'
    PROVE  Numbered'
<1>1. ASSUME NEW c \in claims, is_valid(c, now') PROVE is_valid(c, now)
  BY <1>1, NeverAssumption DEF Numbered, is_valid, is_expired
<1>2. ConflictsRecorded'
  BY <1>1 DEF Numbered, ConflictsRecorded
<1> QED BY <1>2 DEF Numbered

\* A new claim is younger than all others, and its rivals were looked for among
\* the claims that are valid now.
LEMMA InsertNumbered ==
    ASSUME Numbered, NEW o \in Offers, NEW by, Insert(Claim(o, by)), now' = now
    PROVE  Numbered'
<1>0. PICK n : n = Claim(o, by) /\ Insert(n)
  OBVIOUS
<1>1. n.obj = inserted + 1 /\ n.expires_at \in Nat \cup {Never}
  BY <1>0, OffersAssumption DEF Claim
<1>2. conflicts \subseteq conflicts'
  BY DEF Insert
<1>3. CASE UNCHANGED <<claims, index, heap, inserted>>
  BY <1>2, <1>3, FewerNumbered DEF Numbered
<1>4. CASE claims' = claims \cup {n} /\ inserted' = inserted + 1
  <2>1. \A c \in claims' : c.obj \in 1 .. inserted' /\ c.expires_at \in Nat \cup {Never}
    BY <1>1, <1>4 DEF Numbered
  <2>2. ASSUME NEW c \in claims', NEW d \in claims',
               c.resource = d.resource, c.holder # d.holder, c.obj < d.obj,
               "write" \in c.rights, "write" \in d.rights, is_valid(c, now)
        PROVE  \E x \in conflicts' : x[1] = d.resource /\ x[3] = d.holder
    <3>1. c \in claims
      BY <1>1, <1>4, <2>2 DEF Numbered
    <3>2. CASE d \in claims
      BY <1>2, <2>2, <3>1, <3>2 DEF Numbered, ConflictsRecorded
    <3>3. CASE d = n
      <4>1. c \in _detect_conflict(n)
        BY <2>2, <3>1, <3>3 DEF _detect_conflict
      <4> DEFINE R == _detect_conflict(n)
                 first == CHOOSE y \in R : \A x \in R : y.obj <= x.obj
      <4>2. conflicts' = IF R = {} THEN conflicts
                         ELSE conflicts \cup {<<n.resource, first.holder, n.holder>>}
        BY <1>0, SMT DEF Insert
      <4>3. PICK y : y = first.holder
        OBVIOUS
      <4>4. <<n.resource, y, n.holder>> \in conflicts'
        BY <4>1, <4>2, <4>3
      <4> QED BY <3>3, <4>4
    <3> QED BY <1>4, <3>2, <3>3
  <2> QED BY <1>4, <2>1, <2>2 DEF Numbered, ConflictsRecorded
<1> QED BY <1>0, <1>3, <1>4 DEF Insert

LEMMA NextNumbered == Numbered /\ [Next]_vars => Numbered'
<1> SUFFICES ASSUME Numbered, [Next]_vars PROVE Numbered'
  OBVIOUS
<1>1. ASSUME NEW o \in Offers, add_claim(o) PROVE Numbered'
  BY <1>1, InsertNumbered DEF add_claim
<1>2. ASSUME NEW o \in Offers, NEW e \in Entities, delegate(o, e) PROVE Numbered'
  BY <1>2, InsertNumbered DEF delegate
<1>3. ASSUME claims' \subseteq claims, UNCHANGED <<conflicts, inserted, now>> PROVE Numbered'
  BY <1>3, FewerNumbered DEF Numbered
<1>4. ASSUME NEW n, revoke_all(n) \/ revoke_cascading(n) PROVE Numbered'
  BY <1>3, <1>4 DEF revoke_all, revoke_cascading, Drop
<1>5. ASSUME NEW n, NEW r, revoke_on_resource(n, r) PROVE Numbered'
  BY <1>3, <1>5 DEF revoke_on_resource, Drop
<1>6. CASE expire_stale
  BY <1>3, <1>6 DEF expire_stale, Drop
<1>7. ASSUME NEW p \in Registrations, register_machine(p[1], p[2]) PROVE Numbered'
  BY <1>3, <1>7 DEF register_machine
<1>8. ASSUME NEW k, NEW N, advance_epoch(k, N) PROVE Numbered'
  BY <1>3, <1>8 DEF advance_epoch, live
<1>9. CASE freeze \/ expire_stale_on_snapshot \/ UNCHANGED vars
  BY <1>3, <1>9 DEF freeze, expire_stale_on_snapshot, live, vars
<1>10. CASE Tick
  BY <1>10, FewerNumbered DEF Tick, live, Numbered
<1> QED BY <1>1, <1>2, <1>4, <1>5, <1>6, <1>7, <1>8, <1>9, <1>10 DEF Next, Mutate

\* Of two holders with write claims on one resource, of which the older is still
\* valid, the younger is on record as the claimant of a conflict, although
\* _detect_conflict looks only when a claim arrives.
THEOREM ConflictsAlwaysRecorded == Spec => []ConflictsRecorded
<1>1. Numbered => ConflictsRecorded
  BY DEF Numbered
<1> QED BY <1>1, InitNumbered, NextNumbered, PTL DEF Spec

-------------------------------------------------------------------------------
(* Identities *)

\* Enrolling somebody changes no token on record.
LEMMA EnrolKeeps ==
    ASSUME NEW tk, NEW e
    PROVE  /\ DOMAIN tk \subseteq DOMAIN Enrolled(tk, e)
           /\ \A k \in DOMAIN tk : Enrolled(tk, e)[k] = tk[k]
           /\ _identity_key(e) \in DOMAIN Enrolled(tk, e)
           /\ _identity_matches(tk, e) => Enrolled(tk, e)[_identity_key(e)] = e.identity_token
BY DEF Enrolled, _identity_matches

\* OwnersAreEnrolled outlives any step that keeps the tokens and the owners.
LEMMA SameOwners ==
    ASSUME OwnersAreEnrolled, owners' = owners, DOMAIN tokens \subseteq DOMAIN tokens',
           \A k \in DOMAIN tokens : tokens'[k] = tokens[k]
    PROVE  OwnersAreEnrolled'
BY DEF OwnersAreEnrolled

LEMMA RegisterEnrols ==
    ASSUME OwnersAreEnrolled, NEW m, NEW o, register_machine(m, o)
    PROVE  OwnersAreEnrolled'
<1>0. PICK tk : tk = Enrolled(tokens, m)
  OBVIOUS
<1>1. /\ DOMAIN tokens \subseteq DOMAIN tk /\ \A k \in DOMAIN tokens : tk[k] = tokens[k]
      /\ _identity_key(m) \in DOMAIN tk /\ tk[_identity_key(m)] = m.identity_token
  BY <1>0, EnrolKeeps DEF register_machine
<1>2. CASE _identity_matches(tk, o)
  <2>1. tokens' = Enrolled(tk, o)
        /\ owners' = [x \in DOMAIN owners \cup {m} |-> IF x = m THEN o ELSE owners[x]]
    BY <1>0, <1>2 DEF register_machine
  <2>2. /\ DOMAIN tk \subseteq DOMAIN tokens' /\ \A k \in DOMAIN tk : tokens'[k] = tk[k]
        /\ _identity_key(o) \in DOMAIN tokens' /\ tokens'[_identity_key(o)] = o.identity_token
    BY <1>2, <2>1, EnrolKeeps
  <2>3. ASSUME NEW x \in DOMAIN owners'
        PROVE  /\ _identity_key(x) \in DOMAIN tokens' /\ tokens'[_identity_key(x)] = x.identity_token
               /\ _identity_key(owners'[x]) \in DOMAIN tokens'
               /\ tokens'[_identity_key(owners'[x])] = owners'[x].identity_token
    <3>1. CASE x = m
      BY <1>1, <2>1, <2>2, <3>1
    <3>2. CASE x \in DOMAIN owners /\ x # m
      BY <1>1, <2>1, <2>2, <3>2 DEF OwnersAreEnrolled
    <3> QED BY <2>1, <3>1, <3>2
  <2> QED BY <2>3 DEF OwnersAreEnrolled
<1>3. CASE ~_identity_matches(tk, o)
  BY <1>0, <1>1, <1>3, SameOwners DEF register_machine
<1> QED BY <1>2, <1>3

LEMMA NextEnrolled == OwnersAreEnrolled /\ [Next]_vars => OwnersAreEnrolled'
<1> SUFFICES ASSUME OwnersAreEnrolled, [Next]_vars PROVE OwnersAreEnrolled'
  OBVIOUS
<1>1. ASSUME NEW o \in Offers, add_claim(o) PROVE OwnersAreEnrolled'
  BY <1>1, EnrolKeeps, SameOwners DEF add_claim
<1>2. ASSUME UNCHANGED <<tokens, owners>> PROVE OwnersAreEnrolled'
  BY <1>2, SameOwners
<1>3. ASSUME NEW o \in Offers, NEW e \in Entities, delegate(o, e) PROVE OwnersAreEnrolled'
  BY <1>2, <1>3 DEF delegate
<1>4. ASSUME NEW n, revoke_all(n) \/ revoke_cascading(n) PROVE OwnersAreEnrolled'
  BY <1>2, <1>4 DEF revoke_all, revoke_cascading
<1>5. ASSUME NEW n, NEW r, revoke_on_resource(n, r) PROVE OwnersAreEnrolled'
  BY <1>2, <1>5 DEF revoke_on_resource
<1>6. ASSUME NEW p \in Registrations, register_machine(p[1], p[2]) PROVE OwnersAreEnrolled'
  BY <1>6, RegisterEnrols
<1>7. ASSUME NEW k, NEW N, advance_epoch(k, N) PROVE OwnersAreEnrolled'
  BY <1>2, <1>7 DEF advance_epoch, live
<1>8. CASE expire_stale \/ UNCHANGED vars
  BY <1>2, <1>8 DEF expire_stale, vars
<1>9. CASE freeze \/ expire_stale_on_snapshot \/ Tick
  BY <1>2, <1>9 DEF freeze, expire_stale_on_snapshot, Tick, live
<1> QED BY <1>1, <1>3, <1>4, <1>5, <1>6, <1>7, <1>8, <1>9 DEF Next, Mutate

\* The token an identity was enrolled with is never replaced, so owners on record
\* and their machines bear the enrolled tokens, although register_machine enrols
\* the machine before it looks at the owner.
THEOREM OwnersAlwaysEnrolled == Spec => []OwnersAreEnrolled
<1>1. Init => OwnersAreEnrolled
  BY DEF Init, OwnersAreEnrolled
<1> QED BY <1>1, NextEnrolled, PTL DEF Spec

-------------------------------------------------------------------------------
(* Revocation *)

\* Drop leaves exactly the claims it was not asked to drop, in the index too.
LEMMA DropLeaves ==
    ASSUME Agreement, NEW R \in SUBSET claims, Drop(R),
           \A c \in claims, d \in R : SameClaim(c, d) => c \in R
    PROVE  claims' = claims \ R /\ index' = claims \ R
<1>1. \A c \in claims : c.obj \in Nat
  BY BoundsAssumption DEF Agreement, TypeOK
<1> QED BY <1>1, IndexRemove DEF Drop, Agreement, IndexConsistent

\* Who holds nothing under a name and a resource acts there only on what is
\* public.
LEMMA NothingToUse ==
    ASSUME NEW cl, NEW ix, NEW tk, NEW hp, NEW e, NEW r, NEW op, NEW k, NEW t,
           \A c \in ix : ~(c.holder.name = e.name /\ c.resource.name = r.name),
           can_act(cl, ix, tk, hp, e, r, op, k, t)
    PROVE  r.is_public
<1>1. \A c : KeyOf(c) = _claim_key(e, r) => c.holder.name = e.name /\ c.resource.name = r.name
  BY DEF KeyOf, _claim_key
<1>2. UsableClaims(cl, ix, tk, e, r, op, t) = {}
  BY <1>1 DEF UsableClaims, claims_for
<1> QED BY <1>2 DEF can_act

\* From revoke_all on, the holder can use no private resource and nobody can use
\* a claim the holder delegated directly, although the delegates' claims stay in
\* the registry: the chain is looked at again with every question.  From
\* revoke_on_resource on, it cannot use the resource.
THEOREM RevocationAlwaysImmediate == Spec => RevocationImmediate
<1> DEFINE Immediate(n) ==
              /\ revoke_all(n) =>
                    \A r \in Resources, e \in Entities, op \in Operations :
                        /\ e.name = n /\ Permits(e, r, op)' => r.is_public
                        /\ \A c \in UsableClaims(claims, index, tokens, e, r, op, now)' :
                              c.delegated_by # NoOne => c.delegated_by.name # n
              /\ \A r \in Resources :
                    revoke_on_resource(n, r.name) =>
                        \A e \in Entities, op \in Operations :
                            e.name = n /\ Permits(e, r, op)' => r.is_public
<1>1. ASSUME Agreement, NEW n PROVE Immediate(n)
  <2>1. ASSUME revoke_all(n), NEW r \in Resources, NEW e \in Entities, NEW op \in Operations
        PROVE  /\ e.name = n /\ Permits(e, r, op)' => r.is_public
               /\ \A c \in UsableClaims(claims, index, tokens, e, r, op, now)' :
                     c.delegated_by # NoOne => c.delegated_by.name # n
    <3> DEFINE R == {c \in claims : c.holder.name = n}
    <3>1. Drop(R) /\ \A c \in claims, d \in R : SameClaim(c, d) => c \in R
      BY <2>1 DEF revoke_all, SameClaim
    <3>2. claims' = claims \ R /\ index' = claims \ R
      BY <1>1, <3>1, DropLeaves
    <3>3. \A c \in claims' \cup index' : c.holder.name # n
      BY <3>2
    <3>4. e.name = n /\ Permits(e, r, op)' => r.is_public
      BY <3>3, NothingToUse DEF Permits
    <3>5. ASSUME NEW c \in UsableClaims(claims, index, tokens, e, r, op, now)',
                 c.delegated_by # NoOne
          PROVE  c.delegated_by.name # n
      <4>1. _delegation_chain_valid(claims, c, now)'
        BY <3>5 DEF UsableClaims
      <4>2. \E p \in claims' : p.holder = c.delegated_by
        BY <3>5, <4>1 DEF _delegation_chain_valid
      <4> QED BY <3>3, <4>2
    <3> QED BY <3>4, <3>5
  <2>2. ASSUME NEW r \in Resources, revoke_on_resource(n, r.name), NEW e \in Entities,
               NEW op \in Operations, e.name = n, Permits(e, r, op)'
        PROVE  r.is_public
    <3> DEFINE R == {c \in claims : c.holder.name = n /\ c.resource.name = r.name}
    <3>1. Drop(R) /\ \A c \in claims, d \in R : SameClaim(c, d) => c \in R
      BY <2>2 DEF revoke_on_resource, SameClaim
    <3>2. index' = claims \ R
      BY <1>1, <3>1, DropLeaves
    <3>3. \A c \in index' : ~(c.holder.name = e.name /\ c.resource.name = r.name)
      BY <2>2, <3>2
    <3> QED BY <2>2, <3>3, NothingToUse DEF Permits
  <2> QED BY <2>1, <2>2
<1>2. Agreement /\ [Next]_vars => [\A n \in Names : Immediate(n)]_vars
  BY <1>1
<1> QED BY <1>2, InitAgreement, NextAgreement, PTL DEF Spec, RevocationImmediate

\* The search of revoke_cascading takes the name along and, with a name, every
\* holder it has delegated to.
LEMMA DownstreamIsClosed ==
    ASSUME NEW name
    PROVE  name \in Downstream(name) /\ DelegatesOf(Downstream(name)) \subseteq Downstream(name)
<1> DEFINE holders == {name} \cup {c.holder.name : c \in claims}
           Closed(S) == name \in S /\ DelegatesOf(S) \subseteq S
           D == {n \in holders : \A S \in SUBSET holders : Closed(S) => n \in S}
<1>1. Downstream(name) = D
  BY DEF Downstream
<1>2. name \in D
  OBVIOUS
<1>3. ASSUME NEW n \in DelegatesOf(D) PROVE n \in D
  <2>1. PICK c \in claims : /\ c.delegated_by # NoOne /\ c.delegated_by.name \in D
                            /\ n = c.holder.name
    BY <1>3 DEF DelegatesOf
  <2>2. ASSUME NEW S \in SUBSET holders, Closed(S) PROVE n \in S
    <3>1. c.delegated_by.name \in S
      BY <2>1, <2>2
    <3>2. n \in DelegatesOf(S)
      BY <2>1, <3>1 DEF DelegatesOf
    <3> QED BY <2>2, <3>2
  <2> QED BY <2>1, <2>2
<1> QED BY <1>1, <1>2, <1>3

\* Nothing that revoke_cascading leaves was delegated by the name it was given,
\* nor by anybody whose claims it has taken away on its way down.
THEOREM CascadeAlwaysLeavesNoDelegate == Spec => CascadeLeavesNoDelegate
<1>1. ASSUME Agreement, NEW n \in Names, revoke_cascading(n),
             NEW c \in claims', c.delegated_by # NoOne
      PROVE  /\ c.delegated_by.name # n
             /\ \A d \in claims \ claims' : d.holder.name # c.delegated_by.name
  <2> DEFINE D == Downstream(n)
             R == {d \in claims : d.holder.name \in D}
  <2>1. claims' = claims \ R
    BY <1>1 DEF revoke_cascading, Drop
  <2>2. ASSUME c.delegated_by.name \in D PROVE FALSE
    <3>1. c.holder.name \in DelegatesOf(D)
      BY <1>1, <2>1, <2>2 DEF DelegatesOf
    <3> QED BY <2>1, <3>1, DownstreamIsClosed
  <2> QED BY <2>1, <2>2, DownstreamIsClosed
<1>2. Agreement /\ [Next]_vars =>
        [\A n \in Names :
          revoke_cascading(n) =>
              \A c \in claims' :
                  c.delegated_by # NoOne =>
                      /\ c.delegated_by.name # n
                      /\ \A d \in claims \ claims' : d.holder.name # c.delegated_by.name]_vars
  BY <1>1
<1> QED BY <1>2, InitAgreement, NextAgreement, PTL DEF Spec, CascadeLeavesNoDelegate

-------------------------------------------------------------------------------
(* The snapshot *)

\* The numbers of the objects that freeze makes, above those of the registry's own.
Copies == MaxClaims + 1 .. 2 * MaxClaims

\* The claims of the snapshot are objects of its own, which no claim of the
\* registry shares.
OwnObjects(S) ==
    \A c \in S : c.obj \in Copies /\ c.confidence \in 0 .. FullConfidence

Detached ==
    /\ Agreement
    /\ snap # NoSnapshot =>
          /\ DOMAIN snap = {"claims", "index", "tokens", "owners"}
          /\ OwnObjects(snap.index)

LEMMA InitDetached == Init => Detached
BY InitAgreement DEF Init, Detached

\* A copy differs from the original in the object it is.
LEMMA CopyFields ==
    ASSUME NEW c, DOMAIN c = ClaimFields
    PROVE  /\ CopyOf(c).obj = MaxClaims + c.obj
           /\ CopyOf(c).holder = c.holder /\ CopyOf(c).resource = c.resource
           /\ CopyOf(c).rights = c.rights /\ CopyOf(c).confidence = c.confidence
           /\ CopyOf(c).expires_at = c.expires_at
           /\ CopyOf(c).delegated_by = c.delegated_by
<1>1. "obj" \in DOMAIN c
  BY Zenon DEF ClaimFields
<1> QED BY <1>1 DEF CopyOf, ClaimFields

LEMMA NextDetached == Detached /\ [Next]_vars => Detached'
<1> SUFFICES ASSUME Detached, [Next]_vars PROVE Detached'
  OBVIOUS
<1>1. Agreement /\ Agreement'
  BY NextAgreement DEF Detached
<1>2. CASE snap' = snap
  BY <1>1, <1>2 DEF Detached
<1>3. CASE freeze
  <2> DEFINE copies == {CopyOf(c) : c \in claims}
  <2>1. snap' = [claims |-> copies, index |-> copies, tokens |-> tokens, owners |-> owners]
    BY <1>3 DEF freeze
  <2>2. ASSUME NEW c \in claims
        PROVE  CopyOf(c).obj \in Copies /\ CopyOf(c).confidence \in 0 .. FullConfidence
    <3>1. /\ c.obj \in 1 .. inserted /\ c.confidence \in 0 .. FullConfidence
          /\ inserted \in 0 .. MaxClaims /\ DOMAIN c = ClaimFields
      BY <1>1, <2>2, Zenon DEF Agreement, TypeOK
    <3>2. CopyOf(c).obj = MaxClaims + c.obj /\ CopyOf(c).confidence = c.confidence
      BY <3>1, CopyFields, Zenon
    <3>3. MaxClaims + c.obj \in Copies
      BY <3>1, BoundsAssumption DEF Copies
    <3> QED BY <3>1, <3>2, <3>3, Zenon
  <2> QED BY <1>1, <2>1, <2>2 DEF Detached, OwnObjects
<1>4. CASE expire_stale_on_snapshot
  BY <1>1, <1>4 DEF expire_stale_on_snapshot, Detached, OwnObjects
<1>5. snap' = snap \/ freeze \/ expire_stale_on_snapshot
  BY DEF Next, Mutate, vars, live, add_claim, delegate, register_machine, advance_epoch,
         revoke_all, revoke_on_resource, revoke_cascading, expire_stale, Tick
<1> QED BY <1>2, <1>3, <1>4, <1>5

\* max over copies finds the copy of what it finds over the originals: they come in
\* the same order.
LEMMA BestOfCopies ==
    ASSUME Agreement, NEW S \in SUBSET claims, S # {}
    PROVE  Best({CopyOf(c) : c \in S}) = CopyOf(Best(S)) /\ Best(S) \in S
<1> DEFINE T == {CopyOf(c) : c \in S}
<1>1. \A c \in S : /\ c.obj \in Nat /\ c.confidence \in 0 .. FullConfidence
                   /\ CopyOf(c).obj = MaxClaims + c.obj
                   /\ CopyOf(c).confidence = c.confidence
  <2>1. ASSUME NEW c \in S
        PROVE  c.obj \in 1 .. inserted /\ c.confidence \in 0 .. FullConfidence /\ DOMAIN c = ClaimFields
    BY <2>1, Zenon DEF Agreement, TypeOK
  <2>2. inserted \in 0 .. MaxClaims
    BY Zenon DEF Agreement, TypeOK
  <2> QED BY <2>1, <2>2, CopyFields, BoundsAssumption
<1>2. Best(S) \in S /\ \A d \in S : NoWorse(Best(S), d)
  BY <1>1, BestIsMember, Zenon
<1>3. T # {} /\ \A c \in T : c.obj \in Nat /\ c.confidence \in 0 .. FullConfidence
  BY <1>1, BoundsAssumption
<1>4. Best(T) \in T /\ \A d \in T : NoWorse(Best(T), d)
  BY <1>3, BestIsMember, Zenon
<1>5. PICK p \in S : Best(T) = CopyOf(p)
  BY <1>4, Zenon
<1>6. NoWorse(Best(S), p)
  BY <1>2, <1>5, Zenon
<1>7. NoWorse(CopyOf(p), CopyOf(Best(S)))
  BY <1>2, <1>4, <1>5, Zenon
<1>8. p.obj = Best(S).obj
  <2>1. PICK b \in S : b = Best(S)
    BY <1>2, Zenon
  <2> QED BY <1>1, <1>6, <1>7, <2>1, BoundsAssumption DEF NoWorse
<1>9. p = Best(S)
  BY <1>2, <1>8, Zenon DEF Agreement
<1> QED BY <1>2, <1>5, <1>9, Zenon

\* A test that copies pass where their originals do selects the copies of what it
\* selects.
LEMMA FilterCopies ==
    ASSUME NEW S, NEW K \in SUBSET S, NEW L \in SUBSET {CopyOf(c) : c \in S},
           \A c \in S : CopyOf(c) \in L <=> c \in K
    PROVE  L = {CopyOf(c) : c \in K}
<1>1. ASSUME NEW d \in L PROVE d \in {CopyOf(c) : c \in K}
  <2>1. PICK c \in S : d = CopyOf(c)
    BY Zenon
  <2> QED BY <2>1, Zenon
<1>2. ASSUME NEW c \in K PROVE CopyOf(c) \in L
  BY Zenon
<1> QED BY <1>1, <1>2, Zenon

\* The copies are usable where the originals are.
LEMMA UsableCopies ==
    ASSUME Agreement, NEW tk, NEW e, NEW r, NEW op, NEW t
    PROVE  UsableClaims({CopyOf(c) : c \in claims}, {CopyOf(c) : c \in claims}, tk, e, r, op, t)
             = {CopyOf(c) : c \in UsableClaims(claims, claims, tk, e, r, op, t)}
<1> DEFINE copies == {CopyOf(c) : c \in claims}
<1>1. \A c \in claims : /\ CopyOf(c).holder = c.holder /\ CopyOf(c).resource = c.resource
                        /\ CopyOf(c).rights = c.rights /\ CopyOf(c).confidence = c.confidence
                        /\ CopyOf(c).expires_at = c.expires_at
                        /\ CopyOf(c).delegated_by = c.delegated_by
  BY CopyFields, Zenon DEF Agreement
<1>2. \A c \in claims : /\ is_valid(CopyOf(c), t) <=> is_valid(c, t)
                        /\ KeyOf(CopyOf(c)) = KeyOf(c)
  BY <1>1, Zenon DEF is_valid, is_expired, KeyOf
<1>3. ASSUME NEW c \in claims
      PROVE  _delegation_chain_valid(copies, CopyOf(c), t) <=> _delegation_chain_valid(claims, c, t)
  <2> DEFINE Above(cl, d) == {p \in cl : /\ p.holder = d.delegated_by
                                         /\ "delegate" \in p.rights
                                         /\ is_valid(p, t)
                                         /\ scope_contains(p.resource.scope, d.resource.scope)}
  <2>1. Above(copies, CopyOf(c)) = {CopyOf(p) : p \in Above(claims, c)}
    <3>1. ASSUME NEW p \in claims
          PROVE  CopyOf(p) \in Above(copies, CopyOf(c)) <=> p \in Above(claims, c)
      <4>1. CopyOf(p) \in copies
        OBVIOUS
      <4> HIDE DEF copies
      <4> QED BY <1>1, <1>2, <4>1, Zenon
    <3>2. Above(claims, c) \in SUBSET claims /\ Above(copies, CopyOf(c)) \in SUBSET copies
      BY Zenon
    <3>3. PICK K, L : K = Above(claims, c) /\ L = Above(copies, CopyOf(c))
      OBVIOUS
    <3>4. /\ K \in SUBSET claims /\ L \in SUBSET {CopyOf(d) : d \in claims}
          /\ \A d \in claims : CopyOf(d) \in L <=> d \in K
      <4> HIDE DEF Above
      <4> QED BY <3>1, <3>2, <3>3, Zenon
    <3>5. L = {CopyOf(d) : d \in K}
      <4> HIDE DEF Above, copies
      <4> QED BY ONLY <3>4, FilterCopies
    <3> HIDE DEF Above
    <3> QED BY <3>3, <3>5, Zenon
  <2>2. CASE Above(claims, c) = {}
    BY <1>1, <2>1, <2>2 DEF _delegation_chain_valid
  <2>3. CASE Above(claims, c) # {}
    <3>1. /\ Best(Above(copies, CopyOf(c))) = CopyOf(Best(Above(claims, c)))
          /\ Best(Above(claims, c)) \in claims
      BY <2>1, <2>3, BestOfCopies
    <3>2. Attenuates(CopyOf(c), Best(Above(copies, CopyOf(c))))
            <=> Attenuates(c, Best(Above(claims, c)))
      BY <1>1, <3>1, Zenon DEF Attenuates
    <3>3. Above(copies, CopyOf(c)) # {}
      BY <2>1, <2>3
    <3> HIDE DEF Above
    <3>4. /\ _delegation_chain_valid(copies, CopyOf(c), t)
               <=> \/ CopyOf(c).delegated_by = NoOne
                   \/ /\ CopyOf(c).delegated_by # CopyOf(c).holder
                      /\ Above(copies, CopyOf(c)) # {}
                      /\ Attenuates(CopyOf(c), Best(Above(copies, CopyOf(c))))
          /\ _delegation_chain_valid(claims, c, t)
               <=> \/ c.delegated_by = NoOne
                   \/ /\ c.delegated_by # c.holder
                      /\ Above(claims, c) # {}
                      /\ Attenuates(c, Best(Above(claims, c)))
      BY Zenon DEF _delegation_chain_valid, Above
    <3> QED BY <1>1, <2>3, <3>2, <3>3, <3>4, Zenon
  <2> QED BY <2>2, <2>3
<1> HIDE DEF copies
<1>4. copies = {CopyOf(c) : c \in claims}
  BY DEF copies
<1>5. \A c \in claims :
         CopyOf(c) \in claims_for(copies, tk, e, r, t) <=> c \in claims_for(claims, tk, e, r, t)
  <2>1. \A c \in claims : CopyOf(c) \in copies
    BY <1>4, Zenon
  <2> QED BY <1>2, <2>1, Zenon DEF claims_for
<1>6. /\ claims_for(claims, tk, e, r, t) \in SUBSET claims
      /\ claims_for(copies, tk, e, r, t) \in SUBSET copies
  BY Zenon DEF claims_for
<1>7. UsableClaims(copies, copies, tk, e, r, op, t)
        = {CopyOf(c) : c \in UsableClaims(claims, claims, tk, e, r, op, t)}
  <2>1. \A c \in claims :
           CopyOf(c) \in UsableClaims(copies, copies, tk, e, r, op, t)
             <=> CopyOf(c) \in claims_for(copies, tk, e, r, t) /\ op \in c.rights
                 /\ _delegation_chain_valid(claims, c, t)
    BY <1>1, <1>3, Zenon DEF UsableClaims
  <2>2. \A c \in claims :
           c \in UsableClaims(claims, claims, tk, e, r, op, t)
             <=> c \in claims_for(claims, tk, e, r, t) /\ op \in c.rights
                 /\ _delegation_chain_valid(claims, c, t)
    BY Zenon DEF UsableClaims
  <2>3. /\ UsableClaims(claims, claims, tk, e, r, op, t) \in SUBSET claims
        /\ UsableClaims(copies, copies, tk, e, r, op, t) \in SUBSET copies
    BY <1>6, Zenon DEF UsableClaims
  <2>4. PICK K, L : /\ K = UsableClaims(claims, claims, tk, e, r, op, t)
                    /\ L = UsableClaims(copies, copies, tk, e, r, op, t)
    OBVIOUS
  <2>5. /\ K \in SUBSET claims /\ L \in SUBSET {CopyOf(c) : c \in claims}
        /\ \A c \in claims : CopyOf(c) \in L <=> c \in K
    BY <1>4, <1>5, <2>1, <2>2, <2>3, <2>4, Zenon
  <2>6. L = {CopyOf(c) : c \in K}
    BY ONLY <2>5, FilterCopies
  <2> QED BY <2>4, <2>6, Zenon
<1> QED BY <1>4, <1>7, Zenon

\* A snapshot starts out with the verdicts of the registry it is taken of.
LEMMA FreezeAgrees ==
    ASSUME Agreement, freeze, NEW q
    PROVE  SnapshotDecides(q)' <=> Decides(q)
<1> DEFINE copies == {CopyOf(c) : c \in claims}
           usable == UsableClaims(claims, claims, tokens, q[1], q[2], q[3], now)
<1>1. /\ snap'.claims = copies /\ snap'.index = copies /\ snap'.tokens = tokens
      /\ now' = now /\ index = claims
  BY DEF freeze, Agreement, IndexConsistent
<1>2. UsableClaims(copies, copies, tokens, q[1], q[2], q[3], now) = {CopyOf(c) : c \in usable}
  BY UsableCopies
<1>3. usable \subseteq claims
  BY DEF UsableClaims, claims_for
<1>4. ASSUME usable # {}
      PROVE  heap'[Best({CopyOf(c) : c \in usable}).obj] = heap[Best(usable).obj]
  <2>1. Best({CopyOf(c) : c \in usable}) = CopyOf(Best(usable)) /\ Best(usable) \in usable
    BY <1>3, <1>4, BestOfCopies
  <2>2. PICK b \in claims : b = Best(usable)
    BY <1>3, <2>1
  <2>3. CopyOf(b).obj = MaxClaims + b.obj /\ b.obj \in 1 .. inserted /\ inserted \in 0 .. MaxClaims
    BY CopyFields, Zenon DEF Agreement, TypeOK
  <2>4. heap' = [n \in DOMAIN heap |-> IF n > MaxClaims THEN heap[n - MaxClaims] ELSE heap[n]]
        /\ DOMAIN heap = 1 .. 2 * MaxClaims
    BY DEF freeze, Agreement
  <2>5. PICK n : n = b.obj
    OBVIOUS
  <2>6. MaxClaims + n \in 1 .. 2 * MaxClaims /\ MaxClaims + n > MaxClaims /\ MaxClaims + n - MaxClaims = n
    BY <2>3, <2>5, BoundsAssumption
  <2>7. heap'[MaxClaims + n] = heap[n]
    <3>1. PICK m : m = MaxClaims + n
      OBVIOUS
    <3>2. m \in DOMAIN heap /\ m > MaxClaims /\ m - MaxClaims = n
      BY <2>3, <2>4, <2>5, <2>6, <3>1, BoundsAssumption
    <3>3. heap'[m] = heap[m - MaxClaims]
      BY <2>4, <3>2, Zenon
    <3> QED BY <3>1, <3>2, <3>3, Zenon
  <2> QED BY <2>1, <2>2, <2>3, <2>5, <2>7, Zenon
<1> HIDE DEF usable, copies
<1>5. Decides(q) <=> \/ q[2].is_public /\ q[3] = "read"
                     \/ usable # {} /\ heap[Best(usable).obj] >= q[4]
  BY <1>1, Zenon DEF Decides, can_act, usable
<1>6. SnapshotDecides(q)' <=>
         \/ q[2].is_public /\ q[3] = "read"
         \/ /\ {CopyOf(c) : c \in usable} # {}
            /\ heap'[Best({CopyOf(c) : c \in usable}).obj] >= q[4]
  <2>1. SnapshotDecides(q)' <=>
           can_act(snap'.claims, snap'.index, snap'.tokens, heap', q[1], q[2], q[3], q[4], now')
    BY DEF SnapshotDecides, can_act, UsableClaims, claims_for, _delegation_chain_valid,
           _identity_matches
  <2>2. SnapshotDecides(q)' <=>
           can_act(copies, copies, tokens, heap', q[1], q[2], q[3], q[4], now)
    BY <1>1, <2>1
  <2> QED BY <1>2, <2>2, Zenon DEF can_act
<1>7. {CopyOf(c) : c \in usable} # {} <=> usable # {}
  OBVIOUS
<1> QED BY <1>4, <1>5, <1>6, <1>7, Zenon

\* What a mutator assigns in place it assigns to objects of the live registry.
LEMMA NextKeepsCopies ==
    ASSUME Agreement, [Next]_vars, ~freeze
    PROVE  \A n \in Copies : heap'[n] = heap[n]
<1> USE BoundsAssumption
<1>1. ASSUME NEW c, c.obj = inserted + 1, inserted < MaxClaims, Insert(c)
      PROVE  \A n \in Copies : heap'[n] = heap[n]
  <2>1. heap' = heap \/ heap' = [heap EXCEPT ![c.obj] = 1]
    BY <1>1, Zenon DEF Insert
  <2>2. c.obj \in 1 .. MaxClaims /\ heap \in [1 .. 2 * MaxClaims -> Nat]
    BY <1>1 DEF Agreement, TypeOK
  <2>3. \A n \in Copies : n \in 1 .. 2 * MaxClaims /\ n # c.obj
    BY <2>2 DEF Copies
  <2> QED BY <2>1, <2>2, <2>3
<1>2. ASSUME NEW o, NEW by, inserted < MaxClaims, Insert(Claim(o, by))
      PROVE  \A n \in Copies : heap'[n] = heap[n]
  BY <1>1, <1>2 DEF Claim
<1>3. ASSUME NEW k, NEW N, advance_epoch(k, N)
      PROVE  \A n \in Copies : heap'[n] = heap[n]
  <2>1. /\ heap' = [n \in DOMAIN heap |->
                      IF /\ \E c \in claims : c.obj = n /\ c.holder.name \in N
                         /\ heap[n] < k
                      THEN k ELSE heap[n]]
        /\ DOMAIN heap = 1 .. 2 * MaxClaims
    BY <1>3, Zenon DEF advance_epoch, Agreement
  <2>2. \A c \in claims : c.obj \in 1 .. MaxClaims
    BY DEF Agreement, TypeOK
  <2>3. ASSUME NEW n \in Copies PROVE heap'[n] = heap[n]
    <3>1. n \in 1 .. 2 * MaxClaims /\ n \notin 1 .. MaxClaims
      BY DEF Copies
    <3> QED BY <2>1, <2>2, <3>1, Zenon
  <2> QED BY <2>3
<1>4. ASSUME heap' = heap PROVE \A n \in Copies : heap'[n] = heap[n]
  BY <1>4
<1>5. \/ \E o, by : inserted < MaxClaims /\ Insert(Claim(o, by))
      \/ \E k, N : advance_epoch(k, N)
      \/ heap' = heap
  BY DEF Next, Mutate, vars, live, add_claim, delegate, register_machine, Tick,
         revoke_all, revoke_on_resource, revoke_cascading, expire_stale, expire_stale_on_snapshot
<1> QED BY <1>2, <1>3, <1>4, <1>5

\* The epoch of the claim that can_act would choose is the snapshot's own.
LEMMA SameVerdict ==
    ASSUME NEW cl, NEW ix, NEW tk, OwnObjects(ix), NEW hp, NEW hq,
           \A n \in Copies : hp[n] = hq[n],
           NEW e, NEW r, NEW op, NEW k, NEW t
    PROVE  can_act(cl, ix, tk, hp, e, r, op, k, t) <=> can_act(cl, ix, tk, hq, e, r, op, k, t)
<1> DEFINE usable == UsableClaims(cl, ix, tk, e, r, op, t)
<1>1. usable \subseteq ix
  BY DEF UsableClaims, claims_for
<1>2. ASSUME usable # {} PROVE hp[Best(usable).obj] = hq[Best(usable).obj]
  <2>1. \A c \in usable : /\ c.obj \in Copies /\ c.obj \in Nat
                          /\ c.confidence \in 0 .. FullConfidence
    BY <1>1, BoundsAssumption DEF OwnObjects, Copies
  <2>2. Best(usable) \in usable
    BY <1>2, <2>1, BestIsMember, Zenon
  <2> QED BY <2>1, <2>2, Zenon
<1> HIDE DEF usable
<1> QED BY <1>2, Zenon DEF can_act, usable

\* A snapshot decides what the registry it was taken of decided, down to the epoch
\* of the first of tied claims, and no operation on the live registry, epochs that
\* are assigned in place included, changes an answer of it.
THEOREM SnapshotAlwaysIsolated == Spec => SnapshotIsolated
<1> DEFINE Isolated ==
               /\ snap = NoSnapshot /\ snap' # NoSnapshot =>
                     \A q \in Questions : SnapshotDecides(q)' = Decides(q)
               /\ snap # NoSnapshot /\ heap' # heap /\ UNCHANGED <<snap, now>> =>
                     \A q \in Questions : SnapshotDecides(q)' = SnapshotDecides(q)
<1>1. ASSUME NEW q
      PROVE  /\ Decides(q) \in BOOLEAN /\ SnapshotDecides(q) \in BOOLEAN
             /\ SnapshotDecides(q)' \in BOOLEAN
  BY Zenon DEF Decides, SnapshotDecides, can_act
<1>2. ASSUME Detached, [Next]_vars, snap = NoSnapshot, snap' # NoSnapshot, NEW q
      PROVE  SnapshotDecides(q)' = Decides(q)
  <2>1. freeze
    BY <1>2 DEF Next, Mutate, vars, live, add_claim, delegate, register_machine, advance_epoch,
                revoke_all, revoke_on_resource, revoke_cascading, expire_stale, Tick,
                expire_stale_on_snapshot
  <2>2. SnapshotDecides(q)' <=> Decides(q)
    BY <1>2, <2>1, FreezeAgrees DEF Detached
  <2> QED BY <1>1, <2>2, Zenon
<1>3. ASSUME Detached, [Next]_vars, snap # NoSnapshot, UNCHANGED <<snap, now>>, NEW q
      PROVE  SnapshotDecides(q)' = SnapshotDecides(q)
  <2>1. \A n \in Copies : heap'[n] = heap[n]
    BY <1>3, NextKeepsCopies DEF Detached, freeze
  <2>2. OwnObjects(snap.index)
    BY <1>3 DEF Detached
  <2>3. SnapshotDecides(q)' <=>
           can_act(snap.claims, snap.index, snap.tokens, heap', q[1], q[2], q[3], q[4], now)
    BY <1>3 DEF SnapshotDecides
  <2>4. SnapshotDecides(q)' <=> SnapshotDecides(q)
    BY <2>1, <2>2, <2>3, SameVerdict DEF SnapshotDecides
  <2> QED BY <1>1, <2>4, Zenon
<1>4. Detached /\ [Next]_vars => [Isolated]_vars
  BY <1>2, <1>3
<1> QED BY <1>4, InitDetached, NextDetached, PTL DEF Spec, SnapshotIsolated

===============================================================================
