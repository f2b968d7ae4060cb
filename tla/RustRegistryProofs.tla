-------------------------- MODULE RustRegistryProofs ---------------------------
(***************************************************************************)
(* For any offers, owners, requests and bounds: what a FreedomVerifier     *)
(* permits over the Rust registry rests on rights that a caller asserted,  *)
(* and a frozen registry never permits more than before.  Delegation picks *)
(* one claim to attenuate by confidence and answers carry a confidence, so *)
(* both rest on the maximum of a finite set being attained.  Then what is  *)
(* told to planners, for plans of any length, and to callers in C.         *)
(***************************************************************************)
EXTENDS KernelAnalyses, FiniteSetTheorems, SequenceTheorems, WellFoundedInduction, TLAPS

-------------------------------------------------------------------------------
(* Least and greatest *)

\* A nonempty set of naturals has a least element, which LeastOf returns.
LEMMA LeastAttained ==
    ASSUME NEW T, T \subseteq Nat, T # {}
    PROVE  LeastOf(T) \in T /\ \A j \in T : LeastOf(T) <= j
<1>1. IsWellFoundedOn(OpToRel(<, Nat), Nat)
  BY NatLessThanWellFounded
<1>2. PICK m \in T : \A j \in T : ~(<<j, m>> \in OpToRel(<, Nat))
  BY <1>1, WFMin
<1>3. ASSUME NEW j \in T PROVE m <= j
  <2>1. ~(j < m)
    BY <1>2, Zenon DEF OpToRel
  <2> QED BY <2>1
<1> QED BY <1>3 DEF LeastOf

\* Some element of a finite nonempty set has the most of a measure: one above
\* which there are the fewest.
LEMMA MostAttained ==
    ASSUME NEW I, IsFiniteSet(I), I # {}, NEW f \in [I -> Nat]
    PROVE  \E i \in I : \A j \in I : f[j] <= f[i]
<1> DEFINE Above(i) == {j \in I : f[j] > f[i]}
           T == {Cardinality(Above(i)) : i \in I}
<1>1. \A i \in I : IsFiniteSet(Above(i)) /\ Cardinality(Above(i)) \in Nat
  BY FS_Subset, FS_CardinalityType
<1>2. T \subseteq Nat /\ T # {}
  BY <1>1
<1>3. LeastOf(T) \in T /\ \A n \in T : LeastOf(T) <= n
  BY <1>2, LeastAttained
<1>4. PICK i \in I : LeastOf(T) = Cardinality(Above(i))
  BY <1>3
<1>5. ASSUME NEW j \in I, f[j] > f[i] PROVE FALSE
  <2>1. PICK A, B : A = Above(i) /\ B = Above(j)
    OBVIOUS
  <2>2. B \in SUBSET A /\ j \in A /\ j \notin B
    BY <1>5, <2>1
  <2>3. IsFiniteSet(A) /\ Cardinality(A) \in Nat /\ Cardinality(B) \in Nat
    BY <1>1, <2>1
  <2>4. Cardinality(B) <= Cardinality(A) /\ Cardinality(B) # Cardinality(A)
    BY <2>2, <2>3, FS_Subset
  <2>5. Cardinality(A) <= Cardinality(B)
    BY <1>3, <1>4, <2>1
  <2> QED BY <2>3, <2>4, <2>5
<1> QED BY <1>5

-------------------------------------------------------------------------------
(* Claims within what was asserted *)

\* c stays within one offer that add_claim accepted on that resource.
Within(c) ==
    \E o \in asserted : /\ o.resource.name = c.resource.name
                        /\ o.resource.rtype = c.resource.rtype
                        /\ c.rights \subseteq o.rights
                        /\ c.confidence <= o.confidence

\* What an offer holds.
LEMMA OfferFields ==
    ASSUME NEW o \in Offers
    PROVE  /\ o.confidence \in Nat /\ o.expires_at \in Nat \cup {Never}
           /\ o.rights \subseteq Operations /\ o.holder \in Entity /\ o.resource \in Resource
BY RegistryAssumption DEF RightsClaim

\* The claims of one registry.
ClaimsOK(R) ==
    /\ {"claims", "frozen"} \subseteq DOMAIN R
    /\ DOMAIN R.claims \subseteq 1 .. inserted
    /\ \A n \in DOMAIN R.claims : /\ R.claims[n].confidence \in Nat
                                 /\ R.claims[n].expires_at \in Nat \cup {Never}
                                 /\ Within(R.claims[n])

\* The inductive invariant.
IInv ==
    /\ inserted \in Nat
    /\ asserted \subseteq Offers
    /\ "live" \in DOMAIN reg
    /\ \A which \in DOMAIN reg : ClaimsOK(reg[which])

LEMMA IInvInit == Init => IInv
BY DEF Init, IInv, ClaimsOK, Empty

\* The positions of a sequence are finitely many.
LEMMA IndicesFinite == \A n \in Nat : IsFiniteSet(1 .. n)
<1> SUFFICES ASSUME NEW n \in Nat PROVE IsFiniteSet(1 .. n)
  OBVIOUS
<1>1. 1 \in Int /\ n \in Int
  OBVIOUS
<1> QED BY <1>1, FS_Interval

\* Any positions of claims are finitely many, and one of them has the most
\* confidence.
LEMMA MostConfident ==
    ASSUME IInv, NEW R, ClaimsOK(R), NEW I \in SUBSET DOMAIN R.claims, I # {}
    PROVE  \E i \in I : \A j \in I : R.claims[j].confidence <= R.claims[i].confidence
<1> DEFINE f == [i \in I |-> R.claims[i].confidence]
<1>1. IsFiniteSet(I)
  <2>1. I \in SUBSET (1 .. inserted)
    BY DEF ClaimsOK
  <2>2. IsFiniteSet(1 .. inserted)
    BY IndicesFinite DEF IInv
  <2> QED BY <2>1, <2>2, FS_Subset
<1>2. f \in [I -> Nat]
  BY DEF ClaimsOK
<1>3. PICK i \in I : \A j \in I : f[j] <= f[i]
  BY <1>1, <1>2, MostAttained
<1> QED BY <1>3

\* The claim delegate attenuates is one of those it chooses from.
LEMMA BestIsMember ==
    ASSUME IInv, NEW R, ClaimsOK(R), NEW I \in SUBSET DOMAIN R.claims, I # {}
    PROVE  \E i \in I : BestOf(R, I) = R.claims[i]
<1> DEFINE top == {i \in I : \A j \in I : R.claims[j].confidence <= R.claims[i].confidence}
<1>1. top # {}
  BY MostConfident
<1>2. top \subseteq Nat
  BY DEF IInv, ClaimsOK
<1>3. LeastOf(top) \in top
  BY <1>1, <1>2, LeastAttained
<1> QED BY <1>3 DEF BestOf

-------------------------------------------------------------------------------
(* The invariant is inductive *)

\* What holds of the registries before holds of them after, when nothing was
\* taken back.
LEMMA ClaimsStayOK ==
    ASSUME IInv, inserted' \in Nat, inserted <= inserted', asserted \subseteq asserted',
           NEW R, ClaimsOK(R)
    PROVE  ClaimsOK(R)'
BY DEF IInv, ClaimsOK, Within

LEMMA InsertOK ==
    ASSUME IInv, inserted' = inserted + 1, asserted \subseteq asserted',
           NEW R, ClaimsOK(R), NEW c, Within(c)',
           c.confidence \in Nat, c.expires_at \in Nat \cup {Never},
           NEW S, S = Insert(R, c)
    PROVE  ClaimsOK(S)'
<1>1. /\ DOMAIN S = DOMAIN R
      /\ S.claims = [n \in DOMAIN R.claims \cup {inserted + 1} |->
                        IF n = inserted + 1 THEN c ELSE R.claims[n]]
  BY DEF Insert, ClaimsOK
<1>2. ClaimsOK(R)'
  BY ClaimsStayOK DEF IInv
<1>3. DOMAIN S.claims \subseteq 1 .. inserted + 1
  BY <1>1 DEF IInv, ClaimsOK
<1>4. \A n \in DOMAIN S.claims : /\ S.claims[n].confidence \in Nat
                                /\ S.claims[n].expires_at \in Nat \cup {Never}
                                /\ Within(S.claims[n])'
  BY <1>1, <1>2 DEF ClaimsOK
<1> QED BY <1>1, <1>3, <1>4 DEF ClaimsOK

LEMMA WithoutOK ==
    ASSUME IInv, UNCHANGED <<inserted, asserted>>, NEW R, ClaimsOK(R), NEW N
    PROVE  ClaimsOK(Without(R, N))'
<1>1. PICK S : S = Without(R, N)
  OBVIOUS
<1>2. DOMAIN S = DOMAIN R /\ S.claims = [n \in DOMAIN R.claims \ N |-> R.claims[n]]
  BY <1>1 DEF Without, ClaimsOK, Restrict
<1>3. ClaimsOK(S)'
  BY <1>2 DEF ClaimsOK, Within, IInv
<1> QED BY <1>1, <1>3 DEF Without

\* One registry is replaced by one whose claims are as they should be.
LEMMA ReplaceOne ==
    ASSUME IInv, inserted' \in Nat, inserted <= inserted', asserted \subseteq asserted',
           asserted' \subseteq Offers,
           NEW which \in DOMAIN reg, NEW S, reg' = [reg EXCEPT ![which] = S], ClaimsOK(S)'
    PROVE  IInv'
<1>1. ASSUME NEW w \in DOMAIN reg' PROVE ClaimsOK(reg[w])'
  <2>1. CASE w = which
    <3>1. reg'[w] = S
      BY <2>1
    <3> QED BY <3>1 DEF ClaimsOK, Within
  <2>2. CASE w # which
    <3>1. PICK R : R = reg[w] /\ R = reg'[w]
      BY <2>2
    <3>2. ClaimsOK(R)
      BY <3>1 DEF IInv
    <3>3. ClaimsOK(R)'
      BY <3>2, ClaimsStayOK
    <3> QED BY <3>1, <3>3 DEF ClaimsOK, Within
  <2> QED BY <2>1, <2>2
<1> QED BY <1>1 DEF IInv

LEMMA AddClaimOK ==
    ASSUME IInv, NEW which, NEW o \in Offers, add_claim(which, o)
    PROVE  IInv'
<1>1. PICK R, c, S : R = reg[which] /\ c = ClaimEntry(o) /\ S = Insert(R, c)
  OBVIOUS
<1>2. /\ which \in DOMAIN reg /\ reg' = [reg EXCEPT ![which] = S]
      /\ asserted' = asserted \cup {o} /\ inserted' = inserted + 1
  BY <1>1 DEF add_claim, Mutable
<1>3. c.confidence \in Nat /\ c.expires_at \in Nat \cup {Never} /\ Within(c)'
  BY <1>1, <1>2, OfferFields DEF ClaimEntry, resource_to_key, Within
<1>4. ClaimsOK(R)
  BY <1>1, <1>2 DEF IInv
<1>5. ClaimsOK(S)'
  BY <1>1, <1>2, <1>3, <1>4, InsertOK
<1>6. inserted' \in Nat /\ inserted <= inserted' /\ asserted \subseteq asserted' /\ asserted' \subseteq Offers
  BY <1>2 DEF IInv
<1> QED BY <1>2, <1>5, <1>6, ReplaceOne

LEMMA DelegateOK ==
    ASSUME IInv, NEW which, NEW o \in Offers, NEW by, delegate(which, o, by)
    PROVE  IInv'
<1>1. PICK R, c, S : R = reg[which] /\ c = ClaimEntry(o) /\ S = Insert(R, c)
  OBVIOUS
<1> DEFINE I == Delegatable(R, by, c.resource)
<1>2. /\ which \in DOMAIN reg /\ reg' = [reg EXCEPT ![which] = S]
      /\ asserted' = asserted /\ inserted' = inserted + 1
      /\ I # {} /\ c.rights \subseteq BestOf(R, I).rights /\ c.confidence <= BestOf(R, I).confidence
  BY <1>1 DEF delegate, Mutable, Attenuated
<1>3. ClaimsOK(R)
  BY <1>1, <1>2 DEF IInv
<1>4. PICK i \in I : BestOf(R, I) = R.claims[i]
  BY <1>2, <1>3, BestIsMember DEF Delegatable
<1>5. /\ i \in DOMAIN R.claims /\ R.claims[i].resource = c.resource
      /\ R.claims[i].confidence \in Nat /\ Within(R.claims[i])
  BY <1>3, <1>4 DEF Delegatable, ClaimsOK
<1>6. c.confidence \in Nat /\ c.expires_at \in Nat \cup {Never}
  BY <1>1, OfferFields DEF ClaimEntry
<1>7. Within(c)
  <2>1. PICK a \in asserted : /\ a.resource.name = R.claims[i].resource.name
                              /\ a.resource.rtype = R.claims[i].resource.rtype
                              /\ R.claims[i].rights \subseteq a.rights
                              /\ R.claims[i].confidence <= a.confidence
    BY <1>5 DEF Within
  <2>2. a.confidence \in Nat
    BY OfferFields DEF IInv
  <2>3. c.confidence <= a.confidence
    BY <1>2, <1>4, <1>5, <1>6, <2>1, <2>2
  <2> QED BY <1>2, <1>4, <1>5, <2>1, <2>3 DEF Within
<1>8. Within(c)'
  BY <1>2, <1>7 DEF Within
<1>9. ClaimsOK(S)'
  BY <1>1, <1>2, <1>3, <1>6, <1>8, InsertOK
<1>10. inserted' \in Nat /\ inserted <= inserted' /\ asserted \subseteq asserted' /\ asserted' \subseteq Offers
  BY <1>2 DEF IInv
<1> QED BY <1>2, <1>9, <1>10, ReplaceOne

\* The removals: revoke_all, revoke_on_resource, expire_stale.
LEMMA RemovalOK ==
    ASSUME IInv, NEW which \in DOMAIN reg, NEW N, UNCHANGED <<inserted, asserted>>,
           reg' = [reg EXCEPT ![which] = Without(@, N)]
    PROVE  IInv'
<1>1. PICK R, S : R = reg[which] /\ S = Without(R, N)
  OBVIOUS
<1>2. reg' = [reg EXCEPT ![which] = S] /\ ClaimsOK(R)
  BY <1>1 DEF IInv
<1>3. ClaimsOK(Without(R, N))'
  BY <1>2, WithoutOK
<1>4. ClaimsOK(S)'
  BY <1>1, <1>3 DEF Without
<1>5. inserted' \in Nat /\ inserted <= inserted' /\ asserted \subseteq asserted' /\ asserted' \subseteq Offers
  BY DEF IInv
<1> QED BY <1>2, <1>4, <1>5, ReplaceOne

LEMMA IInvNext == IInv /\ [Next]_vars => IInv'
<1> SUFFICES ASSUME IInv, [Next]_vars PROVE IInv'
  OBVIOUS
<1>1. ASSUME NEW which, NEW o \in Offers, add_claim(which, o) PROVE IInv'
  BY <1>1, AddClaimOK
<1>2. ASSUME NEW which, NEW o \in Offers, NEW by, delegate(which, o, by) PROVE IInv'
  BY <1>2, DelegateOK
<1>3. ASSUME NEW which, NEW m, NEW owner, register_machine(which, m, owner) PROVE IInv'
  <2>1. PICK R, S : /\ R = reg[which]
                    /\ S = [R EXCEPT !.machine_owners = {mo \in @ : mo[1] # m} \cup {<<m, owner>>}]
    OBVIOUS
  <2>2. which \in DOMAIN reg /\ UNCHANGED <<inserted, asserted>> /\ reg' = [reg EXCEPT ![which] = S]
    BY <1>3, <2>1 DEF register_machine, Mutable
  <2>3. ClaimsOK(R) /\ DOMAIN S = DOMAIN R /\ S.claims = R.claims
    BY <2>1, <2>2 DEF IInv, ClaimsOK
  <2>4. ClaimsOK(S)'
    BY <2>2, <2>3 DEF ClaimsOK, Within
  <2>5. inserted' \in Nat /\ inserted <= inserted' /\ asserted \subseteq asserted' /\ asserted' \subseteq Offers
    BY <2>2 DEF IInv
  <2> QED BY <2>2, <2>4, <2>5, ReplaceOne
<1>4. ASSUME NEW which, NEW name, revoke_all(which, name) PROVE IInv'
  BY <1>4, RemovalOK DEF revoke_all, Mutable
<1>5. ASSUME NEW which, NEW name, NEW r, revoke_on_resource(which, name, r) PROVE IInv'
  BY <1>5, RemovalOK DEF revoke_on_resource, Mutable
<1>6. ASSUME NEW which, expire_stale(which) PROVE IInv'
  BY <1>6, RemovalOK DEF expire_stale
<1>7. CASE freeze
  <2>1. PICK R, S : R = reg["live"] /\ S = [R EXCEPT !.frozen = TRUE]
    OBVIOUS
  <2>2. /\ reg' = [which \in {"live", "snapshot"} |-> IF which = "live" THEN R ELSE S]
        /\ UNCHANGED <<inserted, asserted>>
    BY <1>7, <2>1 DEF freeze
  <2>3. ClaimsOK(R)
    BY <2>1 DEF IInv
  <2>4. ClaimsOK(R)'
    BY <2>2, <2>3 DEF ClaimsOK, Within
  <2>5. ClaimsOK(S)'
    <3>1. DOMAIN S = DOMAIN R /\ S.claims = R.claims
      BY <2>1, <2>3 DEF ClaimsOK
    <3> QED BY <2>4, <3>1 DEF ClaimsOK
  <2> QED BY <2>2, <2>4, <2>5 DEF IInv
<1>8. CASE Tick \/ UNCHANGED vars
  BY <1>8 DEF Tick, vars, IInv, ClaimsOK, Within
<1> QED BY <1>1, <1>2, <1>3, <1>4, <1>5, <1>6, <1>7, <1>8 DEF Next, revoke_cascading
-------------------------------------------------------------------------------
(* What the engine answers *)

FreeRead(r, op) == r.is_public /\ op = "read"

\* What the engine is shown of a claim.
LEMMA WireFields ==
    ASSUME NEW c
    PROVE  /\ claim_wire(c).rights = c.rights
           /\ claim_wire(c).confidence = c.confidence
           /\ claim_wire(c).expires_at = c.expires_at
           /\ claim_wire(c).resource.name = c.resource.name
           /\ claim_wire(c).resource.rtype = c.resource.rtype
BY Zenon DEF claim_wire

\* can_act is the confidence of one of the covering claims, and 0 exactly when
\* there are none.
LEMMA AnswerOfClaim ==
    ASSUME IInv, NEW R, ClaimsOK(R), NEW name, NEW r, NEW op, NEW t, ~FreeRead(r, op)
    PROVE  LET W == registry_wire(R)
               C == Covering(W, name, r, op, t)
           IN  /\ C = {} => can_act(W, name, r, op, t) = 0
               /\ C # {} => /\ can_act(W, name, r, op, t) # 0
                            /\ can_act(W, name, r, op, t) \in Nat
                            /\ \E i \in DOMAIN R.claims :
                                  /\ claim_wire(R.claims[i]) \in C
                                  /\ can_act(W, name, r, op, t) = R.claims[i].confidence
<1>1. PICK W, C : W = registry_wire(R) /\ C = Covering(W, name, r, op, t)
  OBVIOUS
<1> DEFINE I == {i \in DOMAIN R.claims : claim_wire(R.claims[i]) \in C}
           S == {c.confidence : c \in C}
<1>2. can_act(W, name, r, op, t) = IF C = {} THEN 0 ELSE MostOf(S)
  BY <1>1 DEF can_act, FreeRead
<1>3. \A c \in C : \E i \in I : c = claim_wire(R.claims[i])
  BY <1>1 DEF Covering, Elements, registry_wire
<1>4. \A i \in I : /\ R.claims[i].confidence \in Nat \ {0}
                   /\ claim_wire(R.claims[i]).confidence = R.claims[i].confidence
  BY <1>1, WireFields DEF Covering, claim_valid, ClaimsOK
<1>5. CASE C = {}
  BY <1>1, <1>2, <1>5
<1>6. CASE C # {}
  <2>1. I # {}
    BY <1>3, <1>6
  <2>2. PICK i \in I : \A j \in I : R.claims[j].confidence <= R.claims[i].confidence
    BY <2>1, MostConfident
  <2>3. R.claims[i].confidence \in S
    BY <1>4
  <2>4. \A n \in S : n \in Nat /\ n <= R.claims[i].confidence
    BY <1>3, <1>4, <2>2
  <2>5. MostOf(S) \in S /\ \A n \in S : n <= MostOf(S)
    BY <2>3, <2>4 DEF MostOf
  <2>6. MostOf(S) = R.claims[i].confidence
    <3>1. PICK m, k : m = MostOf(S) /\ k = R.claims[i].confidence
      OBVIOUS
    <3>2. m \in S /\ k \in S /\ k <= m
      BY <2>3, <2>5, <3>1
    <3>3. m \in Nat /\ k \in Nat /\ m <= k
      BY <2>4, <3>1, <3>2
    <3> QED BY <3>1, <3>2, <3>3
  <2> QED BY <1>1, <1>2, <1>4, <1>6, <2>6
<1> QED BY <1>5, <1>6

\* A use of the action is a use of what the engine is shown.
LEMMA UseOnWire ==
    ASSUME NEW a, NEW u \in Uses(a)
    PROVE  <<u[1], resource_wire(u[2])>> \in Uses(action_wire(a))
<1>1. u[1] \in Operations /\ u[2] \in a.uses[u[1]]
  BY DEF Uses
<1>2. resource_wire(u[2]) \in action_wire(a).uses[u[1]]
  BY <1>1 DEF action_wire
<1>3. action_wire(a).uses[u[1]] \in {action_wire(a).uses[op] : op \in Operations}
  BY <1>1
<1> QED BY <1>1, <1>2, <1>3 DEF Uses

\* The answer's confidence is at most that of each use.
LEMMA AnswerIsLeast ==
    ASSUME IInv, NEW R, ClaimsOK(R), NEW a, NEW t, NEW u \in Uses(a)
    PROVE  /\ Answer(R, a, t).confidence \in Nat
           /\ Answer(R, a, t).confidence
                 <= can_act(registry_wire(R), a.actor.name, resource_wire(u[2]), u[1], t)
<1>1. PICK W, b : W = registry_wire(R) /\ b = action_wire(a)
  OBVIOUS
<1> DEFINE L == {can_act(W, b.actor.name, v[2], v[1], t) : v \in Uses(b)}
<1>2. Answer(R, a, t).confidence = LeastOf({Full} \cup L)
  BY <1>1 DEF Answer, verify
<1>3. ASSUME NEW v PROVE can_act(W, b.actor.name, v[2], v[1], t) \in Nat
  <2>1. CASE FreeRead(v[2], v[1])
    BY <2>1, EngineAssumption DEF can_act, FreeRead
  <2>2. CASE ~FreeRead(v[2], v[1])
    BY <1>1, <2>2, AnswerOfClaim
  <2> QED BY <2>1, <2>2
<1>4. {Full} \cup L \subseteq Nat
  BY <1>3, EngineAssumption
<1>5. can_act(W, b.actor.name, resource_wire(u[2]), u[1], t) \in L
  <2>1. PICK v : v = <<u[1], resource_wire(u[2])>>
    OBVIOUS
  <2>2. v \in Uses(b) /\ v[1] = u[1] /\ v[2] = resource_wire(u[2])
    BY <1>1, <2>1, UseOnWire
  <2>3. can_act(W, b.actor.name, v[2], v[1], t) \in L
    BY <2>2
  <2> QED BY <2>2, <2>3
<1>6. LeastOf({Full} \cup L) <= can_act(W, b.actor.name, resource_wire(u[2]), u[1], t)
  BY <1>4, <1>5, LeastAttained
<1>7. LeastOf({Full} \cup L) \in Nat
  BY <1>4, LeastAttained
<1> QED BY <1>1, <1>2, <1>6, <1>7 DEF action_wire

LEMMA InvariantGivesAsserted == IInv => PermitsAreAsserted
<1> SUFFICES ASSUME IInv, NEW which \in DOMAIN reg, NEW a \in Requests,
                    Answer(reg[which], a, now).permitted,
                    NEW u \in Uses(a), ~FreeRead(u[2], u[1])
             PROVE  \E o \in asserted : /\ o.resource.name = u[2].name
                                        /\ o.resource.rtype = u[2].rtype
                                        /\ u[1] \in o.rights
                                        /\ o.confidence >= Answer(reg[which], a, now).confidence
  BY Zenon DEF PermitsAreAsserted, FreeRead
<1>1. PICK R, r, W : R = reg[which] /\ r = resource_wire(u[2]) /\ W = registry_wire(R)
  OBVIOUS
<1> DEFINE answer == can_act(W, a.actor.name, r, u[1], now)
<1>2. ClaimsOK(R)
  BY <1>1 DEF IInv
<1>3. r.name = u[2].name /\ r.rtype = u[2].rtype /\ ~FreeRead(r, u[1])
  BY <1>1 DEF resource_wire, FreeRead
<1>4. answer # 0
  <2>1. PICK v : v = <<u[1], r>>
    OBVIOUS
  <2>2. v \in Uses(action_wire(a)) /\ v[1] = u[1] /\ v[2] = r
    BY <1>1, <2>1, UseOnWire
  <2>3. Violations(W, action_wire(a), now) = {}
    BY <1>1 DEF Answer, verify
  <2>4. can_act(W, action_wire(a).actor.name, v[2], v[1], now) # 0
    BY <2>2, <2>3 DEF Violations
  <2> QED BY <2>2, <2>4 DEF action_wire
<1>5. PICK i \in DOMAIN R.claims :
         /\ claim_wire(R.claims[i]) \in Covering(W, a.actor.name, r, u[1], now)
         /\ answer = R.claims[i].confidence
  BY <1>1, <1>2, <1>3, <1>4, AnswerOfClaim
<1>6. /\ R.claims[i].resource.name = r.name /\ R.claims[i].resource.rtype = r.rtype
      /\ u[1] \in R.claims[i].rights
  BY <1>5, WireFields DEF Covering
<1>7. PICK o \in asserted : /\ o.resource.name = R.claims[i].resource.name
                            /\ o.resource.rtype = R.claims[i].resource.rtype
                            /\ R.claims[i].rights \subseteq o.rights
                            /\ R.claims[i].confidence <= o.confidence
  BY <1>2 DEF ClaimsOK, Within
<1>8. Answer(R, a, now).confidence <= answer /\ Answer(R, a, now).confidence \in Nat
  BY <1>1, <1>2, AnswerIsLeast
<1>9. o.confidence >= Answer(R, a, now).confidence
  <2>1. o.confidence \in Nat /\ answer \in Nat
    BY <1>2, <1>5, OfferFields DEF IInv, ClaimsOK
  <2> QED BY <1>5, <1>7, <1>8, <2>1
<1> QED BY <1>1, <1>3, <1>6, <1>7, <1>9

\* Whatever is delegated, revoked, expired or frozen, a permit rests for each use
\* on an offer that add_claim accepted, at no more than its confidence, although
\* the engine knows holders by name and resources without their scope.
THEOREM PermitsAlwaysAsserted == Spec => []PermitsAreAsserted
BY IInvInit, IInvNext, InvariantGivesAsserted, PTL DEF Spec
-------------------------------------------------------------------------------
(* Snapshots *)

\* Fewer claims, later: nothing is permitted that was not.
LEMMA FewerPermitLess ==
    ASSUME IInv, NEW R, ClaimsOK(R), NEW S, ClaimsOK(S),
           S.machine_owners = R.machine_owners, DOMAIN S.claims \subseteq DOMAIN R.claims,
           \A n \in DOMAIN S.claims : S.claims[n] = R.claims[n],
           NEW t \in Nat, NEW u \in Nat, t <= u, NEW a, Answer(S, a, u).permitted
    PROVE  Answer(R, a, t).permitted
<1>1. PICK V, W, b : V = registry_wire(R) /\ W = registry_wire(S) /\ b = action_wire(a)
  OBVIOUS
<1>2. Violations(W, b, u) = {}
  BY <1>1 DEF Answer, verify
<1>3. V.machine_owners = W.machine_owners /\ V.grants = W.grants
  BY <1>1 DEF registry_wire
<1>4. ASSUME NEW r, NEW op, can_act(V, b.actor.name, r, op, t) = 0
      PROVE  can_act(W, b.actor.name, r, op, u) = 0
  <2>1. CASE FreeRead(r, op)
    BY <1>4, <2>1 DEF can_act, FreeRead
  <2>2. CASE ~FreeRead(r, op)
    <3>1. Covering(V, b.actor.name, r, op, t) = {}
      BY <1>1, <1>4, <2>2, AnswerOfClaim
    <3>2. ASSUME NEW c \in Covering(W, b.actor.name, r, op, u) PROVE FALSE
      <4>1. PICK n \in DOMAIN S.claims : c = claim_wire(S.claims[n])
        BY <1>1 DEF Covering, Elements, registry_wire
      <4>2. c \in Elements(V.claims)
        BY <1>1, <4>1 DEF Elements, registry_wire
      <4>3. c.expires_at \in Nat \cup {Never}
        BY <4>1, WireFields DEF ClaimsOK
      <4>4. claim_valid(c, t)
        BY <4>3, EngineAssumption DEF Covering, claim_valid
      <4>5. c \in Covering(V, b.actor.name, r, op, t)
        BY <4>2, <4>4 DEF Covering
      <4> QED BY <3>1, <4>5
    <3>3. Covering(W, b.actor.name, r, op, u) = {}
      BY <3>2
    <3> QED BY <1>1, <2>2, <3>3, AnswerOfClaim
  <2> QED BY <2>1, <2>2
<1>5. Violations(V, b, t) = {}
  BY <1>2, <1>3, <1>4 DEF Violations, HasOwner, CrossesDomain, trust_domain_allows
<1> QED BY <1>1, <1>5 DEF Answer, verify

\* What is added to the invariant: a snapshot is frozen.
SnapInv ==
    /\ IInv
    /\ now \in Nat
    /\ "snapshot" \in DOMAIN reg => reg["snapshot"].frozen = TRUE

LEMMA SnapshotOK == IInv => ClaimsOK(Snapshot)
BY DEF IInv, Snapshot, ClaimsOK, Empty

\* A mutator reaches the live registry only.
LEMMA MutatorsReachLive ==
    ASSUME SnapInv, NEW which, Mutable(which), NEW S, reg' = [reg EXCEPT ![which] = S]
    PROVE  /\ Snapshot' = Snapshot
           /\ "snapshot" \in DOMAIN reg' => reg'["snapshot"].frozen = TRUE
<1>1. which \in DOMAIN reg /\ which # "snapshot"
  BY DEF SnapInv, Mutable
<1> QED BY <1>1 DEF SnapInv, Snapshot, Empty

LEMMA SnapNext ==
    SnapInv /\ [Next]_vars
        => SnapInv' /\ [UNCHANGED <<Snapshot, now>> \/ freeze \/ Permitted' \subseteq Permitted]_vars
<1> SUFFICES ASSUME SnapInv, [Next]_vars
             PROVE  /\ now' \in Nat
                    /\ "snapshot" \in DOMAIN reg' => reg'["snapshot"].frozen = TRUE
                    /\ UNCHANGED <<Snapshot, now>> \/ freeze \/ Permitted' \subseteq Permitted
  BY IInvNext DEF SnapInv
<1> DEFINE Goal == /\ now' \in Nat
                   /\ "snapshot" \in DOMAIN reg' => reg'["snapshot"].frozen = TRUE
                   /\ UNCHANGED <<Snapshot, now>> \/ freeze \/ Permitted' \subseteq Permitted
<1>0. ASSUME NEW which, Mutable(which), NEW S, reg' = [reg EXCEPT ![which] = S], now' = now
      PROVE  Goal
  BY <1>0, MutatorsReachLive DEF SnapInv
<1>1. ASSUME NEW which, NEW o \in Offers, add_claim(which, o) PROVE Goal
  BY <1>0, <1>1 DEF add_claim
<1>2. ASSUME NEW which, NEW o \in Offers, NEW by, delegate(which, o, by) PROVE Goal
  BY <1>0, <1>2 DEF delegate
<1>3. ASSUME NEW which, NEW m, NEW owner, register_machine(which, m, owner) PROVE Goal
  BY <1>0, <1>3 DEF register_machine
<1>4. ASSUME NEW which, NEW name, revoke_all(which, name) PROVE Goal
  BY <1>0, <1>4 DEF revoke_all
<1>5. ASSUME NEW which, NEW name, NEW r, revoke_on_resource(which, name, r) PROVE Goal
  BY <1>0, <1>5 DEF revoke_on_resource
<1>6. ASSUME NEW which, expire_stale(which) PROVE Goal
  <2>1. PICK N : reg' = [reg EXCEPT ![which] = Without(@, N)]
    BY <1>6 DEF expire_stale
  <2>2. which \in DOMAIN reg /\ now' = now
    BY <1>6 DEF expire_stale
  <2>3. CASE which # "snapshot"
    BY <2>1, <2>2, <2>3 DEF SnapInv, Snapshot, Empty
  <2>4. CASE which = "snapshot"
    <3>1. PICK R, S : R = Snapshot /\ S = Without(R, N)
      OBVIOUS
    <3>2. R = reg["snapshot"] /\ Snapshot' = S /\ reg'["snapshot"] = S
      BY <2>1, <2>2, <2>4, <3>1 DEF Snapshot
    <3>3. ClaimsOK(R)
      BY <3>1, SnapshotOK DEF SnapInv
    <3>4. /\ S.claims = [n \in DOMAIN R.claims \ N |-> R.claims[n]]
          /\ S.machine_owners = R.machine_owners /\ S.frozen = R.frozen /\ DOMAIN S = DOMAIN R
      BY <3>1, <3>3 DEF Without, ClaimsOK, Restrict
    <3>5. ClaimsOK(S)
      BY <3>3, <3>4 DEF ClaimsOK
    <3>6. \A a : Answer(S, a, now).permitted => Answer(R, a, now).permitted
      BY <3>3, <3>4, <3>5, FewerPermitLess DEF SnapInv
    <3>7. Permitted' \subseteq Permitted
      BY <2>2, <3>1, <3>2, <3>6 DEF Permitted
    <3> QED BY <2>2, <2>4, <3>2, <3>4, <3>7 DEF SnapInv
  <2> QED BY <2>3, <2>4
<1>7. CASE freeze
  <2>1. ClaimsOK(reg["live"])
    BY DEF SnapInv, IInv
  <2>2. now' = now /\ reg'["snapshot"].frozen = TRUE
    BY <1>7, <2>1 DEF freeze, ClaimsOK
  <2> QED BY <1>7, <2>2 DEF SnapInv
<1>8. CASE Tick
  <2>1. PICK R : R = Snapshot
    OBVIOUS
  <2>2. now' = now + 1 /\ reg' = reg /\ Snapshot' = R /\ ClaimsOK(R)
    BY <1>8, <2>1, SnapshotOK DEF Tick, Snapshot, Empty, SnapInv
  <2>3. \A a : Answer(R, a, now + 1).permitted => Answer(R, a, now).permitted
    BY <2>2, FewerPermitLess DEF SnapInv
  <2>4. Permitted' \subseteq Permitted
    BY <2>1, <2>2, <2>3 DEF Permitted
  <2> QED BY <2>2, <2>4 DEF SnapInv
<1>9. CASE UNCHANGED vars
  BY <1>9 DEF vars, SnapInv, Snapshot, Empty
<1> QED BY <1>1, <1>2, <1>3, <1>4, <1>5, <1>6, <1>7, <1>8, <1>9 DEF Next, revoke_cascading

\* Until another snapshot is taken, a verifier over the frozen registry goes on
\* refusing what it refuses: the mutators do not touch it, and expiry, which
\* does, and time only take away.
THEOREM SnapshotAlwaysNeverGains == Spec => SnapshotNeverGains
<1>1. Init => SnapInv
  BY IInvInit DEF Init, SnapInv
<1> QED BY <1>1, SnapNext, PTL DEF Spec, SnapshotNeverGains

-------------------------------------------------------------------------------
(* Plans *)

\* The loop over a plan is what its equation says: there is a function that
\* satisfies it, by the least number of steps for which there would be none.
LEMMA Projections ==
    ASSUME NEW V, NEW plan, plan \in Seq(Elements(plan)), NEW t,
           NEW after, after = projections(V, plan, t)
    PROVE  /\ after[0] = NothingRead
           /\ \A i \in 1 .. Len(plan) : after[i] = advance(V, after[i - 1], plan[i], i, t)
<1> DEFINE Fits(f, k) ==
             f = [i \in 0 .. k |-> IF i = 0 THEN NothingRead ELSE advance(V, f[i - 1], plan[i], i, t)]
           Missing(k) == ~\E f : Fits(f, k)
           Unfit == {k \in Nat : Missing(k)}
<1> HIDE DEF Missing
<1>1. ASSUME NEW k \in Unfit, \A j \in Unfit : k <= j PROVE FALSE
  <2>1. CASE k = 0
    <3>1. Fits([i \in 0 .. 0 |-> NothingRead], 0)
      OBVIOUS
    <3> QED BY <1>1, <2>1, <3>1 DEF Missing
  <2>2. CASE k > 0
    <3>1. k - 1 \in Nat /\ k - 1 \notin Unfit /\ k \in Nat
      BY <1>1, <2>2
    <3>2. PICK f : Fits(f, k - 1)
      BY <3>1 DEF Missing
    <3> DEFINE g == [i \in 0 .. k |-> IF i = k THEN advance(V, f[k - 1], plan[k], k, t) ELSE f[i]]
    <3>3. ASSUME NEW i \in 0 .. k
          PROVE  g[i] = IF i = 0 THEN NothingRead ELSE advance(V, g[i - 1], plan[i], i, t)
      <4>1. CASE i = k
        <5>1. g[i] = advance(V, f[k - 1], plan[k], k, t) /\ k - 1 \in 0 .. k /\ k - 1 # k
          BY <3>1, <4>1
        <5>2. g[k - 1] = f[k - 1]
          BY <5>1
        <5> QED BY <4>1, <5>1, <5>2, <2>2
      <4>2. CASE i # k
        <5>1. i \in 0 .. k - 1 /\ g[i] = f[i]
          BY <3>1, <4>2
        <5>2. f[i] = IF i = 0 THEN NothingRead ELSE advance(V, f[i - 1], plan[i], i, t)
          BY <3>2, <5>1
        <5>3. i # 0 => i - 1 \in 0 .. k /\ i - 1 # k
          BY <3>1, <5>1
        <5>4. i # 0 => g[i - 1] = f[i - 1]
          BY <5>3
        <5> QED BY <5>1, <5>2, <5>4
      <4> QED BY <4>1, <4>2
    <3>4. Fits(g, k)
      BY <3>3
    <3> QED BY <1>1, <3>4 DEF Missing
  <2> QED BY <1>1, <2>1, <2>2
<1>2. Unfit = {}
  <2>1. Unfit \subseteq Nat
    OBVIOUS
  <2> QED BY <1>1, <2>1, LeastAttained
<1>3. Len(plan) \in Nat
  BY LenProperties
<1>4. \E f : Fits(f, Len(plan))
  BY <1>2, <1>3 DEF Missing
<1>5. Fits(after, Len(plan))
  BY <1>4 DEF projections
<1>6. after[0] = NothingRead
  BY <1>3, <1>5
<1>7. ASSUME NEW i \in 1 .. Len(plan)
      PROVE  after[i] = advance(V, after[i - 1], plan[i], i, t)
  BY <1>3, <1>5
<1> QED BY <1>6, <1>7

\* Labels rank from 0 to 2, and what nothing was read into ranks lowest.
LEMMA Ranks == /\ \A l : label_rank(l) \in 0 .. 2
               /\ label_rank("PUBLIC") = 0
BY DEF label_rank

\* The taint after a step ranks as high as the one before it and as every label
\* that was read, and it is one of these.
LEMMA HighestLabel ==
    ASSUME NEW taint, NEW labels, NEW h, h = highest_label(taint, labels)
    PROVE  /\ label_rank(taint) <= label_rank(h)
           /\ \A l \in labels : label_rank(l) <= label_rank(h)
           /\ h = taint \/ h \in labels
<1>1. CASE \A l \in labels : label_rank(l) <= label_rank(taint)
  <2>1. h = taint
    BY <1>1 DEF highest_label
  <2> QED BY <1>1, <2>1, Ranks
<1>2. CASE \E l \in labels : ~(label_rank(l) <= label_rank(taint))
  <2>1. PICK l0 \in labels : ~(label_rank(l0) <= label_rank(taint))
    BY <1>2
  <2> DEFINE T == {2 - label_rank(l) : l \in labels}
  <2>2. T \subseteq Nat /\ T # {}
    BY <2>1, Ranks
  <2>3. LeastOf(T) \in T /\ \A n \in T : LeastOf(T) <= n
    BY <2>2, LeastAttained
  <2>4. PICK l1 \in labels : LeastOf(T) = 2 - label_rank(l1)
    BY <2>3
  <2>5. ASSUME NEW m \in labels PROVE label_rank(m) <= label_rank(l1)
    <3>1. 2 - label_rank(l1) <= 2 - label_rank(m)
      BY <2>3, <2>4
    <3> QED BY <3>1, Ranks
  <2>6. h = CHOOSE l \in labels : \A m \in labels : label_rank(m) <= label_rank(l)
    BY <1>2, Zenon DEF highest_label
  <2>7. h \in labels /\ \A m \in labels : label_rank(m) <= label_rank(h)
    BY <2>5, <2>6, Zenon
  <2>8. label_rank(taint) <= label_rank(h)
    <3>1. label_rank(l0) <= label_rank(h)
      BY <2>1, <2>7
    <3> QED BY <2>1, <3>1, Ranks
  <2> QED BY <2>7, <2>8
<1> QED BY <1>1, <1>2, Zenon

\* A leak is between a label that is read and one that is written.
LEMMA LeaksBetweenLabels ==
    ASSUME NEW plan, NEW i, NEW j
    PROVE  Leaks(plan, j, i) <=>
             \E l \in Labels(plan[j], "read"), m \in Labels(plan[i], "write") :
                 label_rank(l) > label_rank(m)
BY DEF Leaks, Labels

\* Step i of the plan must not run.
Bad(V, plan, i, t) ==
    ~verify(V, plan[i], t).permitted \/ \E j \in 1 .. i : Leaks(plan, j, i)

\* What a state of the loop says of the steps made so far: as long as it goes on,
\* none of them is bad, and the taint is the highest label read; else it is the
\* first bad one that blocked the plan.
Faithful(V, plan, i, t, s) ==
    /\ s.blocked_at = 0 =>
         /\ ~s.temporal
         /\ \A k \in 1 .. i : ~Bad(V, plan, k, t)
         /\ \A k \in 1 .. i : \A l \in Labels(plan[k], "read") : label_rank(l) <= label_rank(s.taint)
         /\ label_rank(s.taint) = 0 \/ \E k \in 1 .. i : s.taint \in Labels(plan[k], "read")
    /\ s.blocked_at # 0 =>
         /\ s.blocked_at \in 1 .. i
         /\ Bad(V, plan, s.blocked_at, t)
         /\ \A k \in 1 .. s.blocked_at - 1 : ~Bad(V, plan, k, t)
         /\ s.temporal <=> verify(V, plan[s.blocked_at], t).permitted

\* The loop keeps it so.
LEMMA AdvanceFaithful ==
    ASSUME NEW V, NEW plan, NEW i \in Nat, i > 0, NEW t, NEW s, Faithful(V, plan, i - 1, t, s)
    PROVE  Faithful(V, plan, i, t, advance(V, s, plan[i], i, t))
<1> DEFINE a == advance(V, s, plan[i], i, t)
           taint == highest_label(s.taint, Labels(plan[i], "read"))
           permitted == verify(V, plan[i], t).permitted
<1>1. CASE s.blocked_at # 0
  <2>1. a = s
    BY <1>1 DEF advance
  <2>2. \A k \in 1 .. i - 1 : k \in 1 .. i
    OBVIOUS
  <2> QED BY <1>1, <2>1, <2>2, Zenon DEF Faithful
<1>2. CASE s.blocked_at = 0
  <2>1. /\ label_rank(s.taint) <= label_rank(taint)
        /\ \A l \in Labels(plan[i], "read") : label_rank(l) <= label_rank(taint)
        /\ taint = s.taint \/ taint \in Labels(plan[i], "read")
    BY HighestLabel
  <2>2. /\ ~s.temporal
        /\ \A k \in 1 .. i - 1 : ~Bad(V, plan, k, t)
        /\ \A k \in 1 .. i - 1 : \A l \in Labels(plan[k], "read") : label_rank(l) <= label_rank(s.taint)
        /\ label_rank(s.taint) = 0 \/ \E k \in 1 .. i - 1 : s.taint \in Labels(plan[k], "read")
    BY <1>2 DEF Faithful
  <2>3. ASSUME NEW k \in 1 .. i PROVE k = i \/ k \in 1 .. i - 1
    OBVIOUS
  <2>4. ASSUME NEW k \in 1 .. i, NEW l \in Labels(plan[k], "read")
        PROVE  label_rank(l) <= label_rank(taint)
    <3>1. CASE k = i
      BY <2>1, <3>1
    <3>2. CASE k \in 1 .. i - 1
      <4>1. label_rank(l) <= label_rank(s.taint)
        BY <2>2, <3>2
      <4> QED BY <2>1, <4>1, Ranks
    <3> QED BY <2>3, <3>1, <3>2
  <2>5. label_rank(taint) = 0 \/ \E k \in 1 .. i : taint \in Labels(plan[k], "read")
    <3>1. i \in 1 .. i /\ \A k \in 1 .. i - 1 : k \in 1 .. i
      OBVIOUS
    <3>2. CASE taint \in Labels(plan[i], "read")
      BY <3>1, <3>2
    <3>3. CASE taint = s.taint
      BY <2>2, <3>1, <3>3, Zenon
    <3> QED BY <2>1, <3>2, <3>3
  <2>6. Downward(taint, plan[i]) <=> \E j \in 1 .. i : Leaks(plan, j, i)
    <3>1. ASSUME Downward(taint, plan[i]) PROVE \E j \in 1 .. i : Leaks(plan, j, i)
      <4>1. PICK m \in Labels(plan[i], "write") : label_rank(taint) > label_rank(m)
        BY <3>1 DEF Downward
      <4>2. PICK j \in 1 .. i : taint \in Labels(plan[j], "read")
        BY <2>5, <4>1, Ranks
      <4> QED BY <4>1, <4>2, LeaksBetweenLabels
    <3>2. ASSUME NEW j \in 1 .. i, Leaks(plan, j, i) PROVE Downward(taint, plan[i])
      <4>1. PICK l \in Labels(plan[j], "read"), m \in Labels(plan[i], "write") :
                label_rank(l) > label_rank(m)
        BY <3>2, LeaksBetweenLabels
      <4>2. label_rank(taint) > label_rank(m)
        BY <2>4, <4>1, Ranks
      <4> QED BY <4>2 DEF Downward
    <3> QED BY <3>1, <3>2
  <2>7. /\ a.taint = taint
        /\ a.temporal = (permitted /\ Downward(taint, plan[i]))
        /\ a.blocked_at = IF permitted /\ ~(permitted /\ Downward(taint, plan[i])) THEN 0 ELSE i
    BY <1>2, Zenon DEF advance
  <2>8. CASE Bad(V, plan, i, t)
    <3>1. a.blocked_at = i /\ i # 0 /\ i \in 1 .. i
      BY <2>6, <2>7, <2>8 DEF Bad
    <3>2. a.temporal <=> permitted
      BY <2>6, <2>7, <2>8, Zenon DEF Bad
    <3> QED BY <2>2, <2>8, <3>1, <3>2, Zenon DEF Faithful
  <2>9. CASE ~Bad(V, plan, i, t)
    <3>1. a.blocked_at = 0 /\ ~a.temporal
      BY <2>6, <2>7, <2>9, Zenon DEF Bad
    <3>2. \A k \in 1 .. i : ~Bad(V, plan, k, t)
      BY <2>2, <2>3, <2>9, Zenon
    <3> QED BY <2>4, <2>5, <2>7, <3>1, <3>2, Zenon DEF Faithful
  <2> QED BY <2>8, <2>9
<1> QED BY <1>1, <1>2

LEMMA LoopFaithful ==
    ASSUME NEW V, NEW plan, plan \in Seq(Elements(plan)), NEW t
    PROVE  Faithful(V, plan, Len(plan), t, projections(V, plan, t)[Len(plan)])
<1> DEFINE after == projections(V, plan, t)
           Holds(i) == Faithful(V, plan, i, t, after[i])
           Failing == {i \in 0 .. Len(plan) : ~Holds(i)}
<1>1. Len(plan) \in Nat
  BY LenProperties
<1>2. Holds(0)
  <2>1. after[0] = NothingRead
    BY Projections
  <2>2. 1 .. 0 = {}
    OBVIOUS
  <2> QED BY <2>1, <2>2, Ranks DEF Faithful, NothingRead
<1>3. ASSUME NEW i \in 1 .. Len(plan), Holds(i - 1) PROVE Holds(i)
  <2>1. after[i] = advance(V, after[i - 1], plan[i], i, t) /\ i \in Nat /\ i > 0
    BY <1>1, Projections
  <2> QED BY <1>3, <2>1, AdvanceFaithful
<1> HIDE DEF Holds
<1>4. ASSUME NEW k \in Failing, \A j \in Failing : k <= j PROVE FALSE
  <2>1. k # 0 /\ k \in 1 .. Len(plan)
    BY <1>1, <1>2, <1>4
  <2>2. k - 1 \in 0 .. Len(plan) /\ k - 1 \notin Failing
    BY <1>1, <1>4, <2>1
  <2> QED BY <1>3, <1>4, <2>1, <2>2
<1>5. Failing = {}
  <2>1. Failing \subseteq Nat
    BY <1>1
  <2> QED BY <1>4, <2>1, LeastAttained
<1>6. Holds(Len(plan))
  BY <1>1, <1>5
<1> QED BY <1>6 DEF Holds

\* An action that is permitted bears no forbidden flag.
LEMMA PermittedBearsNoFlag ==
    ASSUME NEW V, NEW a, NEW t, verify(V, a, t).permitted
    PROVE  a.flags = {}
<1>1. Violations(V, a, t) = {}
  BY DEF verify
<1>2. \A f \in a.flags : <<"FORBIDDEN", f>> \in Violations(V, a, t)
  BY Zenon DEF Violations
<1> QED BY <1>1, <1>2

LEMMA PlanStops ==
    ASSUME NEW plan, plan \in Seq(Elements(plan)),
           NEW answer, answer = planner_verify_plan(LiveWire, plan, now),
           NEW bad, bad = {i \in DOMAIN plan : ~Permits(plan[i]) \/ \E j \in 1 .. i : Leaks(plan, j, i)}
    PROVE  /\ answer.blocked_at = FirstOf(bad)
           /\ answer.temporal <=> bad # {} /\ Permits(plan[FirstOf(bad)])
           /\ answer.all_permitted => binding_verify_plan(LiveWire, plan, now) = DOMAIN plan
<1>1. Len(plan) \in Nat /\ DOMAIN plan = 1 .. Len(plan)
  BY LenProperties
<1>2. PICK s : s = projections(LiveWire, plan, now)[Len(plan)]
  OBVIOUS
<1>3. Faithful(LiveWire, plan, Len(plan), now, s)
  BY <1>2, LoopFaithful
<1>4. /\ answer.all_permitted = (s.blocked_at = 0)
      /\ answer.blocked_at = s.blocked_at
      /\ answer.temporal = s.temporal
  BY <1>2, Zenon DEF planner_verify_plan
<1>5. \A i : i \in bad <=> i \in 1 .. Len(plan) /\ Bad(LiveWire, plan, i, now)
  BY <1>1, Zenon DEF Bad, Permits
<1>6. CASE s.blocked_at = 0
  <2>1. ~s.temporal /\ bad = {}
    BY <1>3, <1>5, <1>6, Zenon DEF Faithful
  <2>2. FirstOf(bad) = 0
    BY <2>1 DEF FirstOf
  <2>3. ASSUME NEW i \in 1 .. Len(plan) PROVE verify(LiveWire, plan[i], now).permitted
    BY <1>5, <2>1 DEF Bad
  <2>4. ASSUME NEW i \in DOMAIN plan, NEW j \in 1 .. i - 1 PROVE plan[j].flags = {}
    <3>1. j \in 1 .. Len(plan)
      BY <1>1
    <3> QED BY <2>3, <3>1, PermittedBearsNoFlag
  <2>5. binding_verify_plan(LiveWire, plan, now) = DOMAIN plan
    BY <1>1, <2>3, <2>4, Zenon DEF binding_verify_plan
  <2> QED BY <1>4, <1>6, <2>1, <2>2, <2>5, Zenon
<1>7. CASE s.blocked_at # 0
  <2>1. PICK b : b = s.blocked_at
    OBVIOUS
  <2>2. /\ b \in 1 .. Len(plan) /\ Bad(LiveWire, plan, b, now)
        /\ \A k \in 1 .. b - 1 : ~Bad(LiveWire, plan, k, now)
        /\ s.temporal <=> verify(LiveWire, plan[b], now).permitted
    BY <1>3, <1>7, <2>1, Zenon DEF Faithful
  <2>3. b \in bad /\ bad \subseteq Nat
    BY <1>1, <1>5, <2>2
  <2>4. LeastOf(bad) \in bad /\ \A i \in bad : LeastOf(bad) <= i
    BY <2>3, LeastAttained
  <2>5. LeastOf(bad) = b
    <3>1. PICK n : n = LeastOf(bad)
      OBVIOUS
    <3>2. n \in 1 .. Len(plan) /\ Bad(LiveWire, plan, n, now) /\ n <= b
      BY <1>5, <2>3, <2>4, <3>1
    <3>3. n \notin 1 .. b - 1
      BY <2>2, <3>2
    <3> QED BY <2>2, <3>1, <3>2, <3>3, <1>1
  <2>6. FirstOf(bad) = b
    BY <2>3, <2>5 DEF FirstOf
  <2> QED BY <1>4, <1>7, <2>1, <2>2, <2>3, <2>6, Zenon DEF Permits
<1> QED BY <1>6, <1>7

\* A plan is blocked at its first step that the gate refuses or that would let a
\* label flow down, at no other, and one that passes is permitted step by step by
\* the binding, for every plan, registry and time (planner.rs verify_plan).
THEOREM PlansAlwaysStopWhereTheyMust == Spec => []PlansStopWhereTheyMust
<1>1. PlansStopWhereTheyMust
  BY PlanStops, PlansAssumption, Zenon DEF PlansStopWhereTheyMust
<1> QED BY <1>1, PTL

-------------------------------------------------------------------------------
(* Replies to C callers *)

LEMMA ClockInit == Init => now \in 0 .. MaxTime
BY RegistryAssumption DEF Init

LEMMA ClockNext ==
    ASSUME now \in 0 .. MaxTime, [Next]_vars
    PROVE  (now \in 0 .. MaxTime)'
<1>1. CASE Tick
  BY <1>1, RegistryAssumption DEF Tick
<1>2. CASE ~Tick
  <2>1. now' = now
    BY <1>2, Zenon DEF Next, vars, add_claim, delegate, register_machine, revoke_all,
         revoke_on_resource, revoke_cascading, expire_stale, freeze
  <2> QED BY <2>1
<1> QED BY <1>1, <1>2

\* What is copied is the whole of a text exactly when the buffer is longer.
LEMMA WholeIfItFits ==
    ASSUME NEW capacity \in Nat, NEW length \in Nat \ {0}
    PROVE  length < capacity <=> write_buf(capacity, length) = length
BY DEF write_buf

\* For any input and any buffer, a caller who compares the code with the capacity
\* knows whether the answer was cut (ffi.rs authgate_kernel_verify).
THEOREM RepliesAlwaysWholeIfTheyFit == Spec => []RepliesWholeIfTheyFit
<1>1. now \in 0 .. MaxTime => RepliesWholeIfTheyFit
  <2> SUFFICES ASSUME now \in 0 .. MaxTime,
                      NEW input \in Inputs, NEW capacity \in Capacities,
                      NEW reply, reply = authgate_kernel_verify(input, capacity, now)
               PROVE  IF reply.code > 0 THEN reply.code < capacity <=> reply.written = reply.code
                      ELSE reply.text = "error"
    BY Zenon DEF RepliesWholeIfTheyFit
  <2>1. CASE \E code \in {-2, -1} : reply = Failed(code, capacity)
    BY <2>1 DEF Failed
  <2>2. CASE ~\E code \in {-2, -1} : reply = Failed(code, capacity)
    <3>1. PICK length : length = JsonLength(verify(input.registry, input.action, now))
      OBVIOUS
    <3>2. length \in Nat \ {0} /\ capacity \in Nat
      BY <3>1, CallersAssumption
    <3>3. reply = [code |-> length, text |-> "result", written |-> write_buf(capacity, length)]
      BY <2>2, <3>1, Zenon DEF authgate_kernel_verify
    <3> QED BY <3>2, <3>3, WholeIfItFits
  <2> QED BY <2>1, <2>2
<1>2. Spec => [](now \in 0 .. MaxTime)
  BY ClockInit, ClockNext, PTL DEF Spec
<1> QED BY <1>1, <1>2, PTL

-------------------------------------------------------------------------------
(* What the registry answers by itself *)

\* The engine says of a use no less than the confidence of any claim that covers
\* it.
LEMMA AnswerIsMost ==
    ASSUME IInv, NEW R, ClaimsOK(R), NEW name, NEW r, NEW op, NEW t, ~FreeRead(r, op),
           NEW i \in DOMAIN R.claims, claim_wire(R.claims[i]) \in Covering(registry_wire(R), name, r, op, t)
    PROVE  R.claims[i].confidence <= can_act(registry_wire(R), name, r, op, t)
<1>1. PICK W, C : W = registry_wire(R) /\ C = Covering(W, name, r, op, t)
  OBVIOUS
<1> DEFINE I == {j \in DOMAIN R.claims : claim_wire(R.claims[j]) \in C}
           S == {R.claims[j].confidence : j \in I}
<1>2. \A c \in C : \E j \in I : c = claim_wire(R.claims[j])
  BY <1>1 DEF Covering, Elements, registry_wire
<1>3. S = {c.confidence : c \in C}
  BY <1>2, WireFields
<1>4. i \in I
  BY <1>1
<1>5. \A n \in S : n <= MostOf(S)
  <2>1. PICK k \in I : \A j \in I : R.claims[j].confidence <= R.claims[k].confidence
    BY <1>4, MostConfident
  <2>2. R.claims[k].confidence \in S /\ \A n \in S : n <= R.claims[k].confidence
    BY <2>1
  <2> QED BY <2>2 DEF MostOf
<1>6. can_act(W, name, r, op, t) = MostOf(S)
  BY <1>1, <1>3 DEF can_act, FreeRead
<1> QED BY <1>1, <1>4, <1>5, <1>6

\* Every machine is registered as one, with one owner.
OwnersOK(R) ==
    /\ {"claims", "machine_owners"} \subseteq DOMAIN R
    /\ R.machine_owners \subseteq Entity \X Entity
    /\ \A mo \in R.machine_owners : mo[1].kind = "MACHINE"
    /\ \A x, y \in R.machine_owners : x[1] = y[1] => x = y

OwnersInv == "live" \in DOMAIN reg /\ \A which \in DOMAIN reg : OwnersOK(reg[which])

LEMMA OwnersInit == Init => OwnersInv
BY DEF Init, OwnersInv, OwnersOK, Empty

\* Nothing is done to one registry but that leaves its owners in order.
LEMMA OwnersKept ==
    ASSUME OwnersInv, NEW which \in DOMAIN reg, NEW S, OwnersOK(S), reg' = [reg EXCEPT ![which] = S]
    PROVE  OwnersInv'
BY DEF OwnersInv, OwnersOK

\* Other claims, the same owners.
LEMMA OwnersWithoutClaims ==
    ASSUME NEW R, OwnersOK(R), NEW S, DOMAIN S = DOMAIN R, S.machine_owners = R.machine_owners
    PROVE  OwnersOK(S)
BY DEF OwnersOK

LEMMA OwnersNext ==
    ASSUME OwnersInv, [Next]_vars
    PROVE  OwnersInv'
<1>1. ASSUME NEW which, NEW c, Mutable(which), reg' = [reg EXCEPT ![which] = Insert(@, c)] PROVE OwnersInv'
  <2>1. PICK R, S : R = reg[which] /\ S = Insert(R, c)
    OBVIOUS
  <2>2. which \in DOMAIN reg /\ OwnersOK(R) /\ reg' = [reg EXCEPT ![which] = S]
    BY <1>1, <2>1 DEF Mutable, OwnersInv
  <2>3. DOMAIN S = DOMAIN R /\ S.machine_owners = R.machine_owners
    BY <2>1, <2>2 DEF Insert, OwnersOK
  <2> QED BY <2>2, <2>3, OwnersWithoutClaims, OwnersKept
<1>2. ASSUME NEW which \in DOMAIN reg, NEW N, reg' = [reg EXCEPT ![which] = Without(@, N)] PROVE OwnersInv'
  <2>1. PICK R, S : R = reg[which] /\ S = Without(R, N)
    OBVIOUS
  <2>2. OwnersOK(R) /\ reg' = [reg EXCEPT ![which] = S]
    BY <1>2, <2>1 DEF OwnersInv
  <2>3. DOMAIN S = DOMAIN R /\ S.machine_owners = R.machine_owners
    BY <2>1, <2>2 DEF Without, OwnersOK
  <2> QED BY <2>2, <2>3, OwnersWithoutClaims, OwnersKept
<1>3. ASSUME NEW which, NEW mo \in Owners, register_machine(which, mo[1], mo[2]) PROVE OwnersInv'
  <2>1. PICK R, S : /\ R = reg[which]
                    /\ S = [R EXCEPT !.machine_owners = {x \in @ : x[1] # mo[1]} \cup {<<mo[1], mo[2]>>}]
    OBVIOUS
  <2>2. /\ which \in DOMAIN reg /\ OwnersOK(R) /\ reg' = [reg EXCEPT ![which] = S]
        /\ mo[1].kind = "MACHINE"
    BY <1>3, <2>1 DEF register_machine, Mutable, OwnersInv
  <2>3. mo[1] \in Entity /\ mo[2] \in Entity
    BY RegistryAssumption
  <2>4. /\ DOMAIN S = DOMAIN R
        /\ S.machine_owners = {x \in R.machine_owners : x[1] # mo[1]} \cup {<<mo[1], mo[2]>>}
    BY <2>1, <2>2 DEF OwnersOK
  <2>5. OwnersOK(S)
    BY <2>2, <2>3, <2>4 DEF OwnersOK
  <2> QED BY <2>2, <2>5, OwnersKept
<1>4. CASE freeze
  <2>1. PICK R, S : R = reg["live"] /\ S = [R EXCEPT !.frozen = TRUE]
    OBVIOUS
  <2>2. OwnersOK(R) /\ reg' = [which \in {"live", "snapshot"} |-> IF which = "live" THEN R ELSE S]
    BY <1>4, <2>1 DEF freeze, OwnersInv
  <2>3. DOMAIN S = DOMAIN R /\ S.machine_owners = R.machine_owners
    BY <2>1, <2>2 DEF OwnersOK
  <2>4. OwnersOK(S)
    BY <2>2, <2>3, OwnersWithoutClaims
  <2> QED BY <2>2, <2>4 DEF OwnersInv
<1>5. CASE Tick \/ UNCHANGED vars
  BY <1>5 DEF Tick, vars, OwnersInv
<1> QED BY <1>1, <1>2, <1>3, <1>4, <1>5 DEF Next, add_claim, delegate, revoke_all, revoke_on_resource,
        revoke_cascading, expire_stale, Mutable

LEMMA QueriesAgree == IInv /\ OwnersInv => QueriesAgreeWithGate
<1> SUFFICES ASSUME IInv, OwnersInv, NEW which \in DOMAIN reg, NEW o \in Offers,
                    NEW R, R = reg[which], NEW W, W = registry_wire(R)
             PROVE  /\ \A op \in Operations :
                          LET said == registry_can_act(R, o.holder, o.resource, op)
                          IN  /\ said <= can_act(W, o.holder.name, resource_wire(o.resource), op, now)
                              /\ said > 0 => \/ o.resource.is_public /\ op = "read"
                                             \/ \E i \in claims_for(R, o.holder, o.resource) :
                                                    op \in R.claims[i].rights /\ said = R.claims[i].confidence
                    /\ \A x, y \in owner_of(R, o.holder) : x = y
                    /\ o.holder.kind = "MACHINE" => (owner_of(R, o.holder) = {} <=> ~HasOwner(W, o.holder.name))
  BY DEF QueriesAgreeWithGate
<1>1. ClaimsOK(R) /\ OwnersOK(R)
  BY DEF IInv, OwnersInv
<1>2. ASSUME NEW op \in Operations,
             NEW said, said = registry_can_act(R, o.holder, o.resource, op),
             NEW r, r = resource_wire(o.resource)
      PROVE  /\ said <= can_act(W, o.holder.name, r, op, now)
             /\ said > 0 => \/ o.resource.is_public /\ op = "read"
                            \/ \E i \in claims_for(R, o.holder, o.resource) :
                                   op \in R.claims[i].rights /\ said = R.claims[i].confidence
  <2> DEFINE I == {i \in claims_for(R, o.holder, o.resource) : covers(R.claims[i], op)}
             S == {R.claims[i].confidence : i \in I}
  <2>1. r.name = o.resource.name /\ r.rtype = o.resource.rtype /\ r.is_public = o.resource.is_public
    BY <1>2 DEF resource_wire
  <2>2. CASE FreeRead(r, op)
    <3>1. said = Full /\ can_act(W, o.holder.name, r, op, now) = Full
      BY <1>2, <2>1, <2>2 DEF FreeRead, registry_can_act, can_act
    <3> QED BY <2>1, <2>2, <3>1, EngineAssumption DEF FreeRead
  <2>3. CASE ~FreeRead(r, op) /\ I = {}
    <3>1. said = 0
      BY <1>2, <2>1, <2>3 DEF FreeRead, registry_can_act
    <3>2. can_act(W, o.holder.name, r, op, now) \in Nat
      BY <1>1, <2>3, AnswerOfClaim
    <3> QED BY <3>1, <3>2
  <2>4. CASE ~FreeRead(r, op) /\ I # {}
    <3>1. said = MostOf(S)
      BY <1>2, <2>1, <2>4 DEF FreeRead, registry_can_act
    <3>2. I \in SUBSET DOMAIN R.claims
      BY DEF claims_for
    <3>3. said \in S
      <4>1. I # {} /\ ClaimsOK(R)
        BY <1>1, <2>4
      <4>2. PICK i \in I : \A j \in I : R.claims[j].confidence <= R.claims[i].confidence
        BY <3>2, <4>1, MostConfident
      <4>3. R.claims[i].confidence \in S /\ \A n \in S : n <= R.claims[i].confidence
        BY <4>2
      <4> QED BY <3>1, <4>3 DEF MostOf
    <3>4. PICK i \in I : said = R.claims[i].confidence
      BY <3>3
    <3>5. claim_wire(R.claims[i]) \in Covering(W, o.holder.name, r, op, now)
      <4>1. PICK c : c = R.claims[i]
        OBVIOUS
      <4>2. /\ c.holder = o.holder /\ c.resource = resource_to_key(o.resource)
            /\ claim_valid(c, now) /\ op \in c.rights
        BY <3>4, <4>1 DEF claims_for, covers
      <4>3. c.resource.name = r.name /\ c.resource.rtype = r.rtype
        BY <2>1, <4>2 DEF resource_to_key
      <4>4. claim_wire(c).holder = c.holder
        BY DEF claim_wire
      <4>5. claim_valid(claim_wire(c), now)
        BY <4>2, WireFields DEF claim_valid
      <4>6. claim_wire(c) \in Elements(W.claims)
        BY <3>2, <3>4, <4>1 DEF registry_wire, Elements
      <4> QED BY <4>1, <4>2, <4>3, <4>4, <4>5, <4>6, WireFields DEF Covering
    <3>6. R.claims[i].confidence <= can_act(W, o.holder.name, r, op, now)
      BY <1>1, <2>4, <3>2, <3>4, <3>5, AnswerIsMost
    <3>7. op \in R.claims[i].rights
      BY <3>4 DEF covers
    <3> QED BY <3>4, <3>6, <3>7
  <2> QED BY <2>2, <2>3, <2>4
<1>3. \A x, y \in owner_of(R, o.holder) : x = y
  BY <1>1 DEF owner_of, OwnersOK
<1>4. ASSUME o.holder.kind = "MACHINE"
      PROVE  owner_of(R, o.holder) = {} <=> ~HasOwner(W, o.holder.name)
  <2>1. o.holder \in Entity
    BY OfferFields
  <2>2. \A mo \in R.machine_owners : mo[1] = o.holder <=> mo[1].name = o.holder.name
    BY <1>1, <1>4, <2>1 DEF OwnersOK, Entity
  <2>3. W.machine_owners = R.machine_owners
    BY DEF registry_wire
  <2> QED BY <2>2, <2>3 DEF owner_of, HasOwner
<1> QED BY <1>2, <1>3, <1>4

\* For any offers, owners and histories: what the live or frozen registry answers by
\* itself is never more than what the gate would say (registry.rs can_act,
\* claims_for, owner_of; engine.rs can_act, verify).
THEOREM QueriesAlwaysAgreeWithGate == Spec => []QueriesAgreeWithGate
BY IInvInit, IInvNext, OwnersInit, OwnersNext, QueriesAgree, PTL DEF Spec

-------------------------------------------------------------------------------
(* Types *)

LEMMA EntryTyped ==
    ASSUME NEW o \in Offers
    PROVE  ClaimEntry(o) \in HeldClaim
BY OfferFields, RegistryAssumption DEF ClaimEntry, HeldClaim, RightsClaim, resource_to_key, Resource, ResourceKey

\* As more numbers are given out a registry keeps its type.
LEMMA InnerStays ==
    ASSUME inserted \in Nat, inserted' \in Nat, inserted <= inserted', NEW R, RegistryInner(R)
    PROVE  RegistryInner(R)'
BY DEF RegistryInner

LEMMA InsertTyped ==
    ASSUME inserted \in Nat, inserted' = inserted + 1, NEW R, RegistryInner(R), NEW c \in HeldClaim,
           NEW S, S = Insert(R, c)
    PROVE  RegistryInner(S)' /\ S.frozen = R.frozen
<1>1. /\ DOMAIN S = DOMAIN R /\ S.frozen = R.frozen /\ S.machine_owners = R.machine_owners
      /\ S.claims = [n \in DOMAIN R.claims \cup {inserted + 1} |->
                        IF n = inserted + 1 THEN c ELSE R.claims[n]]
      /\ S.conflicts = IF Conflicting(R, c) = {} THEN R.conflicts
                       ELSE Append(R.conflicts, <<c.resource, R.claims[detect_conflict(R, c)].holder, c.holder>>)
  BY DEF Insert, RegistryInner
<1>2. DOMAIN S.claims \subseteq 1 .. inserted + 1 /\ \A n \in DOMAIN S.claims : S.claims[n] \in HeldClaim
  BY <1>1 DEF RegistryInner
<1>3. S.conflicts \in Seq(ConflictEntry)
  <2>1. CASE Conflicting(R, c) = {}
    BY <1>1, <2>1 DEF RegistryInner
  <2>2. CASE Conflicting(R, c) # {}
    <3>1. Conflicting(R, c) \subseteq DOMAIN R.claims /\ DOMAIN R.claims \subseteq Nat
      BY DEF Conflicting, RegistryInner
    <3>2. detect_conflict(R, c) \in DOMAIN R.claims
      BY <2>2, <3>1, LeastAttained DEF detect_conflict
    <3>3. PICK k : k = R.claims[detect_conflict(R, c)].holder
      OBVIOUS
    <3>4. k \in Entity /\ c.resource \in ResourceKey /\ c.holder \in Entity
      BY <3>2, <3>3 DEF RegistryInner, HeldClaim
    <3>5. S.conflicts = Append(R.conflicts, <<c.resource, k, c.holder>>)
      BY <1>1, <2>2, <3>3
    <3>6. <<c.resource, k, c.holder>> \in ConflictEntry
      BY <3>4 DEF ConflictEntry
    <3> QED BY <3>5, <3>6, AppendProperties DEF RegistryInner
  <2> QED BY <2>1, <2>2
<1> QED BY <1>1, <1>2, <1>3 DEF RegistryInner

LEMMA WithoutTyped ==
    ASSUME NEW R, RegistryInner(R), NEW N, NEW S, S = Without(R, N)
    PROVE  RegistryInner(S) /\ S.frozen = R.frozen
<1>1. /\ DOMAIN S = DOMAIN R /\ S.frozen = R.frozen /\ S.machine_owners = R.machine_owners
      /\ S.conflicts = R.conflicts
      /\ S.claims = [n \in DOMAIN R.claims \ N |-> R.claims[n]]
  BY DEF Without, Restrict, RegistryInner
<1> QED BY <1>1 DEF RegistryInner

LEMMA TypeInit == Init => TypeOK
<1> SUFFICES ASSUME Init PROVE TypeOK
  OBVIOUS
<1>1. << >> \in Seq(ConflictEntry)
  BY EmptySeq
<1>2. RegistryInner(Empty) /\ Empty.frozen = FALSE
  BY <1>1 DEF RegistryInner, Empty, Init
<1>3. DOMAIN reg = {"live"} /\ reg["live"] = Empty
  BY DEF Init
<1>4. ASSUME NEW which \in DOMAIN reg
      PROVE  RegistryInner(reg[which]) /\ reg[which].frozen = (which = "snapshot")
  <2>1. which = "live" /\ reg[which] = Empty
    BY <1>3
  <2> QED BY <1>2, <2>1
<1>5. /\ DOMAIN reg \in {{"live"}, {"live", "snapshot"}}
      /\ now \in 0 .. MaxTime /\ inserted \in 0 .. MaxClaims /\ asserted \subseteq Offers
  BY <1>3, RegistryAssumption DEF Init
<1> QED BY <1>4, <1>5 DEF TypeOK

\* One registry is replaced.
LEMMA ReplaceTyped ==
    ASSUME TypeOK, NEW which \in DOMAIN reg, NEW S, reg' = [reg EXCEPT ![which] = S],
           RegistryInner(S)', S.frozen = reg[which].frozen,
           inserted' \in 0 .. MaxClaims, inserted <= inserted', asserted' \subseteq Offers, now' = now
    PROVE  TypeOK'
<1>1. inserted \in Nat /\ inserted' \in Nat
  BY RegistryAssumption DEF TypeOK
<1>2. \A w \in DOMAIN reg : RegistryInner(reg[w])'  \/ w = which
  <2> SUFFICES ASSUME NEW w \in DOMAIN reg, w # which, NEW R, R = reg'[w] PROVE RegistryInner(R)'
    BY Zenon
  <2>1. R = reg[w]
    OBVIOUS
  <2> QED BY <1>1, <2>1, InnerStays DEF TypeOK
<1>3. DOMAIN reg' = DOMAIN reg /\ reg'[which] = S
  OBVIOUS
<1>4. ASSUME NEW w \in DOMAIN reg'
      PROVE  RegistryInner(reg[w])' /\ reg'[w].frozen = (w = "snapshot")
  <2>1. CASE w = which
    <3>1. reg'[w] = S /\ reg[which].frozen = (which = "snapshot")
      BY <1>3, <2>1 DEF TypeOK
    <3>2. RegistryInner(reg[w])'
      BY <3>1 DEF RegistryInner
    <3> QED BY <2>1, <3>1, <3>2
  <2>2. CASE w # which
    <3>1. reg'[w] = reg[w] /\ w \in DOMAIN reg
      BY <1>3, <2>2
    <3>2. reg'[w].frozen = (w = "snapshot")
      BY <3>1 DEF TypeOK
    <3> QED BY <1>2, <2>2, <3>1, <3>2
  <2> QED BY <2>1, <2>2
<1>5. DOMAIN reg' \in {{"live"}, {"live", "snapshot"}}
  BY <1>3 DEF TypeOK
<1>6. now' \in 0 .. MaxTime
  BY DEF TypeOK
<1> QED BY <1>4, <1>5, <1>6 DEF TypeOK

LEMMA TypeNext == TypeOK /\ [Next]_vars => TypeOK'
<1> SUFFICES ASSUME TypeOK, [Next]_vars PROVE TypeOK'
  OBVIOUS
<1>0. inserted \in Nat /\ MaxClaims \in Nat
  BY RegistryAssumption DEF TypeOK
<1>1. ASSUME NEW which, NEW o \in Offers,
             Mutable(which), inserted < MaxClaims, inserted' = inserted + 1, now' = now,
             reg' = [reg EXCEPT ![which] = Insert(@, ClaimEntry(o))],
             asserted' \subseteq Offers
      PROVE  TypeOK'
  <2>1. PICK R, S : R = reg[which] /\ S = Insert(R, ClaimEntry(o))
    OBVIOUS
  <2>2. which \in DOMAIN reg /\ RegistryInner(R) /\ reg' = [reg EXCEPT ![which] = S]
    BY <1>1, <2>1 DEF Mutable, TypeOK
  <2>3. RegistryInner(S)' /\ S.frozen = R.frozen
    BY <1>0, <1>1, <2>1, <2>2, EntryTyped, InsertTyped
  <2>4. inserted' \in 0 .. MaxClaims /\ inserted <= inserted'
    BY <1>0, <1>1
  <2> QED BY <1>1, <2>1, <2>2, <2>3, <2>4, ReplaceTyped
<1>2. ASSUME NEW which \in DOMAIN reg, NEW N, reg' = [reg EXCEPT ![which] = Without(@, N)],
             UNCHANGED <<now, inserted, asserted>>
      PROVE  TypeOK'
  <2>1. PICK R, S : R = reg[which] /\ S = Without(R, N)
    OBVIOUS
  <2>2. RegistryInner(R) /\ reg' = [reg EXCEPT ![which] = S]
    BY <1>2, <2>1 DEF TypeOK
  <2>3. RegistryInner(S) /\ S.frozen = R.frozen
    BY <2>1, <2>2, WithoutTyped
  <2>4. RegistryInner(S)'
    BY <1>2, <2>3 DEF RegistryInner
  <2>5. inserted' \in 0 .. MaxClaims /\ inserted <= inserted' /\ asserted' \subseteq Offers
    BY <1>0, <1>2 DEF TypeOK
  <2> QED BY <1>2, <2>1, <2>2, <2>3, <2>4, <2>5, ReplaceTyped
<1>3. ASSUME NEW which, NEW mo \in Owners, register_machine(which, mo[1], mo[2]) PROVE TypeOK'
  <2>1. PICK R, S : /\ R = reg[which]
                    /\ S = [R EXCEPT !.machine_owners = {x \in @ : x[1] # mo[1]} \cup {<<mo[1], mo[2]>>}]
    OBVIOUS
  <2>2. /\ which \in DOMAIN reg /\ RegistryInner(R) /\ reg' = [reg EXCEPT ![which] = S]
        /\ UNCHANGED <<now, inserted, asserted>>
    BY <1>3, <2>1 DEF register_machine, Mutable, TypeOK
  <2>3. mo[1] \in Entity /\ mo[2] \in Entity
    BY RegistryAssumption
  <2>4. /\ DOMAIN S = DOMAIN R /\ S.claims = R.claims /\ S.conflicts = R.conflicts /\ S.frozen = R.frozen
        /\ S.machine_owners = {x \in R.machine_owners : x[1] # mo[1]} \cup {<<mo[1], mo[2]>>}
    BY <2>1, <2>2 DEF RegistryInner
  <2>5. RegistryInner(S)'
    BY <2>2, <2>3, <2>4 DEF RegistryInner
  <2>6. inserted' \in 0 .. MaxClaims /\ inserted <= inserted' /\ asserted' \subseteq Offers
    BY <1>0, <2>2 DEF TypeOK
  <2> QED BY <2>1, <2>2, <2>4, <2>5, <2>6, ReplaceTyped
<1>4. CASE freeze
  <2>1. PICK R, S : R = reg["live"] /\ S = [R EXCEPT !.frozen = TRUE]
    OBVIOUS
  <2>2. /\ RegistryInner(R) /\ R.frozen = FALSE
        /\ reg' = [which \in {"live", "snapshot"} |-> IF which = "live" THEN R ELSE S]
        /\ UNCHANGED <<now, inserted, asserted>>
    BY <1>4, <2>1 DEF freeze, TypeOK
  <2>3. /\ DOMAIN S = DOMAIN R /\ S.claims = R.claims /\ S.conflicts = R.conflicts
        /\ S.machine_owners = R.machine_owners /\ S.frozen = TRUE
    BY <2>1, <2>2 DEF RegistryInner
  <2>4. RegistryInner(R)' /\ RegistryInner(S)'
    BY <2>2, <2>3 DEF RegistryInner
  <2>5. ASSUME NEW w \in {"live", "snapshot"}
        PROVE  RegistryInner(reg[w])' /\ reg'[w].frozen = (w = "snapshot")
    <3>1. PICK T : T = reg'[w]
      OBVIOUS
    <3>2. (w = "live" /\ T = R) \/ (w = "snapshot" /\ T = S)
      BY <2>2, <3>1
    <3>3. RegistryInner(T)'
      BY <2>4, <3>2
    <3>4. T.frozen = (w = "snapshot")
      BY <2>2, <2>3, <3>2
    <3> QED BY <3>1, <3>3, <3>4 DEF RegistryInner
  <2>6. DOMAIN reg' = {"live", "snapshot"}
    BY <2>2
  <2>7. now' \in 0 .. MaxTime /\ inserted' \in 0 .. MaxClaims /\ asserted' \subseteq Offers
    BY <2>2 DEF TypeOK
  <2> QED BY <2>5, <2>6, <2>7 DEF TypeOK
<1>5. CASE Tick
  <2>1. now' \in 0 .. MaxTime /\ UNCHANGED <<reg, inserted, asserted>>
    BY <1>5, RegistryAssumption DEF Tick, TypeOK
  <2> QED BY <2>1 DEF TypeOK, RegistryInner
<1>6. CASE UNCHANGED vars
  BY <1>6 DEF vars, TypeOK, RegistryInner
<1>7. ASSUME NEW which, NEW o \in Offers, add_claim(which, o) PROVE TypeOK'
  <2>1. asserted' \subseteq Offers
    BY <1>7 DEF add_claim, TypeOK
  <2> QED BY <1>1, <1>7, <2>1 DEF add_claim
<1>8. ASSUME NEW which, NEW o \in Offers, NEW d \in Offers, delegate(which, o, d.holder) PROVE TypeOK'
  <2>1. asserted' \subseteq Offers
    BY <1>8 DEF delegate, TypeOK
  <2> QED BY <1>1, <1>8, <2>1 DEF delegate
<1> QED BY <1>2, <1>3, <1>4, <1>5, <1>6, <1>7, <1>8 DEF Next, revoke_all, revoke_on_resource,
        revoke_cascading, expire_stale, Mutable

\* For any offers, owners and bounds: the claims of every registry stay typed and
\* keep the numbers given out, and only the snapshot is ever frozen (registry.rs
\* RegistryInner, freeze and the mutators).
THEOREM TypeAlwaysCorrect == Spec => []TypeOK
BY TypeInit, TypeNext, PTL DEF Spec

-------------------------------------------------------------------------------
(* Answers *)

\* What the engine is shown of a request is an action.
LEMMA RequestTyped ==
    ASSUME NEW a \in Requests
    PROVE  /\ action_wire(a).actor \in EntityWire
           /\ action_wire(a).flags \subseteq Sovereignty
           /\ action_wire(a).governs \subseteq EntityWire
           /\ \A u \in Uses(action_wire(a)) : u \in Operations \X ResourceWire
<1>1. a \in Action
  BY RegistryAssumption
<1>2. action_wire(a).actor = a.actor /\ action_wire(a).flags = a.flags /\ action_wire(a).governs = a.governs
  BY Zenon DEF action_wire
<1>3. Entity = EntityWire
  BY DEF Entity, EntityWire, AgentType
<1>4. \A r \in Resource : resource_wire(r) \in ResourceWire
  <2> SUFFICES ASSUME NEW r \in Resource PROVE resource_wire(r) \in ResourceWire
    OBVIOUS
  <2>1. r.rtype \in STRING
    BY RegistryAssumption DEF Resource
  <2>2. /\ r.name \in STRING /\ r.scope \in STRING /\ r.is_public \in BOOLEAN /\ r.ifc_label \in STRING
    BY DEF Resource
  <2> QED BY <2>1, <2>2, Zenon DEF ResourceWire, resource_wire
<1>5. ASSUME NEW u \in Uses(action_wire(a)) PROVE u \in Operations \X ResourceWire
  <2>1. u \in Operations \X UNION {action_wire(a).uses[op] : op \in Operations} /\ u[1] \in Operations
    BY DEF Uses
  <2>2. u[2] \in action_wire(a).uses[u[1]]
    BY DEF Uses
  <2>3. action_wire(a).uses[u[1]] = {resource_wire(r) : r \in a.uses[u[1]]}
    BY <2>1 DEF action_wire
  <2>4. a.uses[u[1]] \subseteq Resource
    BY <1>1, <2>1 DEF Action
  <2>5. u[2] \in ResourceWire
    BY <1>4, <2>2, <2>3, <2>4
  <2> QED BY <2>1, <2>5
<1>6. a.actor \in Entity /\ a.flags \subseteq Sovereignty /\ a.governs \subseteq Entity
  BY <1>1 DEF Action
<1> QED BY <1>2, <1>3, <1>5, <1>6

LEMMA ViolationsTyped ==
    ASSUME NEW a \in Requests, NEW W, NEW t
    PROVE  Violations(W, action_wire(a), t) \in
              SUBSET ({"FORBIDDEN"} \X Sovereignty \cup {"UNOWNED"} \X STRING \cup {"A6"} \X EntityWire
                      \cup {"DENIED", "TRUST_DOMAIN"} \X (Operations \X ResourceWire))
<1>1. PICK b : b = action_wire(a)
  OBVIOUS
<1>2. /\ b.actor \in EntityWire /\ b.flags \subseteq Sovereignty /\ b.governs \subseteq EntityWire
      /\ \A u \in Uses(b) : u \in Operations \X ResourceWire
  BY <1>1, RequestTyped
<1>3. b.actor.name \in STRING
  BY <1>2 DEF EntityWire
<1>4. /\ \A f \in b.flags : <<"FORBIDDEN", f>> \in {"FORBIDDEN"} \X Sovereignty
      /\ <<"UNOWNED", b.actor.name>> \in {"UNOWNED"} \X STRING
      /\ \A h \in b.governs : <<"A6", h>> \in {"A6"} \X EntityWire
      /\ \A u \in Uses(b) :
            /\ <<"DENIED", u>> \in {"DENIED", "TRUST_DOMAIN"} \X (Operations \X ResourceWire)
            /\ <<"TRUST_DOMAIN", u>> \in {"DENIED", "TRUST_DOMAIN"} \X (Operations \X ResourceWire)
  BY <1>2, <1>3
<1> DEFINE V == {"FORBIDDEN"} \X Sovereignty \cup {"UNOWNED"} \X STRING \cup {"A6"} \X EntityWire
                \cup {"DENIED", "TRUST_DOMAIN"} \X (Operations \X ResourceWire)
<1>5. ASSUME NEW v \in Violations(W, b, t) PROVE v \in V
  <2>1. \/ \E f \in b.flags : v = <<"FORBIDDEN", f>>
        \/ v = <<"UNOWNED", b.actor.name>>
        \/ \E h \in b.governs : v = <<"A6", h>>
        \/ \E u \in Uses(b) : v = <<"DENIED", u>>
        \/ \E u \in Uses(b) : v = <<"TRUST_DOMAIN", u>>
    BY <1>5 DEF Violations
  <2> QED BY <1>4, <2>1
<1> QED BY <1>1, <1>5

LEMMA AnswerIsResult ==
    ASSUME IInv, NEW R, ClaimsOK(R), NEW a \in Requests, NEW t,
           NEW result, result = Answer(R, a, t)
    PROVE  /\ result \in VerificationResultWire
           /\ result.confidence <= Full
           /\ result.confidence = 0 <=> \E v \in result.violations : v[1] = "DENIED"
           /\ result.warnings # {} => result.confidence < Warn
           /\ result.requires_human_arbitration => result.warnings # {}
<1>1. PICK W, b, V : W = registry_wire(R) /\ b = action_wire(a) /\ V = Violations(W, b, t)
  OBVIOUS
<1> DEFINE con(u) == can_act(W, b.actor.name, u[2], u[1], t)
           L == {con(u) : u \in Uses(b)}
           arbitrate == \E u \in Contested(W, b, t) : u[1] = "write" /\ Rivals(W, b, u[2], t) # {}
<1>2. result = [permitted |-> V = {}, violations |-> V, warnings |-> Contested(W, b, t),
                confidence |-> LeastOf({Full} \cup L), requires_human_arbitration |-> arbitrate]
  BY <1>1 DEF Answer, verify
<1>3. ASSUME NEW u PROVE con(u) \in Nat
  <2>1. CASE FreeRead(u[2], u[1])
    BY <2>1, EngineAssumption DEF can_act, FreeRead
  <2>2. CASE ~FreeRead(u[2], u[1])
    BY <1>1, <2>2, AnswerOfClaim
  <2> QED BY <2>1, <2>2
<1> HIDE DEF con
<1>4. {Full} \cup L \subseteq Nat /\ {Full} \cup L # {}
  BY <1>3, EngineAssumption
<1>5. PICK least : least = LeastOf({Full} \cup L)
  OBVIOUS
<1>6. /\ least \in Nat /\ least <= Full /\ least \in {Full} \cup L
      /\ \A u \in Uses(b) : least <= con(u)
  BY <1>4, <1>5, LeastAttained
<1>7. least = 0 <=> \E u \in Uses(b) : con(u) = 0
  BY <1>3, <1>6, EngineAssumption
<1>8. (\E u \in Uses(b) : con(u) = 0) <=> \E v \in V : v[1] = "DENIED"
  <2>1. \A u \in Uses(b) : con(u) = 0 => <<"DENIED", u>> \in V
    BY <1>1 DEF Violations, con
  <2>2. ASSUME NEW v \in V, v[1] = "DENIED" PROVE \E u \in Uses(b) : con(u) = 0
    BY <1>1, <2>2 DEF Violations, con
  <2> QED BY <2>1, <2>2
<1>9. /\ Contested(W, b, t) \subseteq Uses(b)
      /\ \A u \in Contested(W, b, t) : con(u) \in 1 .. Warn - 1
  BY DEF Contested, con
<1>10. Contested(W, b, t) # {} => least < Warn
  BY <1>3, <1>6, <1>9, EngineAssumption
<1>11. V \in SUBSET ({"FORBIDDEN"} \X Sovereignty \cup {"UNOWNED"} \X STRING \cup {"A6"} \X EntityWire
                     \cup {"DENIED", "TRUST_DOMAIN"} \X (Operations \X ResourceWire))
  BY <1>1, ViolationsTyped
<1>12. Contested(W, b, t) \in SUBSET (Operations \X ResourceWire)
  BY <1>1, <1>9, RequestTyped
<1> HIDE DEF L, arbitrate
<1>13. arbitrate \in BOOLEAN /\ (V = {}) \in BOOLEAN
  BY DEF arbitrate
<1>14. arbitrate => Contested(W, b, t) # {}
  BY DEF arbitrate
<1>15. result \in VerificationResultWire
  BY <1>2, <1>5, <1>6, <1>11, <1>12, <1>13 DEF VerificationResultWire
<1>16. /\ result.confidence = least /\ result.violations = V /\ result.warnings = Contested(W, b, t)
       /\ result.requires_human_arbitration <=> arbitrate
  BY <1>2, <1>5
<1> QED BY <1>6, <1>7, <1>8, <1>10, <1>14, <1>15, <1>16

\* For any offers, owners and requests: whatever happened to the registry, an
\* answer over it is a result whose confidence is none exactly when a use was
\* denied and low wherever it warns (engine.rs verify, wire.rs).
THEOREM AnswersAlwaysResults == Spec => []AnswersAreResults
<1>1. IInv => AnswersAreResults
  <2> SUFFICES ASSUME IInv, NEW which \in DOMAIN reg, NEW a \in Requests,
                      NEW result, result = Answer(reg[which], a, now)
               PROVE  /\ result \in VerificationResultWire
                      /\ result.confidence <= Full
                      /\ result.confidence = 0 <=> \E v \in result.violations : v[1] = "DENIED"
                      /\ result.warnings # {} => result.confidence < Warn
                      /\ result.requires_human_arbitration => result.warnings # {}
    BY DEF AnswersAreResults
  <2>1. ClaimsOK(reg[which])
    BY DEF IInv
  <2> QED BY <2>1, AnswerIsResult
<1> QED BY <1>1, IInvInit, IInvNext, PTL DEF Spec

-------------------------------------------------------------------------------
(* What the authority graph reports *)

\* Finitely many claims, with a confidence each.
Counted(V) ==
    IsFiniteSet(DOMAIN V.claims) /\ \A i \in DOMAIN V.claims : V.claims[i].confidence \in Nat

LEMMA RegistriesCounted == IInv => \A V \in Registries : Counted(V)
<1> SUFFICES ASSUME IInv, NEW V \in Registries PROVE Counted(V)
  OBVIOUS
<1>1. CASE V = LiveWire
  <2> DEFINE R == reg["live"]
  <2>1. ClaimsOK(R) /\ inserted \in Nat
    BY DEF IInv
  <2>2. /\ DOMAIN V.claims = DOMAIN R.claims
        /\ \A i \in DOMAIN R.claims : V.claims[i] = claim_wire(R.claims[i])
    BY <1>1 DEF LiveWire, registry_wire
  <2> HIDE DEF R
  <2>3. IsFiniteSet(DOMAIN R.claims)
    <3>1. DOMAIN R.claims \in SUBSET (1 .. inserted) /\ IsFiniteSet(1 .. inserted)
      BY <2>1, FS_Interval DEF ClaimsOK
    <3> QED BY <3>1, FS_Subset
  <2> QED BY <2>1, <2>2, <2>3, WireFields DEF Counted, ClaimsOK
<1>2. CASE V # LiveWire
  <2>1. PICK input \in Inputs : input.parses /\ V = input.registry
    BY <1>2, Zenon DEF Registries
  <2>2. V \in OwnershipRegistryWire
    BY <2>1, CallersAssumption
  <2>3. V.claims \in Seq(ClaimWire)
    BY <2>2 DEF OwnershipRegistryWire
  <2>4. /\ Len(V.claims) \in Nat /\ DOMAIN V.claims = 1 .. Len(V.claims)
        /\ \A i \in 1 .. Len(V.claims) : V.claims[i] \in ClaimWire
    BY <2>3, LenProperties, ElementOfSeq
  <2>5. \A c \in ClaimWire : c.confidence \in Nat
    BY DEF ClaimWire
  <2>6. IsFiniteSet(1 .. Len(V.claims))
    BY <2>4, IndicesFinite, Zenon
  <2>7. IsFiniteSet(DOMAIN V.claims)
    BY <2>4, <2>6, Zenon
  <2>8. \A i \in DOMAIN V.claims : V.claims[i].confidence \in Nat
    BY <2>4, <2>5, Zenon
  <2> QED BY <2>7, <2>8, Zenon DEF Counted
<1> QED BY <1>1, <1>2

\* A claim that covers a use is answered for.
LEMMA CoveredIsAnswered ==
    ASSUME NEW V, Counted(V), NEW name, NEW r, NEW op, NEW t, NEW c \in Covering(V, name, r, op, t)
    PROVE  can_act(V, name, r, op, t) # 0
<1> DEFINE C == Covering(V, name, r, op, t)
           I == {i \in DOMAIN V.claims : V.claims[i] \in C}
           f == [i \in I |-> V.claims[i].confidence]
           S == {d.confidence : d \in C}
<1>1. \A d \in C : claim_valid(d, t) /\ \E i \in I : d = V.claims[i]
  BY DEF Covering, Elements
<1>2. IsFiniteSet(I) /\ I # {} /\ f \in [I -> Nat]
  <2>1. I \in SUBSET DOMAIN V.claims
    OBVIOUS
  <2> QED BY <1>1, <2>1, FS_Subset DEF Counted
<1>3. PICK i \in I : \A j \in I : f[j] <= f[i]
  BY <1>2, MostAttained
<1>4. V.claims[i].confidence \in S /\ \A n \in S : n <= V.claims[i].confidence
  <2>1. V.claims[i].confidence \in S
    OBVIOUS
  <2>2. \A j \in I : V.claims[j].confidence <= V.claims[i].confidence
    BY <1>3
  <2>3. ASSUME NEW n \in S PROVE n <= V.claims[i].confidence
    <3>1. PICK d \in C : n = d.confidence
      OBVIOUS
    <3>2. PICK j \in I : d = V.claims[j]
      BY <1>1
    <3> QED BY <2>2, <3>1, <3>2, Zenon
  <2> QED BY <2>1, <2>3
<1>5. MostOf(S) \in S
  <2> HIDE DEF S
  <2> QED BY <1>4 DEF MostOf
<1>6. PICK d \in C : MostOf(S) = d.confidence
  BY <1>5
<1>7. MostOf(S) # 0
  BY <1>1, <1>6 DEF claim_valid
<1>8. can_act(V, name, r, op, t) \in {Full, MostOf(S)}
  <2>1. C # {}
    OBVIOUS
  <2> HIDE DEF C
  <2>2. can_act(V, name, r, op, t) = IF r.is_public /\ op = "read" THEN Full ELSE MostOf(S)
    <3>1. CASE r.is_public /\ op = "read"
      BY <3>1, Zenon DEF can_act, C
    <3>2. CASE ~(r.is_public /\ op = "read")
      BY <2>1, <3>2 DEF can_act, C
    <3> QED BY <3>1, <3>2
  <2> QED BY <2>2
<1> QED BY <1>7, <1>8, EngineAssumption

LEMMA ActingUses ==
    ASSUME NEW c, NEW op
    PROVE  /\ Acting(c, op).actor = c.holder /\ Acting(c, op).flags = {} /\ Acting(c, op).governs = {}
           /\ Acting(c, op).trust_domain = c.trust_domain
           /\ op \in Operations => Uses(Acting(c, op)) = {<<op, c.resource>>}
           /\ Uses(Acting(c, op)) \subseteq {<<op, c.resource>>}
<1> DEFINE a == Acting(c, op)
<1>1. /\ a.actor = c.holder /\ a.flags = {} /\ a.governs = {} /\ a.trust_domain = c.trust_domain
      /\ a.uses = [o \in Operations |-> IF o = op THEN {c.resource} ELSE {}]
  BY DEF Acting
<1> HIDE DEF a
<1>2. \A o \in Operations : a.uses[o] = IF o = op THEN {c.resource} ELSE {}
  BY <1>1
<1>3. \A u : u \in Uses(a) <=> /\ u \in Operations \X UNION {a.uses[o] : o \in Operations}
                               /\ u[2] \in a.uses[u[1]]
  BY Zenon DEF Uses
<1>4. Uses(a) \subseteq {<<op, c.resource>>}
  <2> SUFFICES ASSUME NEW u \in Uses(a) PROVE u = <<op, c.resource>>
    OBVIOUS
  <2>1. u \in Operations \X UNION {a.uses[o] : o \in Operations} /\ u[2] \in a.uses[u[1]]
    BY <1>3
  <2>2. u[1] \in Operations /\ u = <<u[1], u[2]>>
    BY <2>1
  <2>3. u[1] = op /\ u[2] = c.resource
    BY <1>2, <2>1, <2>2
  <2> QED BY <2>2, <2>3
<1>5. ASSUME op \in Operations PROVE <<op, c.resource>> \in Uses(a)
  <2>1. c.resource \in a.uses[op]
    BY <1>2, <1>5
  <2>2. <<op, c.resource>> \in Operations \X UNION {a.uses[o] : o \in Operations}
    BY <1>5, <2>1
  <2> QED BY <1>3, <2>1, <2>2
<1> QED BY <1>1, <1>4, <1>5 DEF a

\* A grant between the domains of the two sides of a claim.
Bridged(V, c) ==
    \/ c.trust_domain = Unlabelled \/ c.resource.trust_domain = Unlabelled
    \/ c.trust_domain = c.resource.trust_domain
    \/ \E g \in V.grants : g.from = c.trust_domain /\ g.to = c.resource.trust_domain

LEMMA ClaimsActAtHome ==
    ASSUME NEW V, Counted(V), NEW c \in Elements(V.claims), Bridged(V, c),
           c.holder.kind = "MACHINE" => HasOwner(V, c.holder.name)
    PROVE  ActsAtHome(V, c)
<1> SUFFICES ASSUME claim_valid(c, now), NEW op \in c.rights
             PROVE  \/ verify(V, Acting(c, op), now).permitted
                    \/ \E g \in V.grants : /\ g.from = c.trust_domain /\ g.to = c.resource.trust_domain
                                         /\ g.ops # {} /\ op \notin g.ops
  BY DEF ActsAtHome
<1> DEFINE a == Acting(c, op)
           u == <<op, c.resource>>
<1>1. /\ a.actor = c.holder /\ a.flags = {} /\ a.governs = {} /\ a.trust_domain = c.trust_domain
      /\ Uses(a) \subseteq {u}
  BY ActingUses
<1>2. can_act(V, c.holder.name, c.resource, op, now) # 0
  <2>1. c \in Covering(V, c.holder.name, c.resource, op, now)
    BY DEF Covering
  <2> QED BY <2>1, CoveredIsAnswered
<1>3. CASE CrossesDomain(V, a, u)
  <2>1. /\ c.trust_domain # Unlabelled /\ c.resource.trust_domain # Unlabelled
        /\ ~trust_domain_allows(V, c.trust_domain, c.resource.trust_domain, op)
    BY <1>1, <1>3 DEF CrossesDomain
  <2> QED BY <2>1 DEF Bridged, trust_domain_allows
<1>4. CASE ~CrossesDomain(V, a, u)
  <2> HIDE DEF a
  <2>1. /\ {x \in {a.actor} : x.kind = "MACHINE" /\ ~HasOwner(V, x.name)} = {}
        /\ {x \in a.governs : a.actor.kind = "MACHINE"} = {}
        /\ {x \in Uses(a) : can_act(V, a.actor.name, x[2], x[1], now) = 0} = {}
        /\ {x \in Uses(a) : CrossesDomain(V, a, x)} = {}
    BY <1>1, <1>2, <1>4
  <2>2. Violations(V, a, now) = {}
    BY <1>1, <2>1, Zenon DEF Violations
  <2>3. verify(V, a, now).permitted
    BY <2>2 DEF verify
  <2> QED BY <2>3 DEF a
<1> QED BY <1>3, <1>4

LEMMA SpawnsAreOwned ==
    ASSUME NEW V, NEW c \in Elements(V.claims), NEW t
    PROVE  /\ verify_spawn(V, [parent |-> c.holder, child |-> "kid", depth |-> with_depth(200)], t)
                 = "Spawned" => c.holder.name \notin ownerless_machines(V)
           /\ c.holder.name \in ownerless_machines(V) /\ c.holder.kind = "MACHINE" <=>
                 <<"UNOWNED", c.holder.name>> \in Violations(V, spawn_to_action(c.holder, "kid"), t)
<1> DEFINE a == spawn_to_action(c.holder, "kid")
<1>1. a.actor = c.holder
  BY DEF spawn_to_action
<1> HIDE DEF a
<1>2. c.holder.name \in ownerless_machines(V) => ~HasOwner(V, c.holder.name)
  BY DEF ownerless_machines
<1>3. c.holder.kind = "MACHINE" /\ ~HasOwner(V, c.holder.name) => c.holder.name \in ownerless_machines(V)
  BY DEF ownerless_machines
<1>4. <<"UNOWNED", c.holder.name>> \in Violations(V, a, t)
        <=> c.holder.kind = "MACHINE" /\ ~HasOwner(V, c.holder.name)
  BY <1>1 DEF Violations
<1>5. verify_spawn(V, [parent |-> c.holder, child |-> "kid", depth |-> with_depth(200)], t) = "Spawned"
        => c.holder.kind = "MACHINE" /\ verify(V, a, t).permitted
  <2> DEFINE req == [parent |-> c.holder, child |-> "kid", depth |-> with_depth(200)]
  <2>1. req.parent = c.holder /\ req.child = "kid"
    OBVIOUS
  <2> HIDE DEF req
  <2>2. CASE c.holder.kind # "MACHINE"
    <3>1. verify_spawn(V, req, t) = "ParentNotMachine"
      BY <2>1, <2>2, Zenon DEF verify_spawn
    <3> QED BY <3>1 DEF req
  <2>3. CASE c.holder.kind = "MACHINE" /\ req.depth > MAX_DELEGATION_DEPTH
    <3>1. verify_spawn(V, req, t) = "DepthExceeded"
      BY <2>1, <2>3 DEF verify_spawn
    <3> QED BY <3>1 DEF req
  <2>4. CASE c.holder.kind = "MACHINE" /\ ~(req.depth > MAX_DELEGATION_DEPTH)
    <3>1. verify_spawn(V, req, t) = IF verify(V, a, t).permitted THEN "Spawned" ELSE "KernelBlocked"
      BY <2>1, <2>4 DEF verify_spawn, a
    <3> QED BY <2>4, <3>1 DEF req
  <2> QED BY <2>2, <2>3, <2>4
<1>6. verify(V, a, t).permitted => Violations(V, a, t) = {}
  BY DEF verify
<1> QED BY <1>2, <1>3, <1>4, <1>5, <1>6 DEF a

LEMMA CrossingIsRefused ==
    ASSUME NEW V, NEW c, NEW op \in {"read", "write"}, NEW t, ~Bridged(V, c)
    PROVE  ~verify(V, Acting(c, op), t).permitted
<1> DEFINE a == Acting(c, op)
           u == <<op, c.resource>>
<1>1. a.trust_domain = c.trust_domain /\ Uses(a) = {u}
  BY ActingUses DEF Operations
<1> HIDE DEF a
<1>2. CrossesDomain(V, a, u)
  BY <1>1 DEF CrossesDomain, Bridged, trust_domain_allows
<1>3. u \in {x \in Uses(a) : CrossesDomain(V, a, x)}
  BY <1>1, <1>2
<1>4. <<"TRUST_DOMAIN", u>> \in Violations(V, a, t)
  BY <1>3, Zenon DEF Violations
<1> QED BY <1>4 DEF verify, a

LEMMA ReportsAgree == IInv => ReportsAgreeWithGate
<1> SUFFICES ASSUME IInv, NEW V \in Registries
             PROVE  /\ ownerless_machines(V) = {} /\ cross_domain_violations(V) = {} =>
                           \A c \in Elements(V.claims) : ActsAtHome(V, c)
                    /\ \A pair \in cross_domain_violations(V) :
                           \E c \in Elements(V.claims) :
                               /\ pair = <<c.holder.name, c.resource.name>>
                               /\ \A op \in {"read", "write"} : ~verify(V, Acting(c, op), now).permitted
  BY SpawnsAreOwned, Zenon DEF ReportsAgreeWithGate
<1> DEFINE Crossing == {c \in Elements(V.claims) : ~Bridged(V, c)}
<1>1. cross_domain_violations(V) = {<<c.holder.name, c.resource.name>> : c \in Crossing}
  <2>1. Crossing = {x \in Elements(V.claims) :
            /\ x.trust_domain # Unlabelled /\ x.resource.trust_domain # Unlabelled
            /\ x.trust_domain # x.resource.trust_domain
            /\ \A g \in V.grants : ~(g.from = x.trust_domain /\ g.to = x.resource.trust_domain)}
    BY DEF Bridged
  <2> HIDE DEF Crossing
  <2> QED BY <2>1, Zenon DEF cross_domain_violations
<1>2. ASSUME ownerless_machines(V) = {}, cross_domain_violations(V) = {}, NEW c \in Elements(V.claims)
      PROVE  ActsAtHome(V, c)
  <2>1. c.holder.kind = "MACHINE" => HasOwner(V, c.holder.name)
    BY <1>2 DEF ownerless_machines
  <2>2. Bridged(V, c)
    <3>1. Crossing = {}
      <4> HIDE DEF Crossing
      <4> QED BY <1>1, <1>2
    <3> QED BY <3>1
  <2> QED BY <2>1, <2>2, ClaimsActAtHome, RegistriesCounted
<1>3. ASSUME NEW pair \in cross_domain_violations(V)
      PROVE  \E c \in Elements(V.claims) :
                 /\ pair = <<c.holder.name, c.resource.name>>
                 /\ \A op \in {"read", "write"} : ~verify(V, Acting(c, op), now).permitted
  <2>1. PICK c \in Crossing : pair = <<c.holder.name, c.resource.name>>
    BY <1>1, <1>3
  <2> QED BY <2>1, CrossingIsRefused
<1> QED BY <1>2, <1>3

\* For any offers, owners, requests, registries and buffers, and whatever happened to
\* the registry: a verifier, the registry itself, the graph report and the C
\* interface say what the gate says.
THEOREM AnswersAlwaysAgreeWithGate == Spec => []AnswersAgreeWithGate
<1>1. AnswersAreResults /\ QueriesAgreeWithGate /\ ReportsAgreeWithGate /\ RepliesWholeIfTheyFit
        => AnswersAgreeWithGate
  BY DEF AnswersAgreeWithGate
<1>2. Spec => []ReportsAgreeWithGate
  BY IInvInit, IInvNext, ReportsAgree, PTL DEF Spec
<1> QED BY <1>1, <1>2, AnswersAlwaysResults, QueriesAlwaysAgreeWithGate, RepliesAlwaysWholeIfTheyFit, PTL

===============================================================================
