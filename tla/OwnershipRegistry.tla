--------------------------- MODULE OwnershipRegistry ---------------------------
(***************************************************************************)
(* The Python ownership registry (kernel/registry.py, kernel/entities.py): *)
(* rights claims, their index, enrolled identities, machine owners, write  *)
(* conflicts, and one frozen snapshot such as a FreedomVerifier takes.     *)
(*                                                                         *)
(* Every mutator runs under the registry's lock, so each is one action.    *)
(* Claims are Python objects: obj is the object's identity, numbered in    *)
(* order of insertion, and heap holds the one field that is assigned in    *)
(* place after insertion, the epoch.  freeze copies the objects.           *)
(***************************************************************************)
EXTENDS Integers, FiniteSets, Sequences

CONSTANTS
    Entities,      \* [name, kind, identity_token]
    Resources,     \* [name, scope, is_public]
    Offers,        \* claims callers build: [holder, resource, rights, confidence,
                   \*   expires_at]
    Registrations, \* pairs <<machine, owner>> given to register_machine
    NoOne,         \* None, as a delegator, an owner or a token
    Never,         \* None, as an expiry
    NoSnapshot,
    FullConfidence, \* 1.0; confidences are fractions of it
    MaxClaims,     \* bound: claims inserted
    MaxTime,       \* bound: the clock
    MaxEpoch,      \* bound: advance_epoch's argument
    MaxFrozen,     \* bound: claims inserted where epochs advance or a snapshot is taken
    HookRaises     \* whether a conflict hook is installed that may raise

Operations == {"read", "write", "delegate"}

ASSUME BoundsAssumption ==
    /\ FullConfidence \in Nat
    /\ MaxClaims \in Nat /\ MaxTime \in Nat /\ MaxEpoch \in Nat /\ MaxFrozen \in 0 .. MaxClaims
    /\ HookRaises \in BOOLEAN
ASSUME OffersAssumption ==
    \A o \in Offers : /\ o.holder \in Entities /\ o.resource \in Resources
                      /\ o.rights \subseteq Operations
                      /\ o.confidence \in 0 .. FullConfidence
                      /\ o.expires_at \in Nat \cup {Never}
ASSUME NeverAssumption == Never \notin Nat

\* An identity is a name, a kind and perhaps a token; what else an Entity
\* carries takes no part in its equality.
Entity == [name : STRING, kind : {"HUMAN", "MACHINE"}, identity_token : {NoOne} \cup STRING]
\* A scope is given by its segments; the resource type matters to the layers
\* around the gate only.
Resource == [name : STRING, scope : Seq(STRING), is_public : BOOLEAN]
ASSUME IdentitiesAssumption == Entities \subseteq Entity /\ Resources \subseteq Resource

VARIABLES
    claims,      \* _claims
    index,       \* the claims listed in _index, under their _claim_key
    heap,        \* epoch of each claim object
    inserted,    \* number of claim objects inserted so far
    tokens,      \* _identity_tokens, NoOne-valued tokens included
    owners,      \* _machine_owners
    conflicts,   \* _conflicts
    snap,        \* the frozen registry, or NoSnapshot
    now,         \* time.time()
    asserted     \* history: every offer add_claim has accepted

vars == <<claims, index, heap, inserted, tokens, owners, conflicts, snap, now, asserted>>
live == <<claims, index, inserted, tokens, owners, conflicts, asserted>>

-------------------------------------------------------------------------------
(* Entities, resources, claims *)

_identity_key(e) == <<e.name, e.kind>>
_claim_key(e, r) == <<e.name, e.kind, r.name>>
KeyOf(c) == _claim_key(c.holder, c.resource)

\* Prefix containment of paths, a path being the sequence of its segments.
\* A path with a ".." segment is contained in nothing and contains nothing.
scope_contains(parent, child) ==
    /\ \A i \in DOMAIN parent : parent[i] # ".."
    /\ \A i \in DOMAIN child : child[i] # ".."
    /\ Len(parent) <= Len(child)
    /\ \A i \in DOMAIN parent : parent[i] = child[i]

is_expired(c, t) == c.expires_at # Never /\ t > c.expires_at
is_valid(c, t) == ~is_expired(c, t) /\ c.confidence > 0

\* Dataclass equality: delegated_by takes no part in it.
SameClaim(c, d) ==
    /\ c.holder = d.holder /\ c.resource = d.resource /\ c.rights = d.rights
    /\ c.confidence = d.confidence /\ c.expires_at = d.expires_at
    /\ heap[c.obj] = heap[d.obj]

\* max(..., key=confidence): the first of the most confident.
Best(S) ==
    CHOOSE c \in S : \A d \in S :
        c.confidence > d.confidence \/ (c.confidence = d.confidence /\ c.obj <= d.obj)

\* Mutant: the write right is not compared.
Attenuates_write_unchecked(c, parent) ==
    /\ "read" \in c.rights => "read" \in parent.rights
    /\ "delegate" \in c.rights => "delegate" \in parent.rights
    /\ c.confidence <= parent.confidence

\* A claim stays within the claim it is delegated from.
Attenuates(c, parent) ==
    /\ \A op \in Operations : op \in c.rights => op \in parent.rights
    /\ c.confidence <= parent.confidence

-------------------------------------------------------------------------------
(* Queries, on the live registry or on a snapshot *)

\* Token on record for an identity; an unknown identity is not in the domain.
_identity_matches(tk, e) ==
    _identity_key(e) \in DOMAIN tk => tk[_identity_key(e)] = e.identity_token

claims_for(ix, tk, e, r, t) ==
    IF _identity_matches(tk, e)
    THEN {c \in ix : KeyOf(c) = _claim_key(e, r) /\ is_valid(c, t)}
    ELSE {}

\* Mutant: the delegator's claims are not looked at again.
_delegation_chain_valid_once(cl, c, t) == TRUE

\* One level up: the delegator holds, now, a delegatable claim that contains
\* this one.
_delegation_chain_valid(cl, c, t) ==
    \/ c.delegated_by = NoOne
    \/ /\ c.delegated_by # c.holder
       /\ LET parents == {p \in cl : /\ p.holder = c.delegated_by
                                     /\ "delegate" \in p.rights
                                     /\ is_valid(p, t)
                                     /\ scope_contains(p.resource.scope, c.resource.scope)}
          IN  parents # {} /\ Attenuates(c, Best(parents))

UsableClaims(cl, ix, tk, e, r, op, t) ==
    {c \in claims_for(ix, tk, e, r, t) : op \in c.rights /\ _delegation_chain_valid(cl, c, t)}

\* The verdict of can_act.  The epoch is compared for the best claim only.
can_act(cl, ix, tk, hp, e, r, op, min_epoch, t) ==
    \/ r.is_public /\ op = "read"
    \/ LET usable == UsableClaims(cl, ix, tk, e, r, op, t)
       IN  usable # {} /\ hp[Best(usable).obj] >= min_epoch

owner_of(tk, ow, m) ==
    IF _identity_matches(tk, m) /\ m \in DOMAIN ow THEN ow[m] ELSE NoOne

\* Mutant: an existing claim of lower confidence is not a conflict.
_detect_conflict_weaker(c) ==
    {d \in claims : /\ d.resource = c.resource /\ d.holder # c.holder
                    /\ "write" \in c.rights /\ "write" \in d.rights
                    /\ is_valid(d, now) /\ d.confidence >= c.confidence}

\* Valid write claims of other holders on the resource of c.
_detect_conflict(c) ==
    {d \in claims : /\ d.resource = c.resource /\ d.holder # c.holder
                    /\ "write" \in c.rights /\ "write" \in d.rights
                    /\ is_valid(d, now)}

-------------------------------------------------------------------------------
(* Mutators *)

\* The identity table once e has been seen.
Enrolled(tk, e) ==
    [k \in DOMAIN tk \cup {_identity_key(e)} |->
        IF k \in DOMAIN tk THEN tk[k] ELSE e.identity_token]

\* The claim object built from offer o, stamped with its delegator.
Claim(o, by) ==
    [obj |-> inserted + 1, holder |-> o.holder, resource |-> o.resource,
     rights |-> o.rights, confidence |-> o.confidence,
     expires_at |-> o.expires_at, delegated_by |-> by]

\* The common end of add_claim and delegate: the conflict is recorded first,
\* and a hook that raises leaves it recorded without the claim.
Insert(c) ==
    LET rivals == _detect_conflict(c)
        first == CHOOSE d \in rivals : \A x \in rivals : d.obj <= x.obj
    IN  /\ conflicts' = IF rivals = {} THEN conflicts
                        ELSE conflicts \cup {<<c.resource, first.holder, c.holder>>}
        /\ \/ rivals # {} /\ HookRaises /\ UNCHANGED <<claims, index, heap, inserted>>
           \/ /\ claims' = claims \cup {c}
              /\ index' = index \cup {c}
              /\ heap' = [heap EXCEPT ![c.obj] = 1]
              /\ inserted' = inserted + 1

\* Bound: what is inserted beside a snapshot or claims of a later epoch.
Beside == snap # NoSnapshot \/ (\E n \in 1 .. inserted : heap[n] > 1) => inserted < MaxFrozen

add_claim(o) ==
    /\ inserted < MaxClaims /\ Beside
    /\ _identity_matches(tokens, o.holder)
    /\ tokens' = Enrolled(tokens, o.holder)
    /\ Insert(Claim(o, NoOne))
    /\ asserted' = IF claims' = claims THEN asserted ELSE asserted \cup {o}
    /\ UNCHANGED <<owners, snap, now>>

\* The delegator's claims that delegate chooses from, found in the index.
Delegatable(e, r) ==
    {c \in index : KeyOf(c) = _claim_key(e, r) /\ "delegate" \in c.rights /\ is_valid(c, now)}

\* The holder of the new claim is not enrolled, the delegator's token is not
\* compared, and nothing is said of cycles or of expiry.
delegate(o, by) ==
    LET candidates == Delegatable(by, o.resource)
    IN  /\ inserted < MaxClaims /\ Beside
        /\ candidates # {}
        /\ Attenuates(o, Best(candidates))
        /\ Insert(Claim(o, by))
        /\ UNCHANGED <<tokens, owners, snap, now, asserted>>

\* Mutant: the owner's token is not compared with the enrolled one.
register_machine_any_owner(m, o) ==
    /\ m.kind = "MACHINE" /\ o.kind = "HUMAN"
    /\ _identity_matches(tokens, m)
    /\ tokens' = Enrolled(Enrolled(tokens, m), o)
    /\ owners' = [x \in DOMAIN owners \cup {m} |-> IF x = m THEN o ELSE owners[x]]
    /\ UNCHANGED <<claims, index, heap, inserted, conflicts, snap, now, asserted>>

\* A machine that matches is enrolled even when its owner then does not.
register_machine(m, o) ==
    /\ m.kind = "MACHINE" /\ o.kind = "HUMAN"
    /\ _identity_matches(tokens, m)
    /\ IF _identity_matches(Enrolled(tokens, m), o)
       THEN /\ tokens' = Enrolled(Enrolled(tokens, m), o)
            /\ owners' = [x \in DOMAIN owners \cup {m} |-> IF x = m THEN o ELSE owners[x]]
       ELSE tokens' = Enrolled(tokens, m) /\ UNCHANGED owners
    /\ UNCHANGED <<claims, index, heap, inserted, conflicts, snap, now, asserted>>

\* Claims are moved up to the new epoch in place, of one holder or of all.
advance_epoch(e, names) ==
    /\ inserted <= MaxFrozen
    /\ heap' = [n \in DOMAIN heap |->
                  IF /\ \E c \in claims : c.obj = n /\ c.holder.name \in names
                     /\ heap[n] < e
                  THEN e ELSE heap[n]]
    /\ UNCHANGED <<live, snap, now>>

\* Mutant: every claim of the holder leaves the index.
_index_remove_identity_lost(ix, R) ==
    {c \in ix : \A d \in R : c.holder.name # d.holder.name}

\* list.remove, once for each claim of R: it takes out the first claim that is
\* equal, which need not be the same object.
_index_remove(ix, R) ==
    {c \in ix : Cardinality({d \in ix : SameClaim(c, d) /\ d.obj < c.obj})
                  >= Cardinality({d \in R : SameClaim(c, d)})}

Drop(R) ==
    /\ claims' = claims \ R
    /\ index' = _index_remove(index, R)

revoke_all(name) ==
    /\ UNCHANGED <<heap, inserted, tokens, owners, conflicts, snap, now, asserted>>
    /\ Drop({c \in claims : c.holder.name = name})

revoke_on_resource(name, rname) ==
    /\ UNCHANGED <<heap, inserted, tokens, owners, conflicts, snap, now, asserted>>
    /\ Drop({c \in claims : c.holder.name = name /\ c.resource.name = rname})

\* Names that hold a claim delegated by one of N.
DelegatesOf(N) ==
    {c.holder.name : c \in {d \in claims : d.delegated_by # NoOne /\ d.delegated_by.name \in N}}

\* Mutant: the search stops at the holder's direct delegates.
Downstream_one_level(name) == {name} \cup DelegatesOf({name})

\* The names the breadth-first search of revoke_cascading visits: the least set
\* that holds the name and, with a name, the holders it has delegated to.
Downstream(name) ==
    LET holders == {name} \cup {c.holder.name : c \in claims}
        Closed(S) == name \in S /\ DelegatesOf(S) \subseteq S
    IN  {n \in holders : \A S \in SUBSET holders : Closed(S) => n \in S}

revoke_cascading(name) ==
    /\ UNCHANGED <<heap, inserted, tokens, owners, conflicts, snap, now, asserted>>
    /\ Drop({c \in claims : c.holder.name \in Downstream(name)})

\* Claims expire_stale removes: at the very instant of their expiry, when
\* is_expired does not yet hold, too.
Stale(S) == {c \in S : c.expires_at # Never /\ c.expires_at <= now}

expire_stale ==
    /\ Drop(Stale(claims))
    /\ UNCHANGED <<heap, inserted, tokens, owners, conflicts, snap, now, asserted>>

-------------------------------------------------------------------------------
(* Snapshots and time *)

\* A new object; the copies keep the order of the originals.
CopyOf(c) == [c EXCEPT !.obj = MaxClaims + c.obj]

\* Mutant: the snapshot lists the registry's own claim objects.
freeze_shares_objects ==
    /\ snap = NoSnapshot /\ inserted <= MaxFrozen
    /\ snap' = [claims |-> claims, index |-> claims, tokens |-> tokens, owners |-> owners]
    /\ UNCHANGED <<live, heap, now>>

\* copy.copy of every claim; the index is rebuilt from the copies.
freeze ==
    /\ snap = NoSnapshot /\ inserted <= MaxFrozen
    /\ LET copies == {CopyOf(c) : c \in claims}
       IN  snap' = [claims |-> copies, index |-> copies, tokens |-> tokens,
                    owners |-> owners]
    /\ heap' = [n \in DOMAIN heap |-> IF n > MaxClaims THEN heap[n - MaxClaims] ELSE heap[n]]
    /\ UNCHANGED <<live, now>>

\* expire_stale does not ask whether the registry is frozen.
expire_stale_on_snapshot ==
    /\ snap # NoSnapshot
    /\ snap' = [snap EXCEPT !.claims = @ \ Stale(@), !.index = @ \ Stale(@)]
    /\ UNCHANGED <<live, heap, now>>

Tick ==
    /\ now < MaxTime
    /\ now' = now + 1
    /\ UNCHANGED <<live, heap, snap>>

-------------------------------------------------------------------------------
Init ==
    /\ claims = {} /\ index = {} /\ conflicts = {} /\ asserted = {}
    /\ heap = [n \in 1 .. 2 * MaxClaims |-> 1]
    /\ tokens = << >> /\ owners = << >> /\ inserted = 0
    /\ snap = NoSnapshot
    /\ now = 0

Names == {e.name : e \in Entities}

Mutate ==
    \/ \E o \in Offers : add_claim(o)
    \/ \E o \in Offers, e \in Entities : delegate(o, e)
    \/ \E p \in Registrations : register_machine(p[1], p[2])
    \/ \E k \in 2 .. MaxEpoch, N \in {{n} : n \in Names} \cup {Names} : advance_epoch(k, N)
    \/ \E n \in Names : revoke_all(n)
    \/ \E n \in Names, r \in Resources : revoke_on_resource(n, r.name)
    \/ \E n \in Names : revoke_cascading(n)
    \/ expire_stale

Next == Mutate \/ freeze \/ expire_stale_on_snapshot \/ Tick

Spec == Init /\ [][Next]_vars

-------------------------------------------------------------------------------
(* Properties *)

Permits(e, r, op) == can_act(claims, index, tokens, heap, e, r, op, 0, now)

\* The type of the registry's state.
TypeOK ==
    /\ \A c \in claims : /\ c.obj \in 1 .. inserted
                         /\ c.holder \in Entities /\ c.resource \in Resources
                         /\ c.rights \subseteq Operations
                         /\ c.confidence \in 0 .. FullConfidence
                         /\ c.delegated_by \in Entities \cup {NoOne}
    /\ index \subseteq claims
    /\ \A n \in DOMAIN heap : heap[n] \in Nat
    /\ inserted \in 0 .. MaxClaims
    /\ now \in Nat

\* The index and the list never disagree, although _index_remove takes out an
\* equal claim and not the very object: what can_act sees of a holder is what
\* it sees of a delegator.
IndexConsistent == index = claims

\* C1, C2 of DELEGATION_CHAIN.md and P2 of THREAT_MODEL.md: no sequence of
\* delegations, revocations and expiries yields a claim whose rights or
\* confidence exceed one claim that was asserted directly on that resource.
AuthorityConserved ==
    \A c \in claims :
        \E a \in asserted : /\ a.resource.name = c.resource.name
                            /\ c.rights \subseteq a.rights
                            /\ c.confidence <= a.confidence

\* Two holders with valid write claims on one resource are on record as a
\* conflict in which the later one is the claimant.
ConflictsRecorded ==
    \A c, d \in claims :
        /\ c.resource = d.resource /\ c.holder # d.holder /\ c.obj < d.obj
        /\ "write" \in c.rights /\ "write" \in d.rights /\ is_valid(c, now)
        => \E x \in conflicts : x[1] = d.resource /\ x[3] = d.holder

\* C-1: the token an identity was enrolled with is never replaced, so an
\* owner on record, and the machine it owns, bear the enrolled tokens.
OwnersAreEnrolled ==
    \A m \in DOMAIN owners :
        /\ _identity_key(m) \in DOMAIN tokens /\ tokens[_identity_key(m)] = m.identity_token
        /\ LET k == _identity_key(owners[m])
           IN  k \in DOMAIN tokens /\ tokens[k] = owners[m].identity_token

\* revoke_all: the holder cannot act on a private resource any more, and no
\* claim it delegated directly can be exercised, until somebody grants it a
\* claim again; revoke_on_resource: it cannot act on the one it has lost.
RevocationImmediate ==
    [][\A n \in Names :
          /\ revoke_all(n) =>
                \A r \in Resources, e \in Entities, op \in Operations :
                    /\ e.name = n /\ Permits(e, r, op)' => r.is_public
                    /\ \A c \in UsableClaims(claims, index, tokens, e, r, op, now)' :
                          c.delegated_by # NoOne => c.delegated_by.name # n
          /\ \A r \in Resources :
                revoke_on_resource(n, r.name) =>
                    \A e \in Entities, op \in Operations :
                        e.name = n /\ Permits(e, r, op)' => r.is_public]_vars

\* revoke_cascading: nothing that is left was delegated by a name whose claims
\* it has taken away.
CascadeLeavesNoDelegate ==
    [][\A n \in Names :
          revoke_cascading(n) =>
              \A c \in claims' :
                  c.delegated_by # NoOne =>
                      /\ c.delegated_by.name # n
                      /\ \A d \in claims \ claims' : d.holder.name # c.delegated_by.name]_vars

\* What the registry decides of <<holder, resource, operation, min_epoch>>, and what
\* a verifier with a snapshot does.
Questions == Entities \X Resources \X Operations \X (1 .. MaxEpoch)
Decides(q) == can_act(claims, index, tokens, heap, q[1], q[2], q[3], q[4], now)
SnapshotDecides(q) ==
    can_act(snap.claims, snap.index, snap.tokens, heap, q[1], q[2], q[3], q[4], now)

\* freeze eliminates TOCTOU: a snapshot starts out with the verdicts of the live
\* registry, down to the epoch of the first of tied claims, and they change with
\* time only.  What they read beside the snapshot and the time is the epochs of
\* claim objects, which the live registry assigns in place.
SnapshotIsolated ==
    [][/\ snap = NoSnapshot /\ snap' # NoSnapshot =>
             \A q \in Questions : SnapshotDecides(q)' = Decides(q)
       /\ snap # NoSnapshot /\ heap' # heap /\ UNCHANGED <<snap, now>> =>
             \A q \in Questions : SnapshotDecides(q)' = SnapshotDecides(q)]_vars

===============================================================================
