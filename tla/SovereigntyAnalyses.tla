-------------------------- MODULE SovereigntyAnalyses --------------------------
(***************************************************************************)
(* The analyses of a registry for concentrated or irrevocable power: who   *)
(* is locked in (analysis/override_detector.py, exit_guarantees.py), who   *)
(* depends on whom (coercion.py, constitutional_economy.py,                *)
(* sovereignty_metrics.py), and which requests leave a machine's own       *)
(* boundary (anti_capture.py).                                             *)
(*                                                                         *)
(* g is a view of a registry as DecisionVerifier has it; a signal is a     *)
(* pair of a pattern and whom it is about.  Fractions are multiplied out.  *)
(***************************************************************************)
EXTENDS PolicyLanguage

CONSTANTS
    MAX_SAFE_CHAIN_DEPTH,
    MAX_EXIT_SAFE_DEPTH,
    OverrideHorizon        \* in units of the clock

NamesOf(C) == {c.holder.name : c \in C}
HeldByMachines(C) == {c \in C : Machine(c.holder)}
HeldByHumans(C) == {c \in C : ~Machine(c.holder)}
ResourceNames(C) == {c.resource.name : c \in C}
HeldUnder(C, name) == {c \in C : c.holder.name = name}
First(C) == CHOOSE c \in C : \A d \in C : c.obj <= d.obj
Newest(C) == CHOOSE c \in C : \A d \in C : c.obj >= d.obj

-------------------------------------------------------------------------------
(* AntiCaptureChecker: a machine's request against its own claims, whether *)
(* they are valid or not.                                                  *)

ClaimsOf(g, e) == {c \in g.claims : c.holder = e}
TypesOf(C) == {TypeOf[c.resource] : c \in C}
Asked(a) == a.uses["read"] \cup a.uses["write"]
Secret == {"CREDENTIAL", "IDENTITY"}

_check_scope_drift(g, a) ==
    /\ ClaimsOf(g, a.actor) # {}
    /\ \E r \in Asked(a) : \A c \in ClaimsOf(g, a.actor) : ~scope_contains(c.resource.scope, r.scope)

_check_credential_access(g, a) ==
    \E r \in Asked(a) : /\ TypeOf[r] \in Secret
                        /\ \A c \in ClaimsOf(g, a.actor) :
                              TypeOf[c.resource] \in Secret => c.resource.name # r.name

_check_owner_mismatch(g, a) ==
    /\ a.actor \in DOMAIN g.owners
    /\ \E h \in a.governs : h.kind = "HUMAN" /\ h.name # g.owners[a.actor].name

_check_resource_type_drift(g, a) ==
    /\ ClaimsOf(g, a.actor) # {}
    /\ \E r \in Asked(a) : TypeOf[r] \notin TypesOf(ClaimsOf(g, a.actor))

capture_check(g, a) ==
    {p \in {"SCOPE_DRIFT", "CREDENTIAL_ACCESS", "OWNER_MISMATCH", "RESOURCE_TYPE_DRIFT"} :
        /\ Machine(a.actor)
        /\ CASE p = "SCOPE_DRIFT" -> _check_scope_drift(g, a)
             [] p = "CREDENTIAL_ACCESS" -> _check_credential_access(g, a)
             [] p = "OWNER_MISMATCH" -> _check_owner_mismatch(g, a)
             [] p = "RESOURCE_TYPE_DRIFT" -> _check_resource_type_drift(g, a)}

-------------------------------------------------------------------------------
(* OverrideDetector *)

\* 0 for a direct grant; the walk follows the first claim in the list that the
\* delegator holds and the walk has not come from.
_chain_depth(C, claim) ==
    LET depth[c \in C, seen \in SUBSET {p.obj : p \in C}] ==
          LET parents == {p \in C : p.holder = c.delegated_by /\ p.obj \notin seen}
          IN  IF ~Delegated(c) THEN 0
              ELSE IF parents = {} THEN 1
              ELSE 1 + depth[First(parents), seen \cup {c.obj}]
    IN  depth[claim, {}]

_check_owner_lockout(g) ==
    LET direct == NamesOf({c \in HeldByHumans(g.claims) : ~Delegated(c)})
    IN  {<<"OWNER_LOCKOUT", g.owners[m].name>> :
            m \in {x \in DOMAIN g.owners : g.owners[x].kind = "HUMAN" /\ g.owners[x].name \notin direct}}

_check_no_direct_human_claims(g) ==
    {<<"NO_DIRECT_HUMAN_CLAIMS", c.resource.scope>> :
        c \in {d \in HeldByMachines(g.claims) :
                 \A h \in HeldByHumans(g.claims) : h.resource.scope # d.resource.scope}}

_check_deep_chains(g) ==
    {<<"DEEP_DELEGATION_CHAIN", c.holder.name>> :
        c \in {d \in g.claims : _chain_depth(g.claims, d) >= MAX_SAFE_CHAIN_DEPTH}}

_check_override_horizon(g, t) ==
    {<<"OVERRIDE_HORIZON_EXCEEDED", c.holder.name>> :
        c \in {d \in HeldByMachines(g.claims) : d.expires_at # Never /\ d.expires_at - t > OverrideHorizon}}

override_detect(g, t) ==
    _check_owner_lockout(g) \cup _check_no_direct_human_claims(g)
    \cup _check_deep_chains(g) \cup _check_override_horizon(g, t)

-------------------------------------------------------------------------------
(* CoercionAnalyzer *)

\* Humans who delegated anything, and humans who own a machine.
AllHumans(g) ==
    HumanDelegators(g.claims) \cup
    {g.owners[m].name : m \in {x \in DOMAIN g.owners : g.owners[x].kind = "HUMAN"}}

\* Machines that some human delegated to; no other machine is looked at.
Depended(g) == {n \in NamesOf(g.claims) : HumansBehind(g.claims, n) # {}}
RootClaims(g, n) == {c \in HeldUnder(HeldByMachines(g.claims), n) : Whole(c)}

Monopoly(g, n) ==
    Cardinality(AllHumans(g)) >= 2
    /\ 2 * Cardinality(HumansBehind(g.claims, n)) > Cardinality(AllHumans(g))

\* Mutant: the claim is compared with any claim of its delegator.
Asymmetric_any_parent(g, c) ==
    LET parents == {p \in g.claims : p.holder = c.delegated_by}
    IN  /\ Delegated(c) /\ parents # {}
        /\ \E p \in parents : 100 * c.confidence > 100 * p.confidence + FullConfidence

Asymmetric(g, c) ==
    LET parents == {p \in g.claims : p.holder = c.delegated_by}
    IN  /\ Delegated(c) /\ parents # {}
        /\ \A p \in parents : 100 * c.confidence > 100 * p.confidence + FullConfidence

Coercive(g, n) ==
    {p \in {"DEPENDENCY_MONOPOLY", "SINGLE_POINT_OF_CONTROL", "REVOCATION_BLOCKER", "CONFIDENCE_ASYMMETRY"} :
        CASE p = "DEPENDENCY_MONOPOLY" -> Monopoly(g, n)
          [] p = "SINGLE_POINT_OF_CONTROL" -> RootClaims(g, n) # {}
          [] p = "REVOCATION_BLOCKER" -> \E c \in RootClaims(g, n) : c.expires_at = Never
          [] p = "CONFIDENCE_ASYMMETRY" ->
                \E c \in HeldUnder(HeldByMachines(g.claims), n) : Asymmetric(g, c)}

_risk_level(g, n) ==
    LET critical == Coercive(g, n) \cap {"DEPENDENCY_MONOPOLY", "REVOCATION_BLOCKER"}
    IN  IF critical # {}
        THEN IF 2 * Cardinality(HumansBehind(g.claims, n)) > Cardinality(AllHumans(g))
             THEN "CRITICAL" ELSE "HIGH"
        ELSE IF "SINGLE_POINT_OF_CONTROL" \in Coercive(g, n) THEN "MEDIUM" ELSE "LOW"

\* Whether all the machines together have more than three quarters.
_check_coalition(g) ==
    /\ Cardinality(Depended(g)) >= 2 /\ Cardinality(AllHumans(g)) >= 2
    /\ 4 * Cardinality(UNION {HumansBehind(g.claims, n) : n \in Depended(g)})
         > 3 * Cardinality(AllHumans(g))

coercion_analyze(g) ==
    {<<n, _risk_level(g, n)>> : n \in {m \in Depended(g) : Coercive(g, m) # {}}}
    \cup {<<"<machine-coalition>", "HIGH">> : x \in {y \in {1} : _check_coalition(g)}}

-------------------------------------------------------------------------------
(* ConstitutionalEconomyAnalyzer *)

MachineNames(g) == NamesOf(HeldByMachines(g.claims))
ResourcesOf(g, n) == ResourceNames(HeldUnder(HeldByMachines(g.claims), n))
ResourcesOfHuman(g, n) == ResourceNames(HeldUnder(HeldByHumans(g.claims), n))
HighValue(C) == {c \in C : TypeOf[c.resource] \in _SENSITIVE_RESOURCE_TYPES}
SumOver(S, f(_)) == FoldSet(LAMBDA x, acc : f(x) + acc, 0, S)

\* The owner a name has, by the name of the machine alone.
OwnerName(g, n) ==
    IF \E m \in DOMAIN g.owners : m.name = n
    THEN g.owners[CHOOSE m \in DOMAIN g.owners : m.name = n].name ELSE ""

Oligarch(g, n) ==
    100 * Cardinality(ResourcesOf(g, n) \ ResourceNames(HeldByHumans(g.claims)))
      > 33 * Cardinality(ResourceNames(g.claims))

\* Herfindahl index of the machines' holdings over 0.35.
Concentrated(g) ==
    LET count(n) == Cardinality(ResourcesOf(g, n))
        squared(n) == count(n) * count(n)
        total == SumOver(MachineNames(g), count)
    IN  /\ Cardinality(MachineNames(g)) >= 2
        /\ 100 * SumOver(MachineNames(g), squared) > 35 * total * total

Eroded(g, n) ==
    /\ OwnerName(g, n) # ""
    /\ LET own == Cardinality(ResourcesOfHuman(g, OwnerName(g, n)))
       IN  Cardinality(ResourcesOf(g, n)) > (IF own > 1 THEN own ELSE 1)

\* High-value resources held for good by machine n and by no human.
LockedIn(g, n) ==
    ResourceNames({c \in HighValue(HeldUnder(HeldByMachines(g.claims), n)) : c.expires_at = Never})
      \ ResourceNames(HighValue(HeldByHumans(g.claims)))

Monopolist(g, n) ==
    LET high == ResourceNames(HighValue(g.claims))
    IN  Cardinality(high) >= 2 /\ high \subseteq ResourcesOf(g, n)

economy_analyze(g) ==
    {p \in {"MACHINE_OLIGARCHY", "RESOURCE_CONCENTRATION", "SOVEREIGNTY_EROSION",
            "IRREVERSIBLE_LOCK_IN", "HIGH_VALUE_MONOPOLY"} \X (MachineNames(g) \cup {""}) :
        CASE p[1] = "RESOURCE_CONCENTRATION" -> p[2] = "" /\ Concentrated(g)
          [] p[1] # "RESOURCE_CONCENTRATION" /\ p[2] = "" -> FALSE
          [] p[1] = "MACHINE_OLIGARCHY" /\ p[2] # "" -> Oligarch(g, p[2])
          [] p[1] = "SOVEREIGNTY_EROSION" /\ p[2] # "" -> Eroded(g, p[2])
          [] p[1] = "IRREVERSIBLE_LOCK_IN" /\ p[2] # "" -> LockedIn(g, p[2]) # {}
          [] p[1] = "HIGH_VALUE_MONOPOLY" /\ p[2] # "" -> Monopolist(g, p[2])}

-------------------------------------------------------------------------------
(* SovereignExitChecker *)

IDENTITY_RESOURCE_TYPES == {"IDENTITY", "BEHAVIORAL_PROFILE", "DIGITAL_TWIN"}
OwnerNames(g) == {g.owners[m].name : m \in DOMAIN g.owners}

\* Along names, each with the delegator of its newest delegated claim; a name
\* that comes again ends the walk.
ExitDepth(C, machine) ==
    LET depth[name \in Names, seen \in SUBSET Names] ==
          LET delegated == {c \in HeldUnder(C, name) : Delegated(c)}
          IN  IF name \in seen \/ delegated = {} THEN 0
              ELSE 1 + depth[Newest(delegated).delegated_by.name, seen \cup {name}]
    IN  depth[machine, {}]

\* The claims of a machine are found by its name, the kind of holder aside.
IdentityHeld(g, h) ==
    {c \in g.claims : /\ c.holder.name \in {m.name : m \in {x \in DOMAIN g.owners : g.owners[x].name = h}}
                      /\ TypeOf[c.resource] \in IDENTITY_RESOURCE_TYPES
                      /\ c.resource.name \notin ResourcesOfHuman(g, h)}

exit_check(g) ==
    LET humans == OwnerNames(g) \cup NamesOf(HeldByHumans(g.claims))
    IN  {<<"EXIT_BLOCKED", h>> : h \in {x \in humans : ResourcesOfHuman(g, x) = {}}}
        \cup {<<"IDENTITY_LOCKED", h>> : h \in {x \in humans : IdentityHeld(g, x) # {}}}
        \cup {<<"REVOCATION_UNREACHABLE", g.owners[m].name>> :
                m \in {x \in DOMAIN g.owners : ExitDepth(g.claims, x.name) > MAX_EXIT_SAFE_DEPTH}}

-------------------------------------------------------------------------------
(* SovereigntyAnalyzer *)

\* From one delegator to the next, along each holder's first delegated claim.
\* The walk ends at an object it has met; an entity is one object throughout.
WalkDepth(C, from) ==
    LET depth[current \in Entities, seen \in SUBSET Entities] ==
          LET further == {c \in C : c.holder = current /\ Delegated(c)}
          IN  IF current \in seen THEN 0
              ELSE IF further = {} THEN 1
              ELSE 1 + depth[First(further).delegated_by, seen \cup {current}]
    IN  depth[from, {}]

_delegation_depth(C, c) == IF Delegated(c) THEN WalkDepth(C, c.delegated_by) ELSE 0

DeepestDelegation(C) == LET D == {_delegation_depth(C, c) : c \in C} \cup {0}
               IN  CHOOSE d \in D : \A e \in D : e <= d

\* Normalised Herfindahl index of machines per owner, more than x tenths.
Centralized(g, x) ==
    LET owners_ == {g.owners[m] : m \in DOMAIN g.owners}
        count(o) == Cardinality({m \in DOMAIN g.owners : g.owners[m] = o})
        squared(o) == count(o) * count(o)
        M == Cardinality(DOMAIN g.owners)
        n == Cardinality(owners_)
    IN  n = 1 \/ (n > 1 /\ 10 * (n * SumOver(owners_, squared) - M * M) > x * M * M * (n - 1))

Points(two, one) == IF two THEN 2 ELSE IF one THEN 1 ELSE 0

\* Points of the snapshot that analyze returns: every machine on record has an
\* owner, so that the first dimension gives none.
RiskScore(g) ==
    LET total == Cardinality(g.claims)
        delegated == Cardinality({c \in g.claims : Delegated(c)})
        bounded == Cardinality({c \in g.claims : c.expires_at # Never})
    IN  Points(Centralized(g, 8), Centralized(g, 5))
        + Points(10 * delegated > 7 * total, 10 * delegated > 4 * total)
        + Points(total > 0 /\ 10 * bounded < 2 * total, total > 0 /\ 10 * bounded < 5 * total)
        + (IF DeepestDelegation(g.claims) > 4 THEN 1 ELSE 0)

sovereignty_risk_level(g) ==
    IF RiskScore(g) >= 9 THEN "CRITICAL" ELSE IF RiskScore(g) >= 6 THEN "HIGH"
    ELSE IF RiskScore(g) >= 4 THEN "MEDIUM" ELSE "LOW"

===============================================================================
