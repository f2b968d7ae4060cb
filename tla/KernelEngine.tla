----------------------------- MODULE KernelEngine -----------------------------
(***************************************************************************)
(* The Rust permission engine (authgate-kernel/src/engine.rs), as operators *)
(* over a registry in wire form (wire.rs): what the Python binding, the C  *)
(* ABI and the planners all decide with.                                   *)
(*                                                                         *)
(* A wire registry is [claims, machine_owners, grants]: a sequence of      *)
(* claims, a set of <<machine, owner>> pairs and the cross-domain grants   *)
(* of all its trust domains.  An action is [actor, uses, governs, flags,   *)
(* trust_domain] where uses maps each operation to a set of resources.     *)
(***************************************************************************)
EXTENDS Integers, FiniteSets, Sequences

CONSTANTS
    Never,     \* None, as an expiry
    Unlabelled, \* None, as a trust domain
    Full,      \* 1.0; confidences are fractions of it, and may exceed it
    Warn       \* CONFIDENCE_WARN_THRESHOLD

ASSUME EngineAssumption == Full \in Nat \ {0} /\ Warn \in 0 .. Full /\ Never \notin Nat

Operations == {"read", "write", "delegate"}

-------------------------------------------------------------------------------
(* The types of what is sent and answered *)

EntityWire == [name : STRING, kind : {"HUMAN", "MACHINE"}]

ResourceWire ==
    [name : STRING, rtype : STRING, scope : STRING, is_public : BOOLEAN, ifc_label : STRING,
     trust_domain : {Unlabelled} \cup STRING]

\* The three flags of a claim as the set of those that are up; the depth is
\* left out, since the engine does not look at it.
ClaimWire ==
    [holder : EntityWire, resource : ResourceWire, rights : SUBSET Operations, confidence : Nat,
     expires_at : {Never} \cup Nat, trust_domain : {Unlabelled} \cup STRING]

CrossDomainGrant == [from : STRING, to : STRING, ops : SUBSET STRING]

OwnershipRegistryWire ==
    [claims : Seq(ClaimWire), machine_owners : SUBSET (EntityWire \X EntityWire),
     grants : SUBSET CrossDomainGrant]

Sovereignty ==
    {"increases_machine_sovereignty", "resists_human_correction", "bypasses_verifier",
     "weakens_verifier", "disables_corrigibility", "machine_coalition_dominion", "coerces", "deceives",
     "self_modification_weakens_verifier", "machine_coalition_reduces_freedom"}

ActionWire ==
    [actor : EntityWire, uses : [Operations -> SUBSET ResourceWire], governs : SUBSET EntityWire,
     flags : SUBSET Sovereignty, trust_domain : {Unlabelled} \cup STRING]

\* Signatures are left out.
VerificationResultWire ==
    [permitted : BOOLEAN,
     violations : SUBSET ({"FORBIDDEN"} \X Sovereignty \cup {"UNOWNED"} \X STRING
                          \cup {"A6"} \X EntityWire
                          \cup {"DENIED", "TRUST_DOMAIN"} \X (Operations \X ResourceWire)),
     warnings : SUBSET (Operations \X ResourceWire),
     confidence : Nat, requires_human_arbitration : BOOLEAN]

-------------------------------------------------------------------------------
(* The engine *)

Elements(s) == {s[i] : i \in DOMAIN s}
LeastOf(S) == CHOOSE n \in S : \A m \in S : n <= m
MostOf(S) == CHOOSE n \in S : \A m \in S : m <= n

claim_valid(c, t) == c.confidence > 0 /\ (c.expires_at = Never \/ t <= c.expires_at)

\* The holder counts by name, whatever its kind; the resource by name and type,
\* whatever its scope.
Covering(W, name, r, op, t) ==
    {c \in Elements(W.claims) : /\ c.holder.name = name
                                /\ c.resource.name = r.name
                                /\ c.resource.rtype = r.rtype
                                /\ claim_valid(c, t)
                                /\ op \in c.rights}

\* The confidence of the answer, which is 0 exactly when the answer is no.
can_act(W, name, r, op, t) ==
    LET C == Covering(W, name, r, op, t)
    IN  CASE r.is_public /\ op = "read" -> Full
          [] ~(r.is_public /\ op = "read") /\ C = {} -> 0
          [] OTHER -> MostOf({c.confidence : c \in C})

\* A grant without operations allows all of them.
trust_domain_allows(W, from, to, op) ==
    \/ from = to
    \/ \E g \in W.grants : g.from = from /\ g.to = to /\ (g.ops = {} \/ op \in g.ops)

Uses(a) == {u \in Operations \X UNION {a.uses[op] : op \in Operations} : u[2] \in a.uses[u[1]]}
HasOwner(W, name) == \E mo \in W.machine_owners : mo[1].name = name

\* Domains are compared for reads and writes, and only where both are labelled.
CrossesDomain(W, a, u) ==
    /\ u[1] # "delegate" /\ a.trust_domain # Unlabelled /\ u[2].trust_domain # Unlabelled
    /\ ~trust_domain_allows(W, a.trust_domain, u[2].trust_domain, u[1])

Violations(W, a, t) ==
    {<<"FORBIDDEN", f>> : f \in a.flags}
    \cup {<<"UNOWNED", e.name>> : e \in {x \in {a.actor} : x.kind = "MACHINE" /\ ~HasOwner(W, x.name)}}
    \cup {<<"A6", h>> : h \in {x \in a.governs : a.actor.kind = "MACHINE"}}
    \cup {<<"DENIED", u>> : u \in {x \in Uses(a) : can_act(W, a.actor.name, x[2], x[1], t) = 0}}
    \cup {<<"TRUST_DOMAIN", u>> : u \in {x \in Uses(a) : CrossesDomain(W, a, x)}}

\* Uses that are allowed on little confidence.
Contested(W, a, t) ==
    {u \in Uses(a) : u[1] # "delegate" /\ can_act(W, a.actor.name, u[2], u[1], t) \in 1 .. Warn - 1}

\* Others with a write claim in force on the same resource.
Rivals(W, a, r, t) ==
    {c \in Elements(W.claims) : /\ c.resource.name = r.name /\ c.resource.rtype = r.rtype
                                /\ c.holder.name # a.actor.name
                                /\ "write" \in c.rights
                                /\ claim_valid(c, t)}

verify(W, a, t) ==
    LET V == Violations(W, a, t)
        contested == Contested(W, a, t)
    IN  [permitted |-> V = {},
         violations |-> V,
         warnings |-> contested,
         confidence |-> LeastOf({Full} \cup {can_act(W, a.actor.name, u[2], u[1], t) : u \in Uses(a)}),
         requires_human_arbitration |->
             \E u \in contested : u[1] = "write" /\ Rivals(W, a, u[2], t) # {}]

===============================================================================
