--------------------------- MODULE DecisionVerifier ---------------------------
(***************************************************************************)
(* The Python permission gate (kernel/verifier.py) and the hardened one    *)
(* (kernel/hardened.py), as operators over a view of a registry: the live  *)
(* one or a frozen copy.                                                   *)
(*                                                                         *)
(* An action is [actor, uses, governs, flags, min_epoch] where uses maps   *)
(* each operation to the resources it is requested on.                     *)
(***************************************************************************)
EXTENDS OwnershipRegistry

CONSTANTS WarnBelow   \* CONFIDENCE_WARN_THRESHOLD, as a fraction of FullConfidence

\* What a verifier that was built with freeze=False reads.
LiveView == [claims |-> claims, index |-> index, tokens |-> tokens,
             owners |-> owners, conflicts |-> conflicts, heap |-> heap]

\* freeze(): claims are copied, epochs with them, and the index is rebuilt.
Frozen == [LiveView EXCEPT !.index = claims]

Acts(g, e, r, op, min_epoch, t) ==
    can_act(g.claims, g.index, g.tokens, g.heap, e, r, op, min_epoch, t)

\* The second component of can_act's answer.
Confidence(g, e, r, op, min_epoch, t) ==
    IF ~Acts(g, e, r, op, min_epoch, t) THEN 0
    ELSE IF r.is_public /\ op = "read" THEN FullConfidence
    ELSE Best(UsableClaims(g.claims, g.index, g.tokens, e, r, op, t)).confidence

SovereigntyFlags ==
    {"increases_machine_sovereignty", "resists_human_correction", "bypasses_verifier",
     "weakens_verifier", "disables_corrigibility", "machine_coalition_dominion", "coerces",
     "deceives", "self_modification_weakens_verifier", "machine_coalition_reduces_freedom"}

\* What an Action is made of; its id and its texts are left to those who look
\* at them.
IsAction(a) ==
    /\ a.actor \in Entities /\ a.uses \in [Operations -> SUBSET Resources]
    /\ a.governs \subseteq Entities /\ a.flags \subseteq SovereigntyFlags /\ a.min_epoch \in Nat

Uses(a) == {u \in Operations \X Resources : u[2] \in a.uses[u[1]]}
Machine(e) == e.kind = "MACHINE"
Unowned(g, e) == Machine(e) /\ owner_of(g.tokens, g.owners, e) = NoOne

\* The four groups of violations that verify collects.
Violations(g, a, t) ==
    {<<"FORBIDDEN", f>> : f \in a.flags}
    \cup {<<"UNOWNED_MACHINE", e>> : e \in {x \in {a.actor} : Unowned(g, x)}}
    \cup {<<"MACHINE_DOMINION", h>> : h \in {x \in a.governs : Machine(a.actor)}}
    \cup {<<"DENIED", u>> : u \in {x \in Uses(a) :
                                    ~Acts(g, a.actor, x[2], x[1], a.min_epoch, t)}}

\* Granted reads and writes on a claim of low confidence.
Contested(g, a, t) ==
    {u \in Uses(a) : /\ u[1] # "delegate"
                     /\ Acts(g, a.actor, u[2], u[1], a.min_epoch, t)
                     /\ Confidence(g, a.actor, u[2], u[1], a.min_epoch, t) < WarnBelow}

verify(g, a, t) ==
    LET V == Violations(g, a, t)
        levels == {FullConfidence} \cup
                  {Confidence(g, a.actor, u[2], u[1], a.min_epoch, t) : u \in Uses(a)}
    IN  [permitted |-> V = {},
         violations |-> V,
         warnings |-> Contested(g, a, t),
         confidence |-> CHOOSE n \in levels : \A m \in levels : n <= m,
         requires_human_arbitration |->
             \E u \in Contested(g, a, t), x \in g.conflicts : u[1] = "write" /\ x[1] = u[2]]

\* What is answered for a step of a plan that another step has revealed.
Cancelled ==
    [permitted |-> FALSE, violations |-> {<<"ABORTED", "plan">>}, warnings |-> {},
     confidence |-> 0, requires_human_arbitration |-> TRUE]

\* Mutant: a plan that was revealed goes on.
verify_plan_goes_on(g, plan, t) == [i \in DOMAIN plan |-> verify(g, plan[i], t)]

\* Steps are verified in order; after the first that raises a sovereignty flag
\* the others are cancelled without being looked at.  The code searches the texts
\* of the violations for FORBIDDEN, which is taken to be part of no name.
verify_plan(g, plan, t) ==
    LET result[i \in DOMAIN plan] ==
          IF \E j \in 1 .. i - 1 : \E v \in result[j].violations : v[1] = "FORBIDDEN"
          THEN Cancelled ELSE verify(g, plan[i], t)
    IN  result

-------------------------------------------------------------------------------
(* HardenedVerifier: the operator's inputs in place of the action's *)

\* catalog: names mapped to authoritative resources.  A floor of zero confidence
\* is refused.
TrustedInputs(h) ==
    /\ h.epoch_floor \in Nat /\ h.min_confidence \in Nat \ {0} /\ h.require_identity \in BOOLEAN
    /\ \A name \in DOMAIN h.catalog : h.catalog[name] \in Resource

_resolve_resource(catalog, r) ==
    IF r.name \in DOMAIN catalog THEN catalog[r.name] ELSE [r EXCEPT !.is_public = FALSE]

_identity_registered_and_matched(g, e) ==
    /\ _identity_key(e) \in DOMAIN g.tokens
    /\ g.tokens[_identity_key(e)] # NoOne
    /\ g.tokens[_identity_key(e)] = e.identity_token

\* h: the trusted configuration.  The action's actor, min_epoch and flags are
\* not looked at.
HardenedViolations(h, g, seen, a, principal, t) ==
    {<<"REPLAY_DENIED", k>> : k \in seen \cap {<<principal.name, a.action_id>>}}
    \cup {<<"IDENTITY_REJECTED", e>> :
            e \in {x \in {principal} : h.require_identity
                                       /\ ~_identity_registered_and_matched(g, x)}}
    \cup {<<"UNOWNED_MACHINE", e>> : e \in {x \in {principal} : Unowned(g, x)}}
    \cup {<<"MACHINE_DOMINION", x>> : x \in {y \in a.governs : Machine(principal)}}
    \cup {<<"DENIED", u>> : u \in {x \in Uses(a) :
            LET r == _resolve_resource(h.catalog, x[2])
            IN  Confidence(g, principal, r, x[1], h.epoch_floor, t) < h.min_confidence}}

===============================================================================
