---------------------------- MODULE KernelAnalyses ----------------------------
(***************************************************************************)
(* What is built on the Rust engine without recursion: plans (planner.rs,  *)
(* verifier.rs), spawning (multi_agent.rs) and the C interface (ffi.rs),   *)
(* asked in each state of the registry.  They only read; the properties    *)
(* compare their answers with what they should be.                         *)
(***************************************************************************)
EXTENDS RustRegistry

CONSTANTS
    Plans,           \* sequences of requests
    Inputs,          \* what C callers pass in
    Capacities,      \* sizes of their output buffers
    JsonLength(_),   \* bytes of a result written as JSON
    ErrorLength      \* bytes of an error object

ASSUME PlansAssumption == \A plan \in Plans : plan \in Seq(Elements(plan))
ASSUME CallersAssumption ==
    /\ \A input \in Inputs : input.parses => /\ input.registry \in OwnershipRegistryWire
                                            /\ input.action \in ActionWire
    /\ Capacities \subseteq Nat /\ ErrorLength \in Nat
    /\ \A input \in Inputs, t \in 0 .. MaxTime :
          JsonLength(verify(input.registry, input.action, t)) \in Nat \ {0}

\* The live registry as the engine is shown it, and what the engine permits.
LiveWire == registry_wire(reg["live"])
Permits(a) == verify(LiveWire, a, now).permitted

-------------------------------------------------------------------------------
(* Plans *)

NoLabel == ""
label_rank(l) == CASE l = "SECRET" -> 2 [] l = "INTERNAL" -> 1 [] OTHER -> 0
Labels(a, op) == {r.ifc_label : r \in a.uses[op]} \ {NoLabel}

\* Mutant: the first label that was read is kept.
highest_label_first(taint, labels) ==
    IF taint # "PUBLIC" \/ labels = {} THEN taint
    ELSE CHOOSE l \in labels : \A m \in labels : label_rank(m) <= label_rank(l)

\* A label replaces another only if it ranks above it.
highest_label(taint, labels) ==
    IF \A l \in labels : label_rank(l) <= label_rank(taint) THEN taint
    ELSE CHOOSE l \in labels : \A m \in labels : label_rank(m) <= label_rank(l)

\* advance: what the step reads counts before what it writes.
Downward(taint, a) == \E l \in Labels(a, "write") : label_rank(taint) > label_rank(l)

\* One turn of the loop: the state after step i of the plan, blocked_at being 0
\* while it goes on.
advance(W, s, action, i, t) ==
    LET taint == highest_label(s.taint, Labels(action, "read"))
        permitted == verify(W, action, t).permitted
        leak == permitted /\ Downward(taint, action)
    IN  IF s.blocked_at # 0 THEN s
        ELSE [taint |-> taint, temporal |-> leak,
              blocked_at |-> IF permitted /\ ~leak THEN 0 ELSE i]

NothingRead == [taint |-> "PUBLIC", blocked_at |-> 0, temporal |-> FALSE]

\* The states of the loop, by the steps made.
projections(W, plan, t) ==
    LET after[i \in 0 .. Len(plan)] ==
          IF i = 0 THEN NothingRead ELSE advance(W, after[i - 1], plan[i], i, t)
    IN  after

planner_verify_plan(W, plan, t) ==
    LET last == projections(W, plan, t)[Len(plan)]
    IN  [all_permitted |-> last.blocked_at = 0,
         blocked_at |-> last.blocked_at, temporal |-> last.temporal]

\* FreedomVerifier.verify_plan: which of the plan's results permit.  A forbidden
\* flag cancels the steps after it.
binding_verify_plan(W, plan, t) ==
    {i \in DOMAIN plan : /\ verify(W, plan[i], t).permitted
                         /\ \A j \in 1 .. i - 1 : plan[j].flags = {}}

-------------------------------------------------------------------------------
(* Spawning: a write to the context of the child *)

MAX_DELEGATION_DEPTH == 16

\* The depth of an AuthorityBudget, which alone is looked at.
with_depth(depth) == LeastOf({depth, MAX_DELEGATION_DEPTH})

spawn_to_action(parent, child) ==
    LET context == [name |-> "agent-ctx:" \o child, rtype |-> "execution_context",
                    scope |-> "/agents/" \o child, is_public |-> FALSE, ifc_label |-> "",
                    trust_domain |-> Unlabelled]
    IN  [actor |-> parent, flags |-> {}, governs |-> {}, trust_domain |-> Unlabelled,
         uses |-> [op \in Operations |-> IF op = "write" THEN {context} ELSE {}]]

\* What the request delegates to the child is not looked at.
verify_spawn(W, req, t) ==
    CASE req.parent.kind # "MACHINE" -> "ParentNotMachine"
      [] req.parent.kind = "MACHINE" /\ req.depth > MAX_DELEGATION_DEPTH -> "DepthExceeded"
      [] OTHER -> IF verify(W, spawn_to_action(req.parent, req.child), t).permitted
                  THEN "Spawned" ELSE "KernelBlocked"

-------------------------------------------------------------------------------
(* The lists of the authority graph's report *)

ownerless_machines(W) ==
    {c.holder.name : c \in {x \in Elements(W.claims) : /\ x.holder.kind = "MACHINE"
                                                       /\ ~HasOwner(W, x.holder.name)}}

\* Mutant: an unlabelled side counts as another domain.
cross_domain_violations_unlabelled(W) ==
    {<<c.holder.name, c.resource.name>> : c \in
        {x \in Elements(W.claims) :
            /\ x.trust_domain # x.resource.trust_domain
            /\ \A g \in W.grants : ~(g.from = x.trust_domain /\ g.to = x.resource.trust_domain)}}

\* The operations of a grant are not looked at.
cross_domain_violations(W) ==
    {<<c.holder.name, c.resource.name>> : c \in
        {x \in Elements(W.claims) :
            /\ x.trust_domain # Unlabelled /\ x.resource.trust_domain # Unlabelled
            /\ x.trust_domain # x.resource.trust_domain
            /\ \A g \in W.grants : ~(g.from = x.trust_domain /\ g.to = x.resource.trust_domain)}}

-------------------------------------------------------------------------------
(* The C interface.  A buffer is a capacity; an input is [null, oversized, utf8, *)
(* parses, registry, action]. *)

\* Mutant: no room is left for the NUL.
write_buf_full(capacity, length) == IF length <= capacity THEN length ELSE capacity

\* Bytes copied, one being kept for the NUL.
write_buf(capacity, length) ==
    CASE capacity = 0 -> 0
      [] capacity > 0 /\ length <= capacity - 1 -> length
      [] OTHER -> capacity - 1

Failed(code, capacity) ==
    [code |-> code, text |-> "error", written |-> write_buf(capacity, ErrorLength)]

\* The code is the length of the answer, whether or not all of it was written.
authgate_kernel_verify(input, capacity, t) ==
    IF input.null \/ input.oversized \/ ~input.utf8 THEN Failed(-2, capacity)
    ELSE IF ~input.parses THEN Failed(-1, capacity)
    ELSE LET length == JsonLength(verify(input.registry, input.action, t))
         IN  [code |-> length, text |-> "result", written |-> write_buf(capacity, length)]

-------------------------------------------------------------------------------
(* What callers, planners and C programs are told *)

\* What the registry answers by itself, live or frozen, is never more than what the
\* gate would say of it: a yes comes from a claim that is listed for the holder
\* and has no more confidence than the gate's, and a machine has one owner or
\* none, none exactly when the gate finds it unowned (registry.rs can_act,
\* claims_for, owner_of; engine.rs can_act, verify).
QueriesAgreeWithGate ==
    \A which \in DOMAIN reg, o \in Offers :
        LET R == reg[which]
            W == registry_wire(R)
        IN  /\ \A op \in Operations :
                  LET said == registry_can_act(R, o.holder, o.resource, op)
                  IN  /\ said <= can_act(W, o.holder.name, resource_wire(o.resource), op, now)
                      /\ said > 0 => \/ o.resource.is_public /\ op = "read"
                                     \/ \E i \in claims_for(R, o.holder, o.resource) :
                                            op \in R.claims[i].rights /\ said = R.claims[i].confidence
            /\ \A x, y \in owner_of(R, o.holder) : x = y
            /\ o.holder.kind = "MACHINE" => (owner_of(R, o.holder) = {} <=> ~HasOwner(W, o.holder.name))

Registries == {LiveWire} \cup {input.registry : input \in {x \in Inputs : x.parses}}

\* Acting for a claim: what the gate says to its holder reading, or writing, the
\* claim's resource in the claim's own domain.
Acting(c, op) ==
    [actor |-> c.holder, flags |-> {}, governs |-> {}, trust_domain |-> c.trust_domain,
     uses |-> [o \in Operations |-> IF o = op THEN {c.resource} ELSE {}]]

\* In the claim's own domain the gate lets its holder do what the claim allows, but
\* for an operation that a grant between the two domains leaves out.
ActsAtHome(W, c) ==
    claim_valid(c, now) => \A op \in c.rights :
        \/ verify(W, Acting(c, op), now).permitted
        \/ \E g \in W.grants : /\ g.from = c.trust_domain /\ g.to = c.resource.trust_domain
                             /\ g.ops # {} /\ op \notin g.ops

\* What the authority graph reports is what the gate refuses: the machines reported
\* ownerless are those it refuses for it, and none of them spawns; a pair that is
\* reported to cross domains is a claim whose holder it refuses; and where both
\* lists are empty it refuses no holder what a claim allows, but for what a
\* grant leaves out (authority_graph.rs ownerless_machines,
\* cross_domain_violations; multi_agent.rs verify_spawn; engine.rs verify).
ReportsAgreeWithGate ==
    \A V \in Registries :
        /\ ownerless_machines(V) = {} /\ cross_domain_violations(V) = {} =>
               \A c \in Elements(V.claims) : ActsAtHome(V, c)
        /\ \A c \in Elements(V.claims) :
               /\ verify_spawn(V, [parent |-> c.holder, child |-> "kid", depth |-> with_depth(200)], now)
                      = "Spawned" => c.holder.name \notin ownerless_machines(V)
               /\ c.holder.name \in ownerless_machines(V) /\ c.holder.kind = "MACHINE" <=>
                      <<"UNOWNED", c.holder.name>> \in Violations(V, spawn_to_action(c.holder, "kid"), now)
        /\ \A pair \in cross_domain_violations(V) :
               \E c \in Elements(V.claims) :
                   /\ pair = <<c.holder.name, c.resource.name>>
                   /\ \A op \in {"read", "write"} : ~verify(V, Acting(c, op), now).permitted

\* Zero, or the least of a set of positions.
FirstOf(S) == IF S = {} THEN 0 ELSE LeastOf(S)

\* A label read at j would reach one written at i that ranks below it.
Leaks(plan, j, i) ==
    \E r \in plan[j].uses["read"], w \in plan[i].uses["write"] :
        /\ r.ifc_label # NoLabel /\ w.ifc_label # NoLabel
        /\ label_rank(r.ifc_label) > label_rank(w.ifc_label)

\* A plan is blocked at its first step that the gate refuses or that writes
\* below something read at or before it, and at no other; a plan that passes
\* here is permitted step by step by the binding too (planner.rs verify_plan and
\* advance, verifier.rs verify_plan).
PlansStopWhereTheyMust ==
    \A plan \in Plans :
        LET answer == planner_verify_plan(LiveWire, plan, now)
            bad == {i \in DOMAIN plan : ~Permits(plan[i]) \/ \E j \in 1 .. i : Leaks(plan, j, i)}
        IN  /\ answer.blocked_at = FirstOf(bad)
            /\ answer.temporal <=> bad # {} /\ Permits(plan[FirstOf(bad)])
            /\ answer.all_permitted => binding_verify_plan(LiveWire, plan, now) = DOMAIN plan

\* An answer with a positive code was written as a whole exactly when the code is
\* below the capacity of the buffer, so a caller can tell; every other reply is
\* an error (ffi.rs authgate_kernel_verify, write_buf).
RepliesWholeIfTheyFit ==
    \A input \in Inputs, capacity \in Capacities :
        LET reply == authgate_kernel_verify(input, capacity, now)
        IN  IF reply.code > 0 THEN reply.code < capacity <=> reply.written = reply.code
            ELSE reply.text = "error"

\* Whoever asks, the answer is the gate's: what a verifier says is a result
\* (verifier.rs), what the registry says by itself (registry.rs) and what the authority
\* graph lists (authority_graph.rs) is what the gate says, and a C caller can tell
\* a whole reply from a cut one (ffi.rs).
AnswersAgreeWithGate ==
    AnswersAreResults /\ QueriesAgreeWithGate /\ ReportsAgreeWithGate /\ RepliesWholeIfTheyFit

===============================================================================
