------------------------------- MODULE Coalition -------------------------------
(***************************************************************************)
(* Decisions that several agents have a part in: federated votes           *)
(* (distributed/federation.py), plans of several machines                  *)
(* (analysis/multi_agent_coordinator.py), who governs whom                 *)
(* (analysis/recursive_governance.py), conflicts between two claims        *)
(* (extensions/resolver.py), proposed rules (extensions/synthesis.py), the *)
(* compass (extensions/compass.py) and commitments to claims               *)
(* (analysis/sovereign_identity.py).                                       *)
(***************************************************************************)
EXTENDS PolicyLanguage

CONSTANTS
    Characters,     \* length of each scope, written out
    MaxGovernance,  \* max_depth of a governance checker
    MaxSubordinates \* its max_subordinates

-------------------------------------------------------------------------------
(* Federation.  A vote is [kernel_id, trust_level, decision, commitment_ok, *)
(* age], the last two being what the gateway looks at.                      *)

PERMIT == "PERMIT"
DENY == "DENY"
ABSTAIN == "ABSTAIN"
VETO_TRUST_LEVEL == 4

FederatedDecision ==
    [kernel_id : STRING, trust_level : 1 .. 5, decision : {PERMIT, DENY, ABSTAIN},
     commitment_ok : BOOLEAN, age : Nat]

from_result(permitted, violations) == IF permitted /\ violations = {} THEN PERMIT ELSE DENY

Cast(votes, decision) == {i \in DOMAIN votes : votes[i].decision = decision}
Vetoes(votes) == {i \in Cast(votes, DENY) : votes[i].trust_level >= VETO_TRUST_LEVEL}

\* Mutant: permits are compared with the denials alone.
consensus_of_denials(votes, threshold) ==
    LET permits == Cardinality(Cast(votes, PERMIT))
    IN  Vetoes(votes) = {} /\ votes # << >> /\ 100 * permits >= threshold * Cardinality(Cast(votes, DENY))

\* ConstitutionalConsensus.evaluate, its permitted field; threshold in hundredths.
consensus(votes, threshold) ==
    LET permits == Cardinality(Cast(votes, PERMIT))
        voting == Len(votes) - Cardinality(Cast(votes, ABSTAIN))
    IN  Vetoes(votes) = {} /\ voting > 0 /\ 100 * permits >= threshold * voting

validate_decision(kernels, vote) ==
    vote.kernel_id \in kernels /\ vote.commitment_ok /\ vote.age <= 300

\* FederationGateway.evaluate: a vote that does not count becomes an abstention,
\* a veto with it.
gateway_evaluate(kernels, votes, threshold) ==
    consensus([i \in DOMAIN votes |-> IF validate_decision(kernels, votes[i]) THEN votes[i]
                                      ELSE [votes[i] EXCEPT !.decision = ABSTAIN]],
              threshold)

-------------------------------------------------------------------------------
(* Graphs, as functions from a node to the sequence of its successors *)

After(graph, n) == IF n \in DOMAIN graph THEN graph[n] ELSE << >>

\* What a search has seen of those nodes, the ones on the path it follows, and
\* whether it has come to a cycle.
Searches(nodes) == [visited : SUBSET nodes, rec_stack : SUBSET nodes, cyclic : BOOLEAN]
NotSearched == [visited |-> {}, rec_stack |-> {}, cyclic |-> FALSE]

\* Mutant: a node is left on the stack when its search ends.
Leave_never(st, n) == st

Leave(st, n) == [st EXCEPT !.rec_stack = @ \ {n}]

\* The depth-first search both cycle detectors make, from node to node, started
\* from every one of the nodes that is not yet visited; whether it finds a cycle.
find_cycles(graph, nodes) ==
    LET all == ToSet(nodes) \cup UNION {ToSet(graph[n]) : n \in DOMAIN graph}
        dfs[n \in all, st \in Searches(all)] ==
          LET Follow(s, d) == IF d \notin s.visited THEN dfs[d, s]
                              ELSE [s EXCEPT !.cyclic = @ \/ d \in s.rec_stack]
              entered == [st EXCEPT !.visited = @ \cup {n}, !.rec_stack = @ \cup {n}]
          IN  Leave(FoldLeft(Follow, entered, After(graph, n)), n)
    IN  FoldLeft(LAMBDA st, n : IF n \in st.visited THEN st ELSE dfs[n, st], NotSearched, nodes).cyclic

-------------------------------------------------------------------------------
(* Plans of several agents: sequences of steps with distinct ids            *)

AgentStep ==
    [step_id : STRING, actor_name : STRING, uses : [Operations -> SUBSET Resources], depends_on : Seq(STRING)]

StepIds(plan) == {plan[i].step_id : i \in DOMAIN plan}
StepOf(plan, id) == plan[CHOOSE i \in DOMAIN plan : plan[i].step_id = id]
Dependencies(plan) == [id \in StepIds(plan) |-> StepOf(plan, id).depends_on]
Ids(plan) == [i \in DOMAIN plan |-> plan[i].step_id]

plan_find_cycles(plan) == find_cycles(Dependencies(plan), Ids(plan))

find_orphaned_steps(g, plan) ==
    {id \in StepIds(plan) :
        LET name == StepOf(plan, id).actor_name
        IN  /\ \A c \in g.claims : c.holder.name # name
            /\ \A m \in DOMAIN g.owners : m.name # name}

\* Known dependencies, counted as often as they are listed.
InDegree(plan, id) ==
    Len(SelectSeq(StepOf(plan, id).depends_on, LAMBDA d : d \in StepIds(plan)))

\* One turn of Kahn's loop: the head of the queue is done, and what it releases
\* comes last.
Kahn(plan, s) ==
    LET id == Head(s.queue)
        waits(x) == id \in ToSet(StepOf(plan, x).depends_on)
        left == [x \in DOMAIN s.remaining |-> IF waits(x) THEN s.remaining[x] - 1 ELSE s.remaining[x]]
        released == SelectSeq(Ids(plan), LAMBDA x : waits(x) /\ left[x] = 0)
    IN  IF s.queue = << >> THEN s
        ELSE [queue |-> Tail(s.queue) \o released, order |-> Append(s.order, id), remaining |-> left]

\* << >> stands for None: a dependency listed twice is released only once.  No
\* step enters the queue twice.
topological_order(plan) ==
    LET degree == [id \in StepIds(plan) |-> InDegree(plan, id)]
        start == [queue |-> SelectSeq(Ids(plan), LAMBDA x : degree[x] = 0), order |-> << >>, remaining |-> degree]
        turns[k \in 0 .. Len(plan)] == IF k = 0 THEN start ELSE Kahn(plan, turns[k - 1])
        order == turns[Len(plan)].order
    IN  IF plan_find_cycles(plan) \/ Len(order) # Len(plan) THEN << >> ELSE order

UsesOfPlan(plan, op) == UNION {plan[i].uses[op] : i \in DOMAIN plan}
MachineScopes(g) == {c.resource.scope : c \in {d \in g.claims : Machine(d.holder)}}

_check_resource_contention(plan) ==
    \E i, j \in DOMAIN plan :
        /\ plan[i].actor_name # plan[j].actor_name
        /\ \E r \in plan[i].uses["write"], s \in plan[j].uses["write"] : r.scope = s.scope

\* Any machine on record will do, one that has no step in the plan too.
_check_authority_aggregation(g, plan) ==
    (\E r \in UsesOfPlan(plan, "read") : r.scope = << >>) /\ << >> \notin MachineScopes(g)

_check_scope_escalation(g, plan) ==
    \E r \in UsesOfPlan(plan, "read") \cup UsesOfPlan(plan, "write") :
        r.scope # << >> /\ \A s \in MachineScopes(g) : ~scope_contains(s, r.scope)

coalition_check(g, plan) ==
    {v \in {"CIRCULAR_DEPENDENCY", "RESOURCE_CONTENTION", "AUTHORITY_AGGREGATION", "SCOPE_ESCALATION"} :
        CASE v = "CIRCULAR_DEPENDENCY" -> plan_find_cycles(plan)
          [] v = "RESOURCE_CONTENTION" -> _check_resource_contention(plan)
          [] v = "AUTHORITY_AGGREGATION" -> _check_authority_aggregation(g, plan)
          [] v = "SCOPE_ESCALATION" -> _check_scope_escalation(g, plan)}

-------------------------------------------------------------------------------
(* RecursiveGovernanceChecker: [links, graph, parent], the last link into a  *)
(* node giving its parent, every link staying in the graph.  A link is       *)
(* <<governor, governed, depth when it was added>>.                          *)

NoGovernance == [links |-> {}, graph |-> << >>, parent |-> << >>]
Updated(f, x, v) == [y \in DOMAIN f \cup {x} |-> IF y = x THEN v ELSE f[y]]
Governed(gov, n) == IF n \in DOMAIN gov.graph THEN gov.graph[n] ELSE {}

_all_nodes(gov) == {l[1] : l \in gov.links} \cup {l[2] : l \in gov.links}

\* Steps up the parents, until there is none or one comes again.
_compute_depth(gov, node) ==
    LET depth[n \in {node} \cup _all_nodes(gov), seen \in SUBSET _all_nodes(gov)] ==
          IF n \notin DOMAIN gov.parent \/ n \in seen THEN 0
          ELSE 1 + depth[gov.parent[n], seen \cup {n}]
    IN  depth[node, {}]

\* The depth is not computed again when the governor gets one of its own.
Linked(gov, governor, governed) ==
    [links |-> gov.links \cup {<<governor, governed, _compute_depth(gov, governor) + 1>>},
     graph |-> Updated(gov.graph, governor, Governed(gov, governor) \cup {governed}),
     parent |-> Updated(gov.parent, governed, governor)]

\* Mutant: only direct subordinates.
_subtree_nodes_direct(gov, root) == {root} \cup Governed(gov, root)

_subtree_nodes(gov, root) ==
    LET reach[k \in 0 .. Cardinality(_all_nodes(gov))] ==
            IF k = 0 THEN {root}
            ELSE reach[k - 1] \cup UNION {Governed(gov, n) : n \in reach[k - 1]}
    IN  reach[Cardinality(_all_nodes(gov))]

governance_cyclic(gov) ==
    find_cycles([n \in DOMAIN gov.graph |-> SetToSeq(gov.graph[n])], SetToSeq(_all_nodes(gov)))

\* Two or more roots, and a Herfindahl index of their subtrees above 0.4.
Feudal(gov) ==
    LET roots == DOMAIN gov.graph \ DOMAIN gov.parent
        total == Cardinality(_all_nodes(gov))
        size(n) == Cardinality(_subtree_nodes(gov, n))
        squares == FoldSet(LAMBDA n, acc : size(n) * size(n) + acc, 0, roots)
    IN  total >= 3 /\ Cardinality(roots) >= 2 /\ 10 * squares > 4 * total * total

governance_check(gov) ==
    {v \in {"CIRCULAR_GOVERNANCE", "DEPTH_EXCEEDED", "ANTI_FEUDAL_FAN_OUT", "FEUDAL_CONCENTRATION"} :
        CASE v = "CIRCULAR_GOVERNANCE" -> governance_cyclic(gov)
          [] v = "DEPTH_EXCEEDED" -> \E n \in _all_nodes(gov) : _compute_depth(gov, n) > MaxGovernance
          [] v = "ANTI_FEUDAL_FAN_OUT" ->
                \E n \in DOMAIN gov.graph : Cardinality(gov.graph[n]) > MaxSubordinates
          [] v = "FEUDAL_CONCENTRATION" -> Feudal(gov)}

propagate_revocation(gov, governor) == _subtree_nodes(gov, governor) \ {governor}

-------------------------------------------------------------------------------
(* resolve: "A", "B" or "DEADLOCK" *)

\* The longer scope wins, in characters; then a confidence more than a tenth
\* higher; then the claim that cannot write.
resolve(a, b) ==
    LET chars(c) == Characters[c.resource.scope]
        writes(c) == "write" \in c.rights
        ahead(c, d) == 10 * (c.confidence - d.confidence) > FullConfidence
    IN  CASE chars(a) # chars(b) -> IF chars(a) > chars(b) THEN "A" ELSE "B"
          [] chars(a) = chars(b) /\ (ahead(a, b) \/ ahead(b, a)) -> IF ahead(a, b) THEN "A" ELSE "B"
          [] OTHER -> IF writes(a) # writes(b) THEN (IF writes(b) THEN "A" ELSE "B") ELSE "DEADLOCK"

-------------------------------------------------------------------------------
(* SynthesisEngine: [admitted, rejected].  A rule is the function from the   *)
(* hard invariants it speaks of to whether it respects them.                 *)

HARD_INVARIANTS ==
    {"no_machine_sovereignty", "no_human_owns_human", "no_coercion", "no_deception",
     "verifier_preserved", "corrigibility_preserved", "human_has_exit_right"}
ProposedRule(rule) == rule \in [DOMAIN rule -> BOOLEAN] /\ DOMAIN rule \subseteq HARD_INVARIANTS

violates_invariants(rule) == {inv \in DOMAIN rule : ~rule[inv]}
is_admissible(rule) == violates_invariants(rule) = {}

admit_rule(engine, rule) ==
    IF is_admissible(rule) THEN [engine EXCEPT !.admitted = Append(@, rule)]
    ELSE [engine EXCEPT !.rejected = Append(@, rule)]

\* What people propose, one rule after the other, to an engine without rules.
admissions(rules) ==
    LET after[i \in 0 .. Len(rules)] ==
          IF i = 0 THEN [admitted |-> << >>, rejected |-> << >>] ELSE admit_rule(after[i - 1], rules[i])
    IN  after[Len(rules)]

\* The candidates that are admissible, in their order.
Fitting(chosen, rule) == IF is_admissible(rule) THEN Append(chosen, rule) ELSE chosen

synthesize(candidates) ==
    LET fit[i \in 0 .. Len(candidates)] == IF i = 0 THEN << >> ELSE Fitting(fit[i - 1], candidates[i])
    IN  fit[Len(candidates)]

\* A hook gives what it proposes by the number of rules admitted so far, nothing
\* for the numbers it leaves out.
Proposals(hook, admitted) == IF admitted \in DOMAIN hook THEN hook[admitted] ELSE << >>

\* What is not admissible is dropped, not rejected.
Induced(rules, hook) == rules \o synthesize(Proposals(hook, Len(rules)))

run_induction(engine, hooks) ==
    LET after[i \in 0 .. Len(hooks)] == IF i = 0 THEN engine.admitted ELSE Induced(after[i - 1], hooks[i])
    IN  [engine EXCEPT !.admitted = after[Len(hooks)]]

-------------------------------------------------------------------------------
(* The compass: counts of a world before and after, the score doubled *)

WorldState ==
    [rights_violations : Int, voluntary_agreements : Int, coercive_acts : Int,
     ownership_ambiguities : Int, machine_sovereignty_incidents : Int]

Vetoed(before, after) ==
    after.machine_sovereignty_incidents > before.machine_sovereignty_incidents

score(before, after) ==
    4 * (before.rights_violations - after.rights_violations)
    + 3 * (before.coercive_acts - after.coercive_acts)
    + 2 * (after.voluntary_agreements - before.voluntary_agreements)
    + 2 * (before.ownership_ambiguities - after.ownership_ambiguities)
    + 6 * (before.machine_sovereignty_incidents - after.machine_sovereignty_incidents)

-------------------------------------------------------------------------------
(* Commitments: the hash of a claim and a nonce, injective *)

Hash(claim, nonce) == <<claim, nonce>>

create(claim, nonce, expires_at) ==
    [commitment |-> Hash(claim, nonce), claim_hash |-> claim, nonce |-> nonce, expires_at |-> expires_at]

\* The places of those that have not expired.
active_commitments(commitments, t) ==
    {i \in DOMAIN commitments : ~(commitments[i].expires_at # Never /\ t > commitments[i].expires_at)}

\* At most one: the first active commitment to that claim.
disclose_for(commitments, claim, t) ==
    LET fit == {i \in active_commitments(commitments, t) : commitments[i].claim_hash = claim}
    IN  IF fit = {} THEN << >> ELSE <<commitments[CHOOSE i \in fit : \A j \in fit : i <= j]>>

verify_disclosure(disclosure, expected) == Hash(disclosure.claim_hash, disclosure.nonce) = expected

\* zip ends with the shorter list.
batch_verify(disclosures, expected) ==
    [i \in 1 .. (IF Len(disclosures) < Len(expected) THEN Len(disclosures) ELSE Len(expected)) |->
        verify_disclosure(disclosures[i], expected[i])]

===============================================================================
