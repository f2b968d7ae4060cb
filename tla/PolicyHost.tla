------------------------------- MODULE PolicyHost -------------------------------
(***************************************************************************)
(* The layers around the gate beside a registry that changes under them:   *)
(* what they permit or run, and what the analyses report, compared with    *)
(* the gate and with each other.                                           *)
(*                                                                         *)
(* job is what the host was given to do: a registry to watch or to survey, *)
(* tools to serve, governance links to record, or one input to judge.  It  *)
(* never changes.                                                          *)
(***************************************************************************)
EXTENDS Legitimacy, SovereigntyAnalyses, Coalition, ToolAdapters, Relation

CONSTANTS
    Jobs,
    Actions,      \* actions submitted, each with an action_id
    Policies,
    GoalTrees,
    Decisions,    \* payloads of a legitimacy layer
    Arguments,    \* texts that come with an action
    Annotations,
    AgentPlans,   \* plans checked against the registry
    Kernels,      \* kernels registered with the federation gateway
    Threshold,    \* of the federation, in hundredths
    MaxLinks      \* bound: governance links recorded

Words == STRING \ {""}
Lines == [indented : BOOLEAN, word : STRING, arg : Seq(Words)]
Adapters == {"autogen", "mcp", "crewai", "langgraph", "langchain", "dspy"}

ASSUME SubmittedAssumption ==
    /\ \A a \in Actions : a.uses \in [Operations -> SUBSET Resources]
    /\ \A plan \in AgentPlans : /\ plan \in Seq(ToSet(plan))
                                /\ \A i \in DOMAIN plan : plan[i].uses \in [Operations -> SUBSET Resources]
    /\ \A tree \in GoalTrees :
          /\ tree \in Seq(ToSet(tree)) /\ tree # << >>
          /\ \A i \in DOMAIN tree : tree[i].parent \in (IF i = 1 THEN {0} ELSE 1 .. i - 1)
ASSUME WeightsAssumption ==
    /\ IsFiniteSet(DOMAIN KEYWORD_SIGNALS) /\ IsFiniteSet(DOMAIN STRUCTURAL_PATTERNS)
    /\ KEYWORD_SIGNALS \in [DOMAIN KEYWORD_SIGNALS -> 0 .. 100]
    /\ STRUCTURAL_PATTERNS \in [DOMAIN STRUCTURAL_PATTERNS -> 0 .. 100]
\* Written out, a path is longer than one it lies below.
ASSUME CharactersAssumption ==
    \A r, s \in Resources :
        /\ Characters[r.scope] \in Nat
        /\ r.scope # s.scope /\ scope_contains(r.scope, s.scope) => Characters[r.scope] < Characters[s.scope]
ASSUME AnnotationsAssumption == \A n \in Annotations : n.expires_at \in Nat \cup {Never}
\* The constructor refuses any other.
ASSUME ThresholdAssumption == Threshold \in 51 .. 100
ASSUME JobsAssumption ==
    \A j \in Jobs :
        /\ j.kind = "text" => j.text \in Seq(Lines)
        /\ j.kind = "argument" => j.argument \in Argument
        /\ j.kind = "votes" => j.votes \in Seq(FederatedDecision)
        /\ j.kind = "conflict" => \A i \in {1, 2} : /\ j.rivals[i].resource \in Resources
                                                   /\ j.rivals[i].confidence \in 0 .. FullConfidence
        /\ j.kind = "worlds" => \A i \in {1, 2, 3} : j.worlds[i] \in WorldState
        /\ j.kind = "rules" => /\ j.rules \in Seq(ToSet(j.rules)) /\ j.hooks \in Seq(ToSet(j.hooks))
                              /\ \A h \in ToSet(j.hooks) : \A n \in DOMAIN h : h[n] \in Seq(ToSet(h[n]))
        /\ j.kind = "commitments" => /\ j.offered \in Seq(ToSet(j.offered))
                                    /\ j.expiries \in [DOMAIN j.offered -> Nat \cup {Never}]
        /\ j.kind = "tools" =>
              \A n \in DOMAIN j.tools :
                  LET x == j.tools[n]
                  IN  /\ x \in [adapter : Adapters, agent : Entities, read : SUBSET Resources,
                               write : SUBSET Resources, delegate : SUBSET Resources]
                      /\ x.adapter \in {"autogen", "langgraph", "langchain", "dspy"} => x.delegate = {}
                      /\ x.adapter = "dspy" => x.write = {} /\ \E r \in Resources : x.read = {r}

ASSUME InputsAssumption ==
    /\ \A a \in Actions : IsAction(a)
    /\ Decisions \subseteq PolicyDecision
    /\ \A plan \in AgentPlans : plan \in Seq(AgentStep)
    /\ \A j \in Jobs :
        /\ j.kind = "formal" => j.formal \in LegitimacyClaim
        /\ j.kind = "rules" => \A i \in DOMAIN j.rules : ProposedRule(j.rules[i])
        /\ j.kind = "plan" => j.plan \in Seq(AgentStep)
        /\ j.kind = "steps" => /\ \A i \in DOMAIN j.steps : IsAction(j.steps[i])
                              /\ DOMAIN j.labels = DOMAIN j.steps
                              /\ j.labels \in Seq([read : SUBSET STRING, write : SUBSET STRING])

VARIABLES
    job,
    gov,    \* the governance checker's links
    view,   \* the verifier's snapshot, NoSnapshot before there is one
    ran     \* history: the last tool that ran, << >> before the first

hostVars == <<vars, job, gov, view, ran>>

-------------------------------------------------------------------------------
Reaches(edges, nodes) == TransitiveClosure([p \in nodes \X nodes |-> p \in edges], nodes)

Links(g) == {<<l[1], l[2]>> : l \in g.links}

\* The claims callers build are the job's.
Registry ==
    /\ job.kind \in {"registry", "survey", "tools"}
    /\ Mutate \/ Tick
    /\ inserted' <= job.claims /\ now' <= job.until
    /\ \A c \in claims' : \E o \in job.offers : o.holder = c.holder /\ o.resource = c.resource
                                                 /\ o.rights = c.rights /\ o.confidence = c.confidence
                                                 /\ o.expires_at = c.expires_at
    /\ UNCHANGED <<job, gov, view, ran>>

FreedomVerifier ==
    /\ job.kind = "tools"
    /\ view' = Frozen
    /\ UNCHANGED <<vars, job, gov, ran>>

\* What a program gets back that puts a tool behind an adapter, for an agent and
\* the resources of the tool; AutoGen has its functions registered together.
Guarded(tools, name) ==
    LET x == tools[name]
        wanted == [read |-> x.read, write |-> x.write, delegate |-> x.delegate]
        table == {n \in DOMAIN tools : tools[n].adapter = "autogen" /\ tools[n].agent = x.agent}
        task == [execute |-> NoTool, execute_sync |-> Bare, action |-> Bare]
    IN  CASE x.adapter = "autogen" -> register(x.agent, [n \in table |-> Bare], [n \in table |-> tools[n]])[name]
          [] x.adapter = "langgraph" -> FreedomGraphNode(x.agent, Bare, <<wanted>>)
          [] x.adapter = "mcp" ->
               wrap_handler(x.agent, Bare, <<[read |-> x.read, write |-> x.write, execute |-> x.delegate]>>)
          [] x.adapter = "crewai" -> wrap_crew(x.agent, [n \in {name} |-> task], [n \in {name} |-> wanted])[name].execute_sync
          [] x.adapter = "langchain" -> FreedomTool_run(TRUE, x.agent, Bare, x.read, x.write)
          [] x.adapter = "dspy" ->
               dspy_guard(x.agent, [forward |-> Bare, save |-> Bare], CHOOSE r \in x.read : TRUE).forward

\* A framework calls a tool by its name.
Call(name) ==
    /\ job.kind = "tools" /\ view # NoSnapshot
    /\ Runs(view, Guarded(job.tools, name), now)
    /\ ran' = <<name, view, now>>
    /\ UNCHANGED <<vars, job, gov, view>>

add_link(governor, governed) ==
    /\ job.kind = "governance" /\ Cardinality(gov.links) < MaxLinks
    /\ gov' = Linked(gov, governor, governed)
    /\ UNCHANGED <<vars, job, view, ran>>

HostInit == Init /\ job \in Jobs /\ gov = NoGovernance /\ view = NoSnapshot /\ ran = << >>

HostTurn ==
    \/ Registry
    \/ FreedomVerifier
    \/ job.kind = "tools" /\ \E name \in DOMAIN job.tools : Call(name)
    \/ job.kind = "governance" /\ \E m, n \in job.nodes : add_link(m, n)

HostSpec == HostInit /\ [][HostTurn]_hostVars

-------------------------------------------------------------------------------
(* Properties *)

\* A policy permits what the gate permits and it does not itself deny; a goal
\* tree is permitted whole if and only if the gate permits each goal and none
\* asks for more than its parent.
PoliciesRestrict(g) ==
    /\ \A a \in Actions, p \in Policies :
          policy_verify(g, p, a, now).permitted
            <=> verify(g, a, now).permitted /\ \A u \in Uses(a) : evaluate(p, a.actor, u[2], u[1]) # "deny"
    /\ \A tree \in GoalTrees :
          LET result == verify_goal_tree(g, tree, now)
          IN  /\ fully_permitted(result) <=>
                    \A i \in DOMAIN tree :
                       /\ verify(g, action(tree[i]), now).permitted
                       /\ tree[i].parent # 0 => Required(tree[i]) \subseteq Required(tree[tree[i].parent])
              /\ fully_permitted(result) => all_required_resources(tree) = Required(tree[1])

\* A name stands for one entity, or for one resource that lies in its own path.
Identified(e) == \A x \in Entities : _identity_key(x) = _identity_key(e) => x = e
Located(r) == scope_contains(r.scope, r.scope) /\ \A x \in Resources : x.name = r.name => x = r

\* What a name may be registered for, if anything.
Registered == {<< >>} \cup {<<x>> : x \in [importable : BOOLEAN, outcome : {"returns", "raises"}]}

\* Nothing is executed but what the gate permits, whatever the legitimacy
\* layers answer, and a machine that the gate permits without public resources
\* shows neither amplified authority nor capture: if nothing presses for it, its
\* action is blocked as persuasion only where it takes every right and touches
\* credentials or identities.
SeamsRestrict(g) ==
    /\ \A a \in Actions, p \in Decisions :
          enforce_legitimacy(g, p, a, now) =>
              verify(g, a, now).permitted /\ p.verdict = "ALLOW" /\ p.action_id = a.action_id
    /\ \A a \in Actions, level \in {"NONE", "SECCOMP"}, filtered \in BOOLEAN, tl \in Registered :
          LET x == seccomp_execute(g, a, tl, level, filtered, now)
          IN  /\ x.ran => verify(g, a, now).permitted
              /\ x.answer = "permitted" => x.ran /\ tl[1].outcome = "returns"
    /\ \A a \in Actions, x \in Arguments :
          extended_verify(g, a, x, 50, "none", now).kernel_result.permitted = verify(g, a, now).permitted
    /\ \A a \in Actions :
          /\ verify(g, a, now).permitted /\ Machine(a.actor) /\ Identified(a.actor)
          /\ \A r \in Asked(a) : Located(r) /\ ~r.is_public
          =>  /\ capture_check(g, a) = {}
              /\ "AUTHORITY_AMPLIFICATION" \notin criteria_fired(g, a, FALSE, now)
              /\ persuasion_check(g, a, FALSE, now).block =>
                    /\ \A op \in Operations : a.uses[op] # {}
                    /\ \E r \in Touched(a) : TypeOf[r] \in {"CREDENTIAL", "IDENTITY"}

\* What a tool was declared to use.
Declared(x) == Submitted(x.agent, x.read, x.write, x.delegate, {})

\* A tool that ran was permitted, for the resources declared for it, by the
\* snapshot its verifier had.
ToolWasPermitted ==
    ran # << >> => verify(ran[2], Declared(job.tools[ran[1]]), ran[3]).permitted

\* Labels from the least to the most secret.
Secrecy == <<"", "PUBLIC", "INTERNAL", "SECRET">>
AtOrBelow(source, sink) == \E i \in DOMAIN Secrecy : Secrecy[i] = source /\ \E j \in i .. 4 : Secrecy[j] = sink

\* A plan that is verified step by step permits just the steps that the gate
\* permits and no forbidden one comes before; one that is checked for flows
\* passes if and only if nothing it reads is written, by that step or by a later
\* one, to where fewer may see it.
StepsAreVerified(g, steps, labels) ==
    LET results == verify_plan(g, steps, now)
    IN  /\ DOMAIN results = DOMAIN steps
        /\ \A i \in DOMAIN steps :
              results[i].permitted <=> /\ verify(g, steps[i], now).permitted
                                       /\ \A j \in 1 .. i - 1 : steps[j].flags = {}
        /\ check_plan(labels) <=>
              \A j \in DOMAIN labels : \A i \in 1 .. j :
                  \A source \in labels[i].read, sink \in labels[j].write :
                      source = sink \/ AtOrBelow(source, sink)

\* Policies, goal trees, plans, legitimacy layers, the sandbox and the adapters only
\* take away from what the kernel gate permits, on every registry that can come
\* about: kernel/policy.py, kernel/goals.py, kernel/verifier.py, extensions/ifc.py,
\* integrations/legitimacy.py, kernel/seccomp_executor.py and src/authgate/adapters.
LayersOnlyRestrict ==
    /\ job.kind = "registry" => PoliciesRestrict(LiveView) /\ SeamsRestrict(LiveView)
    /\ job.kind = "steps" => StepsAreVerified(LiveView, job.steps, job.labels)
    /\ ToolWasPermitted

-------------------------------------------------------------------------------
\* Whether a statement of the policy language speaks of this.
Says(s, e, r, op) ==
    /\ s.subject = "*" \/ <<e.name, s.subject>> \in Matches
    /\ op \in s.operations
    /\ \/ s.resource_scope = Anything
       \/ scope_contains(s.resource_scope, IF r.scope # << >> THEN r.scope ELSE <<r.name>>)

\* A text is applied top down: the first statement that speaks of a use decides
\* it, and what none speaks of is denied.
TextIsRead(text) ==
    LET read == parse(text)
    IN  read.error \/ \A e \in Entities, r \in Resources, op \in Operations :
            LET speak == {i \in DOMAIN read.statements : Says(read.statements[i], e, r, op)}
            IN  evaluate(compile(text), e, r, op) =
                    IF speak # {} /\ read.statements[CHOOSE i \in speak : \A j \in speak : i <= j].effect = "ALLOW"
                    THEN "permit" ELSE "deny"

\* A consent is valid if and only if no reason is found against it.
ConsentsAgree(g) ==
    /\ \A n \in Annotations, t \in 0 .. MaxTime : is_consent_valid(n, t) <=> consent_violation_reason(n, t) = "none"
    /\ \A a \in Actions :
          consent_check(Annotations, a, now) = {} <=>
              \A n \in Annotations : n.claim.holder = a.actor /\ (\E u \in Uses(a) : u[2] = n.claim.resource)
                                     => is_consent_valid(n, now)

\* Another phrase never lowers a score, a conclusion tester that fails is as
\* good as none, and its "no" exonerates nothing.
Grows(x, threshold, tester) ==
    LET found == detect(x, threshold, tester)
    IN  /\ found.score <= 100
        /\ found.suspicious <=> found.recommendation # "clean"
        /\ tester \in {"raises", "no"} => found = detect(x, threshold, "none")
        /\ ~x.blank => \A k \in DOMAIN KEYWORD_SIGNALS :
              detect([x EXCEPT !.keywords = @ \cup {k}], threshold, tester).score >= found.score

DetectionGrows(x) ==
    \A threshold \in {50, 80}, tester \in {"none", "yes", "no", "raises"} : Grows(x, threshold, tester)

\* The meta axioms refuse nothing that the five axioms let pass, and a claim is
\* executed only if it is allowed.
FormalAgrees(c) ==
    /\ Axioms(c) => check_meta(c)
    /\ compose(c) => is_allow(decide_freedom_formal(c))

\* A judge of purposes lets pass what was disclosed; short of an answer it lets
\* pass only where uncertainty does, and what is no judgment never passes.
PurposeIsJudged(disclosed, actual) ==
    \A presented \in {"plain", "not_json", "oversized"}, on_uncertain \in {"abstain", "deny"} :
        /\ semantic_consent_veto(presented, match_judge(disclosed, actual), on_uncertain) =>
              \/ disclosed = actual /\ disclosed # ""
              \/ "" \in {disclosed, actual} /\ on_uncertain = "abstain"
        /\ ~semantic_consent_veto(presented, "raises", on_uncertain)

\* What the readers say holds of what they read: a policy text of
\* kernel/policy_dsl.py, an argument of extensions/detection.py, a claim of
\* research/freedom_formal, a purpose of extensions/consent_semantics.py and a
\* consent of kernel/consent.py.
ReadingsAgree ==
    /\ job.kind = "text" => TextIsRead(job.text)
    /\ job.kind = "argument" => DetectionGrows(job.argument)
    /\ job.kind = "formal" => FormalAgrees(job.formal)
    /\ job.kind = "purpose" => PurposeIsJudged(job.disclosed, job.actual)
    /\ job.kind = "registry" => ConsentsAgree(LiveView)

-------------------------------------------------------------------------------
\* The valid votes alone decide, so that a stale veto counts for nothing: there
\* is a permit if and only if no veto is among them and enough of those that do
\* not abstain permit, which is more than deny; one more denial or abstention
\* never turns a refusal into a permit.
VotesAreCounted(votes) ==
    LET permitted == gateway_evaluate(Kernels, votes, Threshold)
        Valid(decision) == {i \in Cast(votes, decision) : validate_decision(Kernels, votes[i])}
        permits == Cardinality(Valid(PERMIT))
        denials == Cardinality(Valid(DENY))
    IN  /\ permitted <=> /\ \A i \in Valid(DENY) : votes[i].trust_level < VETO_TRUST_LEVEL
                         /\ permits > 0 /\ 100 * permits >= Threshold * (permits + denials)
        /\ permitted => permits > denials
        /\ votes # << >> /\ votes[Len(votes)].decision # PERMIT /\ permitted
             => gateway_evaluate(Kernels, SubSeq(votes, 1, Len(votes) - 1), Threshold)

\* A kernel that votes as its gate decides, alone, decides as its gate.  A plan
\* of which the gate permits every step, to a machine and without public
\* resources, leaves no scope uncovered and no step without a claim.
CoalitionAgrees(g) ==
  /\ \A a \in Actions, k \in Kernels, level \in 1 .. 5 :
        LET result == verify(g, a, now)
            vote == [kernel_id |-> k, trust_level |-> level, commitment_ok |-> TRUE, age |-> 0,
                     decision |-> from_result(result.permitted, result.violations)]
        IN  gateway_evaluate(Kernels, <<vote>>, Threshold) = result.permitted
  /\ \A plan \in AgentPlans :
        (\A i \in DOMAIN plan :
            \E e \in Entities :
                /\ Machine(e) /\ e.name = plan[i].actor_name
                /\ \A op \in {"read", "write"} : \A r \in plan[i].uses[op] : Located(r) /\ ~r.is_public
                /\ verify(g, [actor |-> e, uses |-> plan[i].uses, governs |-> {}, flags |-> {}, min_epoch |-> 0],
                          now).permitted)
        => /\ coalition_check(g, plan) \cap {"AUTHORITY_AGGREGATION", "SCOPE_ESCALATION"} = {}
           /\ find_orphaned_steps(g, plan) = {}

\* The winner does not depend on which claim comes first, and of two claims the
\* one on the part wins against the one on the whole.
ConflictIsSettled(a, b) ==
    /\ resolve(a, b) = "A" <=> resolve(b, a) = "B"
    /\ a.resource.scope # b.resource.scope /\ scope_contains(a.resource.scope, b.resource.scope)
         => resolve(a, b) = "B"

\* Steps that are not vetoed add up to a path that is not, with their scores.
CompassAddsUp(w) ==
    ~Vetoed(w[1], w[2]) /\ ~Vetoed(w[2], w[3]) =>
        ~Vetoed(w[1], w[3]) /\ score(w[1], w[3]) = score(w[1], w[2]) + score(w[2], w[3])

\* Whatever was proposed, by people or by hooks, no rule against a hard
\* invariant is admitted.
RulesAreAdmissible(rules, hooks) ==
    LET engine == run_induction(admissions(rules), hooks)
    IN  \A i \in DOMAIN engine.admitted : violates_invariants(engine.admitted[i]) = {}

\* A disclosure is of a commitment that has not expired, and verifies against
\* that one and no other.
DisclosureIsOwn(offered, expiries) ==
    LET commitments == [i \in DOMAIN offered |-> create(offered[i], i, expiries[i])]
    IN  \A c \in ToSet(offered), t \in 0 .. MaxTime :
            LET disclosed == disclose_for(commitments, c, t)
                checked == batch_verify([i \in DOMAIN commitments |-> disclosed[1]],
                                        [i \in DOMAIN commitments |-> commitments[i].commitment])
            IN  disclosed = << >> \/ Cardinality({i \in DOMAIN checked : checked[i] /\ offered[i] = c
                                                    /\ (expiries[i] = Never \/ t <= expiries[i])}) = 1

\* What several agents decide together: distributed/federation.py,
\* analysis/multi_agent_coordinator.py, extensions/resolver.py, compass.py and
\* synthesis.py, and analysis/sovereign_identity.py.
GroupDecisionsSound ==
    /\ job.kind = "votes" => VotesAreCounted(job.votes)
    /\ job.kind = "conflict" => ConflictIsSettled(job.rivals[1], job.rivals[2])
    /\ job.kind = "worlds" => CompassAddsUp(job.worlds)
    /\ job.kind = "rules" => RulesAreAdmissible(job.rules, job.hooks)
    /\ job.kind = "commitments" => DisclosureIsOwn(job.offered, job.expiries)
    /\ job.kind = "registry" => CoalitionAgrees(LiveView)

-------------------------------------------------------------------------------
\* Depth is counted in three ways, which differ only for holders with several
\* claims and where authority was delegated in a circle.
DepthsAgree(g) ==
    LET above == {<<c.holder.name, c.delegated_by.name>> : c \in {d \in g.claims : Delegated(d)}}
        names == {e.name : e \in Entities}
    IN  /\ \A c, d \in g.claims : c.holder.name = d.holder.name => c = d
        /\ \A n \in names : ~Reaches(above, names)[n, n]
        => \A c \in g.claims : /\ _chain_depth(g.claims, c) = _delegation_depth(g.claims, c)
                            /\ ExitDepth(g.claims, c.holder.name) = _delegation_depth(g.claims, c)

\* Two analyses that look for one thing find it together.
SignalsAgree(g) ==
    /\ \A h \in OwnerNames(g) : <<"EXIT_BLOCKED", h>> \in exit_check(g) =>
          /\ <<"OWNER_LOCKOUT", h>> \in override_detect(g, now)
          /\ \A m \in DOMAIN g.owners : g.owners[m].name = h /\ Cardinality(ResourcesOf(g, m.name)) > 1
                => <<"SOVEREIGNTY_EROSION", m.name>> \in economy_analyze(g)
    /\ \A n \in Depended(g) :
          /\ "DEPENDENCY_MONOPOLY" \in Coercive(g, n) => n \in _check_monopoly_delegation(g.claims)
          /\ "CONFIDENCE_ASYMMETRY" \in Coercive(g, n) =>
                \E c \in HeldUnder(g.claims, n) : ~_delegation_chain_valid(g.claims, c, now)
          /\ Cardinality(AllHumans(g)) >= 2 =>
                (<<n, "CRITICAL">> \in coercion_analyze(g) <=> "DEPENDENCY_MONOPOLY" \in Coercive(g, n))
    /\ \A n \in MachineNames(g) :
          /\ <<"IRREVERSIBLE_LOCK_IN", n>> \in economy_analyze(g) /\ OwnerName(g, n) # ""
             /\ (\A c \in HeldUnder(g.claims, n) : TypeOf[c.resource] \in IDENTITY_RESOURCE_TYPES)
             => <<"IDENTITY_LOCKED", OwnerName(g, n)>> \in exit_check(g)
          /\ <<"MACHINE_OLIGARCHY", n>> \in economy_analyze(g)
             => \E s \in {r.scope : r \in Resources} : <<"NO_DIRECT_HUMAN_CLAIMS", s>> \in override_detect(g, now)
    /\ Cardinality(MachineNames(g)) = 2 => <<"RESOURCE_CONCENTRATION", "">> \in economy_analyze(g)
    /\ "TOTAL_AGENCY_SURRENDER" \in check_claims(g.claims)
       => \E n \in MachineNames(g) : RootClaims(g, n) # {}
    /\ sovereignty_risk_level(g) # "CRITICAL"

\* A cycle is found if and only if some step waits for itself; an order puts
\* every step after those it waits for, and there is none only for a cycle, or
\* for a dependency that is listed twice.
PlanIsOrdered(plan) ==
    LET nodes == StepIds(plan)
        edges == {p \in nodes \X nodes : p[2] \in ToSet(StepOf(plan, p[1]).depends_on)}
        order == topological_order(plan)
        twice == \E id \in nodes : InDegree(plan, id) > Cardinality({p \in edges : p[1] = id})
    IN  /\ plan_find_cycles(plan) <=> \E n \in nodes : Reaches(edges, nodes)[n, n]
        /\ order = << >> <=> plan_find_cycles(plan) \/ twice
        /\ order # << >> => /\ ToSet(order) = nodes /\ Len(order) = Cardinality(nodes)
                            /\ \A i, j \in DOMAIN order : <<order[i], order[j]>> \in edges => j < i

\* However links were added, and nodes given another governor: cycles are
\* found, a revocation reaches everything below the revoked governor, and where
\* nothing is reported every node is within the depth of a root.
GovernanceIsBounded ==
    LET nodes == _all_nodes(gov)
        below == Reaches(Links(gov), nodes)
        under == Reaches({<<n, gov.parent[n]>> : n \in DOMAIN gov.parent}, nodes)
    IN  /\ governance_cyclic(gov) <=> \E n \in nodes : below[n, n]
        /\ \A m, n \in nodes : under[n, m] /\ m # n => n \in propagate_revocation(gov, m)
        /\ governance_check(gov) = {} =>
              \A n \in nodes : /\ Cardinality({m \in nodes : under[n, m]}) <= MaxGovernance
                               /\ n \in DOMAIN gov.parent => \E m \in nodes \ DOMAIN gov.parent : under[n, m]

\* What is found by walking along delegations, dependencies or links is
\* what paths and counts say: the analyses of a registry, the order of a plan
\* (analysis/multi_agent_coordinator.py) and who governs whom
\* (analysis/recursive_governance.py).
WalksAgree ==
    /\ job.kind = "survey" => DepthsAgree(LiveView) /\ SignalsAgree(LiveView)
    /\ job.kind = "plan" => PlanIsOrdered(job.plan)
    /\ job.kind = "governance" => GovernanceIsBounded

===============================================================================
