---------------------------- MODULE PolicyLanguage -----------------------------
(***************************************************************************)
(* Rules above the permission gate: policies (kernel/policy.py), the       *)
(* language they are written in (kernel/policy_dsl.py), goal trees         *)
(* (kernel/goals.py), structural limits on claims (kernel/inalienable.py)  *)
(* and consent annotations (kernel/consent.py).                            *)
(*                                                                         *)
(* A line of a policy text is [indented, word, arg]: its first word and    *)
(* the rest, a path or words, as a sequence; a line that is blank, or only *)
(* a comment, has the word "".                                             *)
(***************************************************************************)
EXTENDS DecisionVerifier, SequencesExt

CONSTANTS
    Matches,    \* pairs <<name, pattern>> with name.startswith(pattern)
    Numerals,   \* the words that isdigit holds for
    TypeOf,     \* rtype of each resource
    Personal    \* resources with a word such as "human" or "profile" in their
                \*   name or scope

ResourceType ==
    {"FILE", "API_ENDPOINT", "DATABASE_TABLE", "NETWORK_ENDPOINT", "COMPUTE_SLOT", "MESSAGE_CHANNEL",
     "CREDENTIAL", "MODEL_WEIGHTS", "DATASET", "MEMORY_REGION", "ATTENTION", "IDENTITY", "REPUTATION",
     "BEHAVIORAL_PROFILE", "AUTONOMOUS_CAPITAL", "BIOLOGICAL_TELEMETRY", "DIGITAL_TWIN", "MODEL_DERIVATIVE"}
ASSUME TypesAssumption == TypeOf \in [Resources -> ResourceType]

-------------------------------------------------------------------------------
(* Policy *)

\* The empty field of a rule matches anything.
_rule_matches(rule, e, r, op) ==
    /\ rule.operations # {} => op \in rule.operations
    /\ rule.actor_pattern # "" => <<e.name, rule.actor_pattern>> \in Matches
    /\ rule.resource_scope # << >> =>
         scope_contains(rule.resource_scope, IF r.scope # << >> THEN r.scope ELSE <<r.name>>)

\* sorted by priority is stable: among equals the earlier rule comes first.
Before(rules, i, j) ==
    \/ rules[i].priority > rules[j].priority
    \/ rules[i].priority = rules[j].priority /\ i <= j

evaluate(policy, e, r, op) ==
    LET firing == {i \in DOMAIN policy.rules : _rule_matches(policy.rules[i], e, r, op)}
    IN  IF firing = {} THEN policy.default_effect
        ELSE policy.rules[CHOOSE i \in firing : \A j \in firing : Before(policy.rules, i, j)].effect

Refused(policy, a) == {u \in Uses(a) : evaluate(policy, a.actor, u[2], u[1]) = "deny"}

\* PolicyVerifier.verify: the kernel's refusal stands, its permission is read again.
policy_verify(g, policy, a, t) ==
    LET result == verify(g, a, t)
    IN  IF ~result.permitted \/ Refused(policy, a) = {} THEN result
        ELSE [result EXCEPT !.permitted = FALSE,
                            !.violations = @ \cup {<<"POLICY_DENIED", u>> : u \in Refused(policy, a)},
                            !.confidence = 0,
                            !.requires_human_arbitration = TRUE]

-------------------------------------------------------------------------------
(* PolicyDSL.  A statement under way is a sequence of at most one. *)

Effects == {"ALLOW", "DENY"}
Conditions == {"UNLESS", "MAX_DELEGATION_DEPTH", "EXPIRES", "TRUST_DOMAIN"}
Numeric == {"MAX_DELEGATION_DEPTH", "EXPIRES"}
Anything == <<"*">>

\* The lines that _logical_lines leaves out.
Blank(l) == l.word = ""

\* A subject of several words is not a subject.
_parse_header(l) ==
    IF l.word \in Effects /\ Len(l.arg) = 1
    THEN <<[effect |-> l.word, subject |-> l.arg[1], operations |-> {},
            resource_scope |-> Anything, conditions |-> {}]>>
    ELSE << >>

\* An operation without a path puts the scope back to "*".
_parse_body_line(l, stmt) ==
    CASE l.word \notin Conditions ->
           <<[stmt EXCEPT !.operations = @ \cup {l.word},
                          !.resource_scope = IF l.arg = << >> THEN Anything ELSE l.arg]>>
      [] /\ l.word \in Conditions /\ l.arg # << >>
         /\ l.word \in Numeric => Len(l.arg) = 1 /\ l.arg[1] \in Numerals ->
           <<[stmt EXCEPT !.conditions = @ \cup {l.word}]>>
      [] OTHER -> << >>

\* The open statement joins the finished ones; one without operations is an error.
_validate_statement(st) ==
    IF st.current = << >> THEN st
    ELSE IF st.current[1].operations = {} THEN [st EXCEPT !.error = TRUE]
    ELSE [st EXCEPT !.statements = Append(@, st.current[1]), !.current = << >>]

NothingRead == [error |-> FALSE, statements |-> << >>, current |-> << >>]

ReadLine(st, l) ==
    LET before == IF l.indented THEN st ELSE _validate_statement(st)
        opened == IF ~l.indented THEN _parse_header(l)
                  ELSE IF st.current = << >> THEN << >>
                  ELSE _parse_body_line(l, st.current[1])
    IN  IF Blank(l) THEN st
        ELSE IF before.error \/ opened = << >> THEN [before EXCEPT !.error = TRUE]
        ELSE [before EXCEPT !.current = opened]

\* What is read of the first i lines.
readings(text) ==
    LET read[i \in 0 .. Len(text)] == IF i = 0 THEN NothingRead ELSE ReadLine(read[i - 1], text[i])
    IN  read

parse(text) == _validate_statement(readings(text)[Len(text)])

\* Mutant: the later a statement, the higher its priority.
to_policy_last_first(stmts) ==
    [rules |-> [i \in DOMAIN stmts |->
        [effect |-> IF stmts[i].effect = "ALLOW" THEN "permit" ELSE "deny",
         operations |-> stmts[i].operations,
         actor_pattern |-> IF stmts[i].subject = "*" THEN "" ELSE stmts[i].subject,
         resource_scope |-> IF stmts[i].resource_scope = Anything THEN << >> ELSE stmts[i].resource_scope,
         priority |-> i * 10]],
     default_effect |-> "deny"]

\* Conditions are not carried over.
to_policy(stmts) ==
    [rules |-> [i \in DOMAIN stmts |->
        [effect |-> IF stmts[i].effect = "ALLOW" THEN "permit" ELSE "deny",
         operations |-> stmts[i].operations,
         actor_pattern |-> IF stmts[i].subject = "*" THEN "" ELSE stmts[i].subject,
         resource_scope |-> IF stmts[i].resource_scope = Anything THEN << >> ELSE stmts[i].resource_scope,
         priority |-> (Len(stmts) - (i - 1)) * 10]],
     default_effect |-> "deny"]

\* What a text read without an error is compiled to.
compile(text) == to_policy(parse(text).statements)

-------------------------------------------------------------------------------
(* Goal trees: the goals [actor, uses, parent] of a tree, each after its      *)
(* parent, whose place in the sequence it has; the root comes first and has   *)
(* parent 0.  No goal uses "delegate".                                        *)

Required(node) == node.uses["read"] \cup node.uses["write"]
action(node) == [actor |-> node.actor, uses |-> node.uses, governs |-> {}, flags |-> {}, min_epoch |-> 0]

all_required_resources(tree) == UNION {Required(tree[i]) : i \in DOMAIN tree}

\* Mutant: a subgoal is compared with the root's resources.
Judged_root_scope(g, tree, i, t) ==
    IF /\ verify(g, action(tree[i]), t).permitted
       /\ tree[i].parent # 0 => Required(tree[i]) \subseteq Required(tree[1])
    THEN "permitted" ELSE "blocked"

\* What a goal is told that is not cancelled: it may not ask for more than its
\* parent.
Judged(g, tree, i, t) ==
    IF /\ verify(g, action(tree[i]), t).permitted
       /\ tree[i].parent # 0 => Required(tree[i]) \subseteq Required(tree[tree[i].parent])
    THEN "permitted" ELSE "blocked"

\* The children of a blocked goal are cancelled, and their own children have no
\* result at all.
verify_goal_tree(g, tree, t) ==
    LET result[i \in 0 .. Len(tree)] ==
          IF i = 0 THEN "permitted"
          ELSE LET above == result[tree[i].parent]
               IN  CASE above = "permitted" -> Judged(g, tree, i, t)
                     [] above = "blocked" -> "cancelled"
                     [] OTHER -> "absent"
    IN  [i \in DOMAIN tree |-> result[i]]

fully_permitted(result) == \A i \in DOMAIN result : result[i] \in {"permitted", "absent"}

-------------------------------------------------------------------------------
(* InnalienableRightsChecker *)

_SENSITIVE_RESOURCE_TYPES ==
    {"BEHAVIORAL_PROFILE", "IDENTITY", "BIOLOGICAL_TELEMETRY", "DIGITAL_TWIN", "ATTENTION"}
Whole(c) == c.resource.scope = << >>
Delegated(c) == c.delegated_by # NoOne

check_claim(c) ==
    {v \in {"PERMANENT_DELEGATION", "BEHAVIORAL_OWNERSHIP", "TOTAL_AGENCY_SURRENDER",
            "SELF_PERPETUATING_CHAIN"} :
        CASE v = "PERMANENT_DELEGATION" ->
               Delegated(c) /\ Machine(c.delegated_by) /\ c.expires_at = Never
          [] v = "BEHAVIORAL_OWNERSHIP" ->
               /\ Machine(c.holder)
               /\ TypeOf[c.resource] \in _SENSITIVE_RESOURCE_TYPES \/ c.resource \in Personal
          [] v = "TOTAL_AGENCY_SURRENDER" ->
               /\ Machine(c.holder) /\ Whole(c)
               /\ c.rights = Operations /\ c.confidence >= FullConfidence
          [] v = "SELF_PERPETUATING_CHAIN" ->
               Machine(c.holder) /\ Delegated(c) /\ "delegate" \in c.rights /\ Whole(c)}

\* Names of the humans who delegated to a machine of that name, among C.
HumansBehind(C, name) ==
    {c.delegated_by.name : c \in {d \in C : /\ Delegated(d) /\ d.delegated_by.kind = "HUMAN"
                                            /\ Machine(d.holder) /\ d.holder.name = name}}
HumanDelegators(C) ==
    {c.delegated_by.name : c \in {d \in C : Delegated(d) /\ d.delegated_by.kind = "HUMAN"}}

\* More than half of at least two humans; machines are told apart by name.
_check_monopoly_delegation(C) ==
    IF Cardinality(HumanDelegators(C)) < 2 THEN {}
    ELSE {n \in {c.holder.name : c \in C} :
            2 * Cardinality(HumansBehind(C, n)) > Cardinality(HumanDelegators(C))}

check_claims(C) == UNION {check_claim(c) : c \in C}
                   \cup {"MONOPOLY_DELEGATION" : n \in _check_monopoly_delegation(C)}

-------------------------------------------------------------------------------
(* ConsentAnnotation: [claim, consent_required, given_by, expires_at, scope]. *)

is_consent_valid(n, t) ==
    \/ ~n.consent_required
    \/ /\ n.given_by # NoOne /\ n.given_by.kind = "HUMAN"
       /\ n.expires_at # Never => t < n.expires_at
       /\ n.scope # << >> => scope_contains(n.scope, n.claim.resource.scope)

\* The same four questions, asked again for the reason of a refusal.
consent_violation_reason(n, t) ==
    CASE ~n.consent_required -> "none"
      [] n.consent_required /\ n.given_by = NoOne -> "absent"
      [] n.consent_required /\ n.given_by # NoOne /\ n.given_by.kind # "HUMAN" -> "not_human"
      [] OTHER -> IF n.expires_at # Never /\ t >= n.expires_at THEN "expired"
                  ELSE IF n.scope # << >> /\ ~scope_contains(n.scope, n.claim.resource.scope)
                  THEN "scope" ELSE "none"

\* ConsentVerifier.check: what is annotated, for this actor, on what it uses.
consent_check(annotations, a, t) ==
    {p \in {u[2] : u \in Uses(a)} \X annotations :
        /\ p[2].claim.holder = a.actor /\ p[2].claim.resource = p[1] /\ p[2].consent_required
        /\ consent_violation_reason(p[2], t) # "none"}

===============================================================================
