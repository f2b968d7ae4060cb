------------------------------ MODULE Legitimacy -------------------------------
(***************************************************************************)
(* The layers that can only say no: manipulation detection and the         *)
(* verifier that carries its warnings (extensions/detection.py,            *)
(* extensions/__init__.py), the consent judge (extensions/                 *)
(* consent_semantics.py), the legitimacy seam (integrations/legitimacy.py) *)
(* with its evaluator (research/freedom_formal), information flow over a   *)
(* plan (extensions/ifc.py), the persuasion boundary                       *)
(* (analysis/persuasion.py), and the gate that runs tools in a subprocess  *)
(* (kernel/seccomp_executor.py).                                           *)
(*                                                                         *)
(* Scores and weights are in hundredths.  Text is the set of signals that  *)
(* a search of it would find.                                              *)
(***************************************************************************)
EXTENDS PolicyLanguage

CONSTANTS
    KEYWORD_SIGNALS,      \* weight of each phrase
    STRUCTURAL_PATTERNS   \* weight of each pattern

AtMost(a, b) == IF a <= b THEN a ELSE b
Heaviest(weight, S) == IF S = {} THEN 0 ELSE CHOOSE w \in {weight[s] : s \in S} : \A s \in S : weight[s] <= w

-------------------------------------------------------------------------------
(* detect.  tester: the conclusion tester's answer, "none" when none is     *)
(* installed, "raises" when it fails.                                       *)

\* The phrases and patterns of the two tables that occur in a text.
Argument ==
    [blank : BOOLEAN, keywords : SUBSET DOMAIN KEYWORD_SIGNALS, patterns : SUBSET DOMAIN STRUCTURAL_PATTERNS]

Signals(argument) == Cardinality(argument.keywords) + Cardinality(argument.patterns)

LayerScore(argument) ==
    LET l3 == Heaviest(KEYWORD_SIGNALS, argument.keywords)
        l2 == Heaviest(STRUCTURAL_PATTERNS, argument.patterns)
    IN  (IF l2 > l3 THEN l2 ELSE l3) + AtMost(15, 5 * Signals(argument))

\* A tester that says no, or fails, leaves the score to the other layers.
detect(argument, threshold, tester) ==
    LET score == IF argument.blank THEN 0
                 ELSE IF tester = "yes" THEN 100 ELSE AtMost(100, LayerScore(argument))
    IN  [score |-> score,
         suspicious |-> ~argument.blank /\ score >= threshold,
         recommendation |-> IF argument.blank \/ score < threshold THEN "clean"
                            ELSE IF score >= 90 \/ tester = "yes" THEN "high"
                            ELSE IF score >= 70 THEN "moderate" ELSE "low"]

\* ExtendedFreedomVerifier.verify: a warning, and nothing else, is added.
extended_verify(g, a, argument, threshold, tester, t) ==
    LET result == verify(g, a, t)
        found == detect(argument, threshold, tester)
    IN  [kernel_result |-> IF found.suspicious
                           THEN [result EXCEPT !.warnings = @ \cup {"manipulation"}] ELSE result,
         manipulation_score |-> found.score]

-------------------------------------------------------------------------------
(* semantic_consent_veto *)

JUDGMENTS == {"informed_voluntary_competent", "deceptive_or_coercive", "uncertain"}

\* What a judge may do instead: raise, return another type, no string, a word
\* that is no judgment.
_parse(answer) == IF answer \in JUDGMENTS THEN answer ELSE "none"

\* view: "plain", "not_json" or "oversized".
semantic_consent_veto(view, answer, on_uncertain) ==
    /\ view = "plain"
    /\ \/ _parse(answer) = "informed_voluntary_competent"
       \/ _parse(answer) = "uncertain" /\ on_uncertain = "abstain"

\* DisclosureMatchJudge.judge, a blank purpose being "".
match_judge(disclosed, actual) ==
    IF disclosed = "" \/ actual = "" THEN "uncertain"
    ELSE IF disclosed # actual THEN "deceptive_or_coercive"
    ELSE "informed_voluntary_competent"

-------------------------------------------------------------------------------
(* Freedom Formal *)

\* constitution_sealed: whether the constitution has the digest that is expected.
LegitimacyClaim ==
    [action_id : STRING, actor_id : STRING, actor_is_machine : BOOLEAN, actor_has_human_owner : BOOLEAN,
     governs_humans : SUBSET Entities, claims_own_human : BOOLEAN, increases_machine_sovereignty : BOOLEAN,
     audit_bound : BOOLEAN, clears_audit_trail : BOOLEAN, known_audit_deadline : BOOLEAN,
     compulsory_guide : BOOLEAN, declares_new_formal_system : BOOLEAN, constitution_sealed : BOOLEAN,
     liability_shifted_to : STRING, socializes_loss : BOOLEAN, exit_blocked : BOOLEAN,
     return_to_freedom_blocked : BOOLEAN, is_ought_gap : BOOLEAN, guide_available : BOOLEAN,
     guide_opt_in : BOOLEAN, has_valid_capability : BOOLEAN]

check_a1_tawhid(c) ==
    /\ ~c.claims_own_human /\ c.governs_humans = {} /\ ~c.increases_machine_sovereignty
    /\ c.actor_is_machine => c.actor_has_human_owner

check_a2_maad(c) == c.audit_bound /\ ~c.clears_audit_trail /\ ~c.known_audit_deadline

check_a3_nubuwwat(c) ==
    /\ ~c.declares_new_formal_system /\ c.constitution_sealed /\ ~c.compulsory_guide
    /\ c.is_ought_gap /\ c.guide_available => c.guide_opt_in

check_a4_adl(c) == c.liability_shifted_to \in {"", c.actor_id} /\ ~c.socializes_loss

check_a5_imamat(c) ==
    /\ ~c.exit_blocked /\ ~c.return_to_freedom_blocked
    /\ c.is_ought_gap => c.guide_available

\* M2 and M3; M1 holds of every claim.
check_meta(c) == ~(c.audit_bound /\ c.clears_audit_trail) /\ ~c.declares_new_formal_system

Axioms(c) == check_a1_tawhid(c) /\ check_a2_maad(c) /\ check_a3_nubuwwat(c)
             /\ check_a4_adl(c) /\ check_a5_imamat(c)

\* FreedomFormalEvaluator.evaluate
formal_evaluate(c) == IF Axioms(c) /\ check_meta(c) THEN "ALLOW" ELSE "DENY"

\* compose_legitimacy_then_authority, its execute field.
compose(c) == formal_evaluate(c) = "ALLOW" /\ c.has_valid_capability

-------------------------------------------------------------------------------
(* The legitimacy seam.  A payload is [object, verdict, action_id,          *)
(* fail_closed]; object says whether it is a JSON object at all.            *)

_ALLOWED_VERDICTS == {"ALLOW", "DENY", "DEFER"}

\* What a legitimacy layer may hand over, whole or not.
PolicyDecision == [object : BOOLEAN, verdict : STRING, action_id : STRING, fail_closed : BOOLEAN]

ContractHolds(p) == p.object /\ p.verdict \in _ALLOWED_VERDICTS /\ p.action_id # ""
is_allow(decision) == decision.verdict = "ALLOW" /\ ~decision.fail_closed

\* The gate is reached with an explicit ALLOW for this very action.
enforce(g, decision, a, t) ==
    is_allow(decision) /\ decision.action_id = a.action_id /\ verify(g, a, t).permitted

\* enforce_legitimacy on a payload that has still to be parsed.
enforce_legitimacy(g, payload, a, t) == ContractHolds(payload) /\ enforce(g, payload, a, t)

decide_freedom_formal(c) ==
    [verdict |-> formal_evaluate(c), action_id |-> c.action_id,
     fail_closed |-> formal_evaluate(c) = "DENY"]

-------------------------------------------------------------------------------
(* NonInterferenceChecker.  A step is [read, write], the labels of what it  *)
(* reads and of what it writes.                                             *)

\* SecurityLattice.default: the labels that a label may flow into.
flows_to ==
    [label \in {"", "PUBLIC", "INTERNAL", "SECRET"} |->
        CASE label = "" -> {"", "PUBLIC", "INTERNAL", "SECRET"}
          [] label = "PUBLIC" -> {"PUBLIC", "INTERNAL", "SECRET"}
          [] label = "INTERNAL" -> {"INTERNAL", "SECRET"}
          [] label = "SECRET" -> {"SECRET"}]

\* A label the lattice does not know flows into itself.
can_flow(source, sink) ==
    IF source \in DOMAIN flows_to THEN sink \in flows_to[source] ELSE sink = source

\* Mutant: what earlier steps have read is forgotten.
check_action_on_its_own(checked, step) ==
    [checked EXCEPT !.passes =
        @ /\ \A sink \in step.write, source \in step.read : can_flow(source, sink)]

\* The labels read up to and with this step, and whether no write has been
\* refused; after a refusal no further step is looked at.
check_action(checked, step) ==
    LET read == checked.read_labels_so_far \cup step.read
    IN  IF ~checked.passes THEN checked
        ELSE [read_labels_so_far |-> read,
              passes |-> \A sink \in step.write, source \in read : can_flow(source, sink)]

check_plan(steps) ==
    LET checked[i \in 0 .. Len(steps)] ==
          IF i = 0 THEN [read_labels_so_far |-> {}, passes |-> TRUE] ELSE check_action(checked[i - 1], steps[i])
    IN  checked[Len(steps)].passes

-------------------------------------------------------------------------------
(* PersuasionBoundaryChecker.  urgent: whether the action's words press.    *)

_SENSITIVE_RTYPES == {"CREDENTIAL", "IDENTITY", "MODEL_WEIGHTS", "BEHAVIORAL_PROFILE",
                      "BIOLOGICAL_TELEMETRY", "DIGITAL_TWIN"}
Touched(a) == a.uses["read"] \cup a.uses["write"]

\* best_claim is None.
Unclaimed(g, e, r, op, t) == UsableClaims(g.claims, g.index, g.tokens, e, r, op, t) = {}

_s3_authority_amplification(g, a, t) ==
    Machine(a.actor) /\ \E u \in Uses(a) : u[1] # "delegate" /\ Unclaimed(g, a.actor, u[2], u[1], t)

criteria_fired(g, a, urgent, t) ==
    {k \in {"INFORMATION_ASYMMETRY", "URGENCY_FRAMING", "AUTHORITY_AMPLIFICATION",
            "SCOPE_MAXIMIZATION", "REVERSIBILITY_OBSCURING"} :
        CASE k = "INFORMATION_ASYMMETRY" -> \E u \in Uses(a) : TypeOf[u[2]] \in _SENSITIVE_RTYPES
          [] k = "URGENCY_FRAMING" -> urgent
          [] k = "AUTHORITY_AMPLIFICATION" -> _s3_authority_amplification(g, a, t)
          [] k = "SCOPE_MAXIMIZATION" ->
               /\ \A op \in Operations : a.uses[op] # {}
               /\ \E u \in Uses(a) : u[2].scope = << >>
          [] k = "REVERSIBILITY_OBSCURING" -> \E r \in Touched(a) : TypeOf[r] \in {"CREDENTIAL", "IDENTITY"}}

persuasion_check(g, a, urgent, t) ==
    LET k == Cardinality(criteria_fired(g, a, urgent, t))
    IN  [verdict |-> IF k >= 4 THEN "CRITICAL" ELSE IF k = 3 THEN "HIGH"
                     ELSE IF k = 2 THEN "SUSPICIOUS" ELSE "CLEAR",
         block |-> k >= 3]

-------------------------------------------------------------------------------
(* SeccompExecutor and SeccompCallGate.  A tool is [importable, outcome].   *)

allowlist_for_rights(rights) ==
    {"base"} \cup (IF rights \cap {"READ", "WRITE"} # {} THEN {"open"} ELSE {})
             \cup (IF "NETWORK" \in rights THEN {"socket"} ELSE {})
             \cup (IF "SPAWN" \in rights THEN {"clone", "execve"} ELSE {})

_run_direct(tool) == [success |-> tool.outcome = "returns", level |-> "NONE", reaches |-> {"any"}]

\* The filter is the read-only one whatever the caller holds; without the
\* library, or when it fails to load, the runner goes on without it.
_run_in_subprocess(tool, level, filtered) ==
    IF ~tool.importable THEN _run_direct(tool)
    ELSE [success |-> tool.outcome = "returns", level |-> level,
          reaches |-> IF level = "SECCOMP" /\ filtered THEN allowlist_for_rights({"READ"}) ELSE {"any"}]

run(tool, level, filtered) ==
    IF level = "NONE" THEN _run_direct(tool) ELSE _run_in_subprocess(tool, level, filtered)

\* tool: a sequence of at most one, empty for a name that is not registered.
\* The action is judged first; a tool that fails after it started is reported
\* as denied.
seccomp_execute(g, a, tool, level, filtered, t) ==
    LET runs == verify(g, a, t).permitted /\ tool # << >>
    IN  [answer |-> IF ~verify(g, a, t).permitted THEN "denied"
                    ELSE IF tool = << >> THEN "KeyError"
                    ELSE IF run(tool[1], level, filtered).success THEN "permitted" ELSE "denied",
         ran |-> runs]

===============================================================================
