----------------------------- MODULE MCPolicyHost ------------------------------
(***************************************************************************)
(* Two humans and two machines; a directory, a part of it, a profile that  *)
(* is not in any directory, and public news.                               *)
(***************************************************************************)
EXTENDS PolicyHost

alice == [name |-> "alice", kind |-> "HUMAN", identity_token |-> "ta"]
dave == [name |-> "dave", kind |-> "HUMAN", identity_token |-> NoOne]
bob == [name |-> "bob", kind |-> "MACHINE", identity_token |-> NoOne]
carol == [name |-> "carol", kind |-> "MACHINE", identity_token |-> NoOne]

data == [name |-> "data", scope |-> <<"data">>, is_public |-> FALSE]
part == [name |-> "part", scope |-> <<"data", "part">>, is_public |-> FALSE]
profile == [name |-> "profile", scope |-> << >>, is_public |-> FALSE]
news == [name |-> "news", scope |-> <<"news">>, is_public |-> TRUE]

MCEntities == {alice, dave, bob, carol}
MCResources == {data, part, profile, news}
MCTypeOf == [r \in MCResources |-> IF r = profile THEN "IDENTITY" ELSE IF r = news THEN "MESSAGE_CHANNEL" ELSE "FILE"]
MCPersonal == {profile}
MCMatches == {<<"alice", "a">>, <<"bob", "bob">>, <<"bob", "b">>}
MCCharacters == [s \in {r.scope : r \in MCResources} |-> IF s = << >> THEN 0 ELSE 5 * Len(s)]
MCRegistrations == {<<bob, alice>>, <<carol, dave>>}

Offer(e, r, rights, conf, exp) ==
    [holder |-> e, resource |-> r, rights |-> rights, confidence |-> conf, expires_at |-> exp]
RW == {"read", "write"}
RWD == {"read", "write", "delegate"}

\* Claims on files, one of which expires.
FileOffers == {Offer(alice, data, RWD, 2, Never), Offer(bob, data, RWD, 2, 0),
               Offer(bob, part, RW, 2, Never), Offer(carol, part, {"read"}, 1, Never)}
\* Claims on the profile of which machines may come to hold more than people.
ProfileOffers == {Offer(e, profile, RWD, 2, Never) : e \in {alice, dave, bob}}
                 \cup {Offer(alice, profile, {"delegate"}, 1, Never)}
\* A chain of machines.
ChainOffers == {Offer(alice, data, RWD, 1, Never), Offer(bob, data, RWD, 1, Never),
                Offer(carol, data, RWD, 1, Never), Offer(carol, profile, RW, 1, 3)}
\* What a machine may do to the profile, with one claim and with two.
BobOffers == {Offer(bob, profile, RWD, 2, Never), Offer(bob, data, RWD, 2, 0)}
MCOffers == FileOffers \cup ProfileOffers \cup ChainOffers

On(R, W, D) == [op \in Operations |-> CASE op = "read" -> R [] op = "write" -> W [] op = "delegate" -> D]
Action(id, e, uses) ==
    [action_id |-> id, actor |-> e, uses |-> uses, governs |-> {}, flags |-> {}, min_epoch |-> 0]
MCActions == {Action("x", bob, On({data}, {part}, {})), Action("y", carol, On({part, news}, {}, {})),
              Action("z", bob, On({}, {profile}, {data})), Action("x", carol, On({data}, {}, {})),
              Action("w", bob, On({profile}, {profile}, {profile}))}

Rule(effect, ops, pattern, scope, priority) ==
    [effect |-> effect, operations |-> ops, actor_pattern |-> pattern, resource_scope |-> scope,
     priority |-> priority]
MCPolicies ==
    {[rules |-> rs, default_effect |-> d] :
        rs \in {<< >>, <<Rule("deny", {"write"}, "", <<"data", "part">>, 1), Rule("permit", {}, "b", <<"data">>, 1)>>,
                <<Rule("permit", {}, "", <<"data">>, 1), Rule("deny", {}, "bob", << >>, 2)>>},
        d \in {"permit", "deny"}}

Goal(e, R, W, above) == [actor |-> e, uses |-> On(R, W, {}), parent |-> above]
MCGoalTrees ==
    {<<Goal(e, R, {}, 0), Goal(f, {data}, {}, 1), Goal(f, S, {}, 2), Goal(e, {}, {}, 3)>> :
        e \in {alice, bob}, f \in {alice, bob}, R \in {{data}, {data, news}}, S \in {{news}, {data}}}
    \cup {<<Goal(bob, {data}, {part}, 0), Goal(carol, {part}, {}, 1), Goal(bob, {}, {part}, 1)>>}

MCDecisions ==
    [object : {TRUE}, verdict : {"ALLOW", "DENY"}, action_id : {"x", ""}, fail_closed : BOOLEAN]
    \cup {[object |-> FALSE, verdict |-> "ALLOW", action_id |-> "x", fail_closed |-> FALSE],
          [object |-> TRUE, verdict |-> "allow", action_id |-> "x", fail_closed |-> FALSE]}

MCAnnotations ==
    {[claim |-> Offer(bob, data, RWD, 2, Never), consent_required |-> r, given_by |-> h, expires_at |-> x,
      scope |-> s] : r \in BOOLEAN, h \in {NoOne, alice, carol}, x \in {Never, 0, 1},
                     s \in {<< >>, <<"data">>, <<"news">>}}

Step(id, name, R, W, deps) ==
    [step_id |-> id, actor_name |-> name, uses |-> On(R, W, {}), depends_on |-> deps]
MCAgentPlans == {<<Step("s1", "bob", {data}, {data}, << >>), Step("s2", "carol", {data}, {}, <<"s1">>)>>,
                 <<Step("s1", "bob", {}, {profile}, << >>)>>,
                 <<Step("s1", "carol", {data}, {}, << >>), Step("s2", "bob", {profile}, {}, << >>)>>}

-------------------------------------------------------------------------------
(* Inputs *)

MCKeywords == [mild |-> 30, strong |-> 72]
MCPatterns == [appeal |-> 45, threat |-> 90]
MCArguments == [blank : BOOLEAN, keywords : SUBSET DOMAIN MCKeywords, patterns : SUBSET DOMAIN MCPatterns]
MCSpoken == {x \in MCArguments : ~x.blank /\ x.patterns = {} /\ Cardinality(x.keywords) < 2}

Line(indented, word, arg) == [indented |-> indented, word |-> word, arg |-> arg]
MCLines == {Line(FALSE, "ALLOW", <<"b">>), Line(FALSE, "DENY", <<"*">>), Line(FALSE, "ALLOW", <<"bob", "carol">>),
            Line(TRUE, "read", <<"data">>), Line(TRUE, "write", << >>),
            Line(TRUE, "EXPIRES", <<"soon">>), Line(TRUE, "UNLESS", <<"revoked">>), Line(FALSE, "", << >>)}
\* Every text of up to four lines.
MCTexts == UNION {[1 .. n -> MCLines] : n \in 0 .. 4}

BaseClaim ==
    [action_id |-> "x", actor_id |-> "bob", claims_own_human |-> FALSE, governs_humans |-> {},
     increases_machine_sovereignty |-> FALSE, actor_is_machine |-> TRUE, actor_has_human_owner |-> TRUE,
     audit_bound |-> TRUE, clears_audit_trail |-> FALSE, known_audit_deadline |-> FALSE,
     declares_new_formal_system |-> FALSE, constitution_sealed |-> TRUE, compulsory_guide |-> FALSE,
     is_ought_gap |-> FALSE, guide_available |-> FALSE, guide_opt_in |-> FALSE,
     liability_shifted_to |-> "", socializes_loss |-> FALSE, exit_blocked |-> FALSE,
     return_to_freedom_blocked |-> FALSE, has_valid_capability |-> TRUE]
Flags == DOMAIN BaseClaim \ {"action_id", "actor_id", "governs_humans", "liability_shifted_to"}
MCFormalClaims ==
    {[f \in DOMAIN BaseClaim |-> CASE f \in flipped -> ~BaseClaim[f] [] f = "governs_humans" -> humans
                                   [] f = "liability_shifted_to" -> liable [] OTHER -> BaseClaim[f]] :
        flipped \in {{f, h} : f, h \in Flags} \cup {{}}, humans \in {{}, {alice}}, liable \in {"", "bob", "alice"}}

Vote(k, level, d, ok, age) ==
    [kernel_id |-> k, trust_level |-> level, decision |-> d, commitment_ok |-> ok, age |-> age]
MCVotes == {Vote("k1", 3, d, TRUE, 0) : d \in {PERMIT, DENY, ABSTAIN}}
           \cup {Vote("k2", 4, d, TRUE, age) : d \in {PERMIT, DENY}, age \in {300, 301}}
           \cup {Vote("k3", 5, DENY, TRUE, 0), Vote("k1", 5, DENY, FALSE, 0)}

MCDependencies == {<< >>, <<"s1">>, <<"s2">>, <<"s3">>, <<"s1", "s2">>, <<"s3", "s2">>, <<"s1", "s1">>, <<"s4", "s4">>}
MCPlans == {[i \in 1 .. 3 |-> Step(<<"s1", "s2", "s3">>[i], "bob", {}, {}, d[i])] :
               d \in [1 .. 3 -> MCDependencies]}

\* Steps of a plan of alice's, who may read the news, and the labels they touch.
Flagged(a, flags) == [a EXCEPT !.flags = flags]
MCSteps == <<Action("x", alice, On({news}, {}, {})), Action("y", alice, On({news}, {}, {})),
             Action("x", alice, On({data}, {}, {})), Action("y", alice, On({}, {data}, {})),
             Flagged(Action("z", alice, On({news}, {}, {})), {"bypasses_verifier"}), Action("z", alice, On({}, {}, {}))>>
MCLabels == <<[read |-> {"PUBLIC", ""}, write |-> {"INTERNAL"}], [read |-> {"SECRET"}, write |-> {}],
              [read |-> {}, write |-> {"PUBLIC", "INTERNAL"}], [read |-> {"INTERNAL"}, write |-> {"SECRET"}],
              [read |-> {"EYES"}, write |-> {"EYES"}], [read |-> {}, write |-> {"EYES", ""}]>>

MCRivals == {Offer(bob, r, rights, conf, Never) : r \in MCResources, rights \in {{"read"}, RW}, conf \in {1, 2}}

MCWorlds == [rights_violations : 0 .. 1, voluntary_agreements : {0}, coercive_acts : 0 .. 1,
             ownership_ambiguities : {0, 2}, machine_sovereignty_incidents : 0 .. 1]

MCRules == {<< >>, [no_coercion |-> FALSE], [no_coercion |-> TRUE, no_deception |-> TRUE],
            [no_coercion |-> TRUE, no_deception |-> FALSE]}
\* Hooks that propose more the more is admitted already.
MCHook == [n \in 0 .. 4 |-> [i \in 1 .. n |-> IF i = 1 THEN [no_coercion |-> FALSE] ELSE << >>]]

\* Tools behind each adapter.
Tool(adapter, e, R, W, D) == [adapter |-> adapter, agent |-> e, read |-> R, write |-> W, delegate |-> D]
MCTools == [report |-> Tool("autogen", bob, {}, {part}, {}), fetch |-> Tool("autogen", bob, {data}, {}, {}),
            node |-> Tool("langgraph", carol, {part}, {}, {}), handler |-> Tool("mcp", bob, {}, {}, {data}),
            task |-> Tool("crewai", bob, {}, {part}, {}), chain |-> Tool("langchain", bob, {data}, {}, {}),
            module |-> Tool("dspy", bob, {data}, {}, {})]

MCJobs ==
    {[kind |-> "registry", offers |-> FileOffers, claims |-> 2, until |-> 1],
     [kind |-> "registry", offers |-> BobOffers, claims |-> 2, until |-> 1],
     [kind |-> "survey", offers |-> ProfileOffers, claims |-> 4, until |-> 0],
     [kind |-> "survey", offers |-> ChainOffers, claims |-> 3, until |-> 0],
     [kind |-> "tools", offers |-> FileOffers, claims |-> 2, until |-> 1, tools |-> MCTools],
     [kind |-> "governance", nodes |-> {"n1", "n2", "n3", "n4"}]}
    \cup {[kind |-> "text", text |-> x] : x \in MCTexts}
    \cup {[kind |-> "argument", argument |-> x] : x \in MCArguments}
    \cup {[kind |-> "formal", formal |-> x] : x \in MCFormalClaims}
    \cup {[kind |-> "purpose", disclosed |-> x, actual |-> y] : x, y \in {"", "care", "sale"}}
    \cup {[kind |-> "votes", votes |-> x] : x \in UNION {[1 .. n -> MCVotes] : n \in 0 .. 3}}
    \cup {[kind |-> "plan", plan |-> x] : x \in MCPlans}
    \cup {[kind |-> "steps", steps |-> [i \in 1 .. 3 |-> MCSteps[x[i]]], labels |-> [i \in 1 .. 3 |-> MCLabels[x[i]]]] :
              x \in [1 .. 3 -> 1 .. 6]}
    \cup {[kind |-> "conflict", rivals |-> x] : x \in MCRivals \X MCRivals}
    \cup {[kind |-> "worlds", worlds |-> x] : x \in MCWorlds \X MCWorlds \X MCWorlds}
    \cup {[kind |-> "rules", rules |-> x, hooks |-> h] : x \in MCRules \X MCRules, h \in {<< >>, <<MCHook, MCHook>>}}
    \cup {[kind |-> "commitments", offered |-> x, expiries |-> y] :
              x \in [1 .. 3 -> {"c1", "c2"}], y \in [1 .. 3 -> {Never, 0, 1}]}
===============================================================================
