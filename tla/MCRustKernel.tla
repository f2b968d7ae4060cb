----------------------------- MODULE MCRustKernel -----------------------------
(***************************************************************************)
(* An instance of the Rust kernel for TLC: a human, a machine, and a human *)
(* of the machine's name; one file under two scopes; plans and goal trees  *)
(* over labelled resources; registries that a C caller sends.              *)
(***************************************************************************)
EXTENDS RustKernel

alice == [name |-> "alice", kind |-> "HUMAN"]
bot == [name |-> "bot", kind |-> "MACHINE"]
botHuman == [name |-> "bot", kind |-> "HUMAN"]
aliceMachine == [name |-> "alice", kind |-> "MACHINE"]

File(scope, public, label, domain) ==
    [name |-> "data", rtype |-> "file", scope |-> scope, is_public |-> public,
     ifc_label |-> label, trust_domain |-> domain]
data == File("/", FALSE, "INTERNAL", Unlabelled)
nested == File("/a", FALSE, "PUBLIC", "east")
secret == File("/", TRUE, "SECRET", Unlabelled)
internal == File("/", TRUE, "INTERNAL", "east")

\* What a Python caller has in its place: no trust domain.
Untrusted(r) == [f \in DOMAIN r \ {"trust_domain"} |-> r[f]]

Offer(e, r, rights, conf, exp) ==
    [holder |-> e, resource |-> Untrusted(r), rights |-> rights, confidence |-> conf, expires_at |-> exp]

MCOffers == {Offer(alice, data, {"read", "delegate"}, 3, Never),
             Offer(alice, data, {"write", "delegate"}, 1, 0),
             Offer(botHuman, data, {"write"}, 3, Never),
             Offer(bot, nested, {"read"}, 2, 0)}
MCOwners == {<<bot, alice>>, <<bot, botHuman>>}

Request(e, reads, writes, flags, governs, domain) ==
    [actor |-> e, flags |-> flags, governs |-> governs, trust_domain |-> domain,
     uses |-> [op \in Operations |-> CASE op = "read" -> reads [] op = "write" -> writes
                                       [] OTHER -> {}]]
readSecret == Request(bot, {secret}, {}, {}, {}, Unlabelled)
readInternal == Request(bot, {internal, nested}, {}, {}, {}, "east")
writeData == Request(bot, {}, {data}, {}, {}, Unlabelled)
readAndWrite == Request(alice, {data}, {nested}, {}, {}, "west")
governing == Request(bot, {secret}, {}, {}, {alice}, Unlabelled)
flagged == Request(bot, {secret}, {}, {"coerces"}, {}, Unlabelled)

Python(a) == [actor |-> a.actor, flags |-> a.flags, governs |-> a.governs,
              uses |-> [op \in Operations |-> {Untrusted(r) : r \in a.uses[op]}]]
MCRequests == {Python(readInternal), Python(writeData), Python(readAndWrite), Python(governing)}
MCPlans == {<<readInternal, readSecret, writeData>>, <<readInternal, writeData>>, <<readAndWrite>>,
            <<readSecret, flagged, readSecret>>, <<writeData, writeData, governing>>}

Pair == with_subgoal(with_subgoal(leaf(readSecret), leaf(writeData)), leaf(readInternal))
Deep == with_subgoal(with_depth_limit(leaf(readSecret), 2), with_subgoal(leaf(readSecret), leaf(writeData)))
Shallow == with_subgoal(leaf(readSecret), with_depth_limit(leaf(readSecret), 1))
Refused == with_subgoal(with_depth_limit(leaf(readSecret), 1), Pair)
MCTrees == {Pair, Deep, Shallow, Refused, with_subgoal(Pair, leaf(readSecret))}

Claim(e, r, rights, domain) ==
    [holder |-> e, resource |-> r, rights |-> rights, confidence |-> 3, expires_at |-> Never,
     trust_domain |-> domain]
context == [name |-> "agent-ctx:kid", rtype |-> "execution_context", scope |-> "/",
            is_public |-> FALSE, ifc_label |-> "", trust_domain |-> Unlabelled]
Sent(claims, owners, grants) == [claims |-> claims, machine_owners |-> owners, grants |-> grants]
Input(registry, action) ==
    [null |-> FALSE, oversized |-> FALSE, utf8 |-> TRUE, parses |-> TRUE,
     registry |-> registry, action |-> action]

\* Owners in a circle; a context to spawn in; claims across domains, with a
\* grant for reading only and with none; the former beside one without a domain.
circle == Sent(<<Claim(bot, context, {"write"}, Unlabelled)>>,
               {<<bot, alice>>, <<aliceMachine, botHuman>>}, {})
domains == Sent(<<Claim(bot, nested, {"read", "write"}, "west"), Claim(bot, nested, {"read"}, "north")>>,
                {<<bot, alice>>}, {[from |-> "west", to |-> "east", ops |-> {"read"}]})
partial == Sent(<<Claim(bot, nested, {"read", "write"}, "west"), Claim(bot, nested, {"read"}, Unlabelled)>>,
                {<<bot, alice>>}, [from : {"west"}, to : {"east"}, ops : {{"read"}}])
MCInputs == {Input(circle, readSecret), Input(partial, readInternal), Input(domains, readInternal),
             Input(domains, Request(bot, {}, {nested}, {}, {}, "west")),
             [Input(circle, readSecret) EXCEPT !.parses = FALSE],
             [Input(circle, readSecret) EXCEPT !.utf8 = FALSE],
             [Input(circle, readSecret) EXCEPT !.null = TRUE]}

\* Longer with every violation.
Length(result) == 2 + Cardinality(result.violations)
===============================================================================
