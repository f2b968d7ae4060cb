---------------------------- MODULE MCTaskExecution ----------------------------
(***************************************************************************)
(* Two workers and an agent host: bob, a machine of alice's with a claim   *)
(* that he has partly delegated to carol.                                  *)
(***************************************************************************)
EXTENDS TaskExecution, TLC

alice == [name |-> "alice", kind |-> "HUMAN", identity_token |-> "ta"]
bob == [name |-> "bob", kind |-> "MACHINE", identity_token |-> NoOne]
carol == [name |-> "carol", kind |-> "MACHINE", identity_token |-> "tc"]

data == [name |-> "data", scope |-> << >>, is_public |-> FALSE]
site == [name |-> "site", scope |-> << >>, is_public |-> FALSE]

Held(n, e, r, rights, by, exp) ==
    [obj |-> n, holder |-> e, resource |-> r, rights |-> rights, confidence |-> 1,
     expires_at |-> exp, delegated_by |-> by]

MCEntities == {alice, bob, carol}
MCSubAgents == {carol}
MCRootAgent == bob
MCResources == {data, site}
MCClaims == {Held(1, bob, data, {"read", "write", "delegate"}, NoOne, 0),
             Held(2, carol, data, {"read", "write"}, bob, Never),
             Held(3, carol, site, {"read"}, NoOne, Never)}
MCTokens == (<<"alice", "HUMAN">> :> "ta") @@ (<<"bob", "MACHINE">> :> NoOne)
            @@ (<<"carol", "MACHINE">> :> "tc")
MCOwners == (bob :> alice) @@ (carol :> alice)
MCTypeRights == (data :> {}) @@ (site :> {"network"})
MCHardened == [epoch_floor |-> 1, min_confidence |-> 1, require_identity |-> TRUE,
               catalog |-> << >>]

MCSchemas ==
    ("save" :> [required_rights |-> {"write"}, is_delegable |-> FALSE, params |-> {"path"},
                required |-> {"path"}, allowed |-> [p \in {"path"} |-> {"inside"}]])
    @@ ("fetch" :> [required_rights |-> {"read", "network"}, is_delegable |-> TRUE,
                    params |-> {}, required |-> {}, allowed |-> << >>])
    @@ ("gone" :> [required_rights |-> {"read"}, is_delegable |-> TRUE,
                   params |-> {}, required |-> {}, allowed |-> << >>])

\* An action of e with one use of a resource.
Use(e, op, r, id) ==
    [actor |-> e, action_id |-> id, governs |-> {}, flags |-> {}, min_epoch |-> 0,
     uses |-> [o \in Operations |-> IF o = op THEN {r} ELSE {}]]

Call(kind, ctx, action, tool, args) ==
    [kind |-> kind, ctx |-> ctx, action |-> action, tool |-> tool, args |-> args]
inside == [p \in {"path"} |-> "inside"]
outside == [p \in {"path"} |-> "outside"]

Plain(kind, ctx, e) == Call(kind, ctx, Use(e, "write", data, "a1"), "none", << >>)

Save(kind, e, op, args) == Call(kind, 1, Use(e, op, data, "a1"), "save", args)

\* Tools, replays, tasks and consents.
MCCalls ==
    {Save("gate", bob, "write", inside), Save("gate", bob, "read", inside),
     Save("sandbox", bob, "write", outside), Save("sandbox", carol, "write", inside),
     Call("sandbox", 1, Use(carol, "read", site, "a2"), "fetch", << >>),
     Call("sandbox", 1, Use(carol, "read", site, "a2"), "gone", << >>)}
    \cup {Plain("context", 2, carol), Plain("hardened", 1, carol), Plain("consent", 1, carol)}

Consent(ctx, exp) ==
    [grantor |-> alice, grantee |-> carol, resource |-> data, operations |-> {"write"},
     expires_at |-> exp, context_id |-> ctx]
MCConsents == {Consent(NoOne, 1), Consent(1, 2)}
MCLeaseRequests == {[subject |-> "bob", resource |-> data, rights |-> {"read"}],
                    [subject |-> "bob", resource |-> site, rights |-> {"delegate"}]}

MCSymmetry == Permutations(Workers)
===============================================================================
