------------------------- MODULE MCOwnershipRegistry --------------------------
(***************************************************************************)
(* The registry for TLC: a human, an impostor of hers, two machines, and a *)
(* resource asked for under two scopes, one within the other.              *)
(***************************************************************************)
EXTENDS OwnershipRegistry

alice == [name |-> "alice", kind |-> "HUMAN", identity_token |-> "ta"]
bob == [name |-> "bob", kind |-> "MACHINE", identity_token |-> NoOne]
carol == [name |-> "carol", kind |-> "MACHINE", identity_token |-> NoOne]
notAlice == [name |-> "alice", kind |-> "HUMAN", identity_token |-> NoOne]

dir == [name |-> "data", scope |-> <<"data">>, is_public |-> FALSE]
wide == [name |-> "data", scope |-> << >>, is_public |-> FALSE]

Offer(e, r, rights, conf, exp) ==
    [holder |-> e, resource |-> r, rights |-> rights, confidence |-> conf,
     expires_at |-> exp]

RW == {"read", "write"}
RWD == {"read", "write", "delegate"}

\* A claim of each principal, alice's on the wide scope, and a second one of bob's
\* that gives less and stays longer.
MCEntities == {alice, bob, carol, notAlice}
MCResources == {dir, wide}
MCOffers == {Offer(alice, wide, RWD, 2, Never), Offer(bob, dir, RWD, 2, 0),
             Offer(bob, dir, {"read", "delegate"}, 1, Never),
             Offer(carol, dir, RW, 1, Never)}
MCRegistrations == {<<bob, notAlice>>}
===============================================================================
