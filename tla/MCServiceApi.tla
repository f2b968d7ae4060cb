----------------------------- MODULE MCServiceApi ------------------------------
(***************************************************************************)
(* Two threads; alice and dave, of whom either may be registered as the    *)
(* owner of bob; a stranger that calls itself bob.                         *)
(***************************************************************************)
EXTENDS ServiceApi

alice == [name |-> "alice", kind |-> "HUMAN", identity_token |-> "ta"]
dave == [name |-> "dave", kind |-> "HUMAN", identity_token |-> NoOne]
bob == [name |-> "bob", kind |-> "MACHINE", identity_token |-> "tb"]
stranger == [name |-> "bob", kind |-> "MACHINE", identity_token |-> NoOne]

data == [name |-> "data", scope |-> << >>, is_public |-> FALSE]

Offer(e, rights) ==
    [holder |-> e, resource |-> data, rights |-> rights, confidence |-> 1, expires_at |-> Never]
RWD == {"read", "write", "delegate"}

Write(e) == [actor |-> e, uses |-> [op \in Operations |-> IF op = "write" THEN {data} ELSE {}],
             governs |-> {}, flags |-> {}, min_epoch |-> 0]

MCEntities == {alice, dave, bob, stranger}
MCResources == {data}
MCOffers == {Offer(alice, RWD), Offer(dave, {"write"}), Offer(bob, {"write"}),
             Offer(stranger, {"write"}), Offer(bob, RWD)}
MCRegistrations == {<<bob, alice>>, <<bob, dave>>}

MCRequests ==
    {[kind |-> "machine", machine |-> p[1], owner |-> p[2]] : p \in MCRegistrations}
    \cup {[kind |-> "claim", offer |-> o] : o \in {Offer(alice, RWD), Offer(dave, {"write"}), Offer(bob, RWD)}}
    \cup {[kind |-> "delegate", offer |-> o] : o \in {Offer(bob, {"write"}), Offer(stranger, {"write"})}}
    \cup {[kind |-> "verify", action |-> Write(bob)], [kind |-> "resolve", index |-> -1]}
===============================================================================
