----------------------------- MODULE RustRegistry -----------------------------
(***************************************************************************)
(* The ownership registry of the Rust extension (registry.rs), live and    *)
(* frozen, and the requests a FreedomVerifier (verifier.rs) makes of the    *)
(* engine over either of them.                                             *)
(*                                                                         *)
(* Every method holds the interpreter's lock from its first check to its   *)
(* last assignment, so each is one action.  The conflict hook is called     *)
(* after the claim is in place; one that raises makes add_claim report an  *)
(* error and leaves the registry as it would be without it.                *)
(***************************************************************************)
EXTENDS KernelEngine, Functions

CONSTANTS
    Offers,      \* claims callers build
    Owners,      \* pairs <<machine, owner>> given to register_machine
    Requests,    \* actions put to the verifier
    MaxClaims,   \* bound: claims inserted
    MaxTime      \* bound: the clock

-------------------------------------------------------------------------------
(* The types of the extension, as Python callers see them *)

AgentType == {"HUMAN", "MACHINE"}

\* Two entities are one if their names and kinds are; what else Python hangs on
\* an entity is left out.
Entity == [name : STRING, kind : AgentType]

ResourceType ==
    {"file", "api_endpoint", "database_table", "network_endpoint", "compute_slot",
     "message_channel", "credential", "model_weights", "dataset", "memory_region"}

Resource == [name : STRING, rtype : ResourceType, scope : STRING, is_public : BOOLEAN, ifc_label : STRING]

RightsClaim ==
    [holder : Entity, resource : Resource, rights : SUBSET Operations, confidence : Nat,
     expires_at : {Never} \cup Nat]

Action ==
    [actor : Entity, uses : [Operations -> SUBSET Resource], governs : SUBSET Entity,
     flags : SUBSET Sovereignty]

ASSUME RegistryAssumption ==
    /\ MaxClaims \in Nat /\ MaxTime \in Nat
    /\ Offers \subseteq RightsClaim
    /\ Owners \subseteq Entity \X Entity
    /\ Requests \subseteq Action
    /\ ResourceType \subseteq STRING \* of literals, for which provers have no rule

VARIABLES
    reg,       \* registries by name, "live" and, once taken, "snapshot":
               \*   [claims, machine_owners, conflicts, frozen], the claims
               \*   under their numbers in order of insertion
    now,       \* SystemTime::now
    inserted,  \* number of claims inserted so far
    asserted   \* history: every offer a caller has had accepted by add_claim

vars == <<reg, now, inserted, asserted>>

-------------------------------------------------------------------------------
(* Keys and claims *)

ResourceKey == [name : STRING, rtype : ResourceType, scope : STRING, is_public : BOOLEAN]

HeldClaim ==
    [holder : Entity, resource : ResourceKey, rights : SUBSET Operations, confidence : Nat,
     expires_at : {Never} \cup Nat]

\* The resource, who held it and who came second; Python sees the same.
ConflictEntry == ResourceKey \X Entity \X Entity

\* The label takes no part in the identity of a resource.
resource_to_key(r) == [name |-> r.name, rtype |-> r.rtype, scope |-> r.scope, is_public |-> r.is_public]

ClaimEntry(o) == [holder |-> o.holder, resource |-> resource_to_key(o.resource), rights |-> o.rights,
                  confidence |-> o.confidence, expires_at |-> o.expires_at]

Names == {o.holder.name : o \in Offers}
ResourceNames == {o.resource.name : o \in Offers}

\* Positions of the write claims that a new one conflicts with.
Conflicting(R, c) ==
    {i \in DOMAIN R.claims : /\ R.claims[i].resource = c.resource
                             /\ R.claims[i].holder # c.holder
                             /\ "write" \in R.claims[i].rights \cap c.rights
                             /\ claim_valid(R.claims[i], now)}

\* The first of them is the one on record.
detect_conflict(R, c) == LeastOf(Conflicting(R, c))

Insert(R, c) ==
    [R EXCEPT !.claims = [n \in DOMAIN @ \cup {inserted + 1} |-> IF n = inserted + 1 THEN c ELSE @[n]],
              !.conflicts = IF Conflicting(R, c) = {} THEN @
                            ELSE Append(@, <<c.resource, R.claims[detect_conflict(R, c)].holder, c.holder>>)]

-------------------------------------------------------------------------------
(* Attenuation *)

Delegatable(R, by, r) ==
    {i \in DOMAIN R.claims : /\ R.claims[i].holder = by
                             /\ R.claims[i].resource = r
                             /\ "delegate" \in R.claims[i].rights
                             /\ claim_valid(R.claims[i], now)}

\* The first of the most confident.
BestOf(R, I) ==
    LET top == {i \in I : \A j \in I : R.claims[j].confidence <= R.claims[i].confidence}
    IN  R.claims[LeastOf(top)]

\* Mutant: the rights of all the delegator's claims are added up.
Attenuated_over_all(R, c, by) ==
    LET I == Delegatable(R, by, c.resource)
    IN  /\ I # {}
        /\ c.rights \subseteq UNION {R.claims[i].rights : i \in I}
        /\ c.confidence <= BestOf(R, I).confidence

\* A new claim stays within one claim of its delegator, confidence included
\* (the slack of 1e-9 in the comparison is below the grain of the model).
Attenuated(R, c, by) ==
    LET I == Delegatable(R, by, c.resource)
    IN  /\ I # {}
        /\ c.rights \subseteq BestOf(R, I).rights
        /\ c.confidence <= BestOf(R, I).confidence

-------------------------------------------------------------------------------
(* What callers may ask of the registry itself *)

covers(c, op) == claim_valid(c, now) /\ op \in c.rights

\* Holders and resources count here with all of their key.
claims_for(R, holder, r) ==
    {i \in DOMAIN R.claims : /\ R.claims[i].holder = holder
                             /\ R.claims[i].resource = resource_to_key(r)
                             /\ claim_valid(R.claims[i], now)}

\* RegistryInner::can_act: a confidence, 0 for no.
registry_can_act(R, holder, r, op) ==
    LET I == {i \in claims_for(R, holder, r) : covers(R.claims[i], op)}
    IN  CASE r.is_public /\ op = "read" -> Full
          [] ~(r.is_public /\ op = "read") /\ I = {} -> 0
          [] OTHER -> MostOf({R.claims[i].confidence : i \in I})

\* None, or the one owner.
owner_of(R, machine) == {mo[2] : mo \in {x \in R.machine_owners : x[1] = machine}}

-------------------------------------------------------------------------------
(* The binding: what the engine is shown *)

\* Trust domains are not carried over from Python objects.
resource_wire(r) ==
    [name |-> r.name, rtype |-> r.rtype, scope |-> r.scope, is_public |-> r.is_public,
     ifc_label |-> r.ifc_label, trust_domain |-> Unlabelled]

action_wire(a) ==
    [actor |-> a.actor, governs |-> a.governs, flags |-> a.flags, trust_domain |-> Unlabelled,
     uses |-> [op \in Operations |-> {resource_wire(r) : r \in a.uses[op]}]]

\* Neither they nor labels are kept in the registry.
claim_wire(c) ==
    [holder |-> c.holder, rights |-> c.rights, confidence |-> c.confidence, expires_at |-> c.expires_at,
     resource |-> [name |-> c.resource.name, rtype |-> c.resource.rtype, scope |-> c.resource.scope,
                   is_public |-> c.resource.is_public, ifc_label |-> "", trust_domain |-> Unlabelled],
     trust_domain |-> Unlabelled]

registry_wire(R) ==
    [claims |-> [i \in DOMAIN R.claims |-> claim_wire(R.claims[i])],
     machine_owners |-> R.machine_owners, grants |-> {}]

Answer(R, a, t) == verify(registry_wire(R), action_wire(a), t)

-------------------------------------------------------------------------------
\* The claims whose number is not in N.
Without(R, N) == [R EXCEPT !.claims = Restrict(@, DOMAIN @ \ N)]

Empty == [claims |-> << >>, machine_owners |-> {}, conflicts |-> << >>, frozen |-> FALSE]

\* RegistryInner::new: a live registry that holds nothing.
Init == reg = [which \in {"live"} |-> Empty] /\ now = 0 /\ inserted = 0 /\ asserted = {}

\* Mutant: the flag is not looked at.
Mutable_frozen_too(which) == which \in DOMAIN reg

\* What every mutator but expire_stale asks first.
Mutable(which) == which \in DOMAIN reg /\ ~reg[which].frozen

add_claim(which, o) ==
    /\ Mutable(which) /\ inserted < MaxClaims
    /\ reg' = [reg EXCEPT ![which] = Insert(@, ClaimEntry(o))]
    /\ asserted' = asserted \cup {o}
    /\ inserted' = inserted + 1
    /\ UNCHANGED now

delegate(which, o, by) ==
    /\ Mutable(which) /\ inserted < MaxClaims
    /\ Attenuated(reg[which], ClaimEntry(o), by)
    /\ reg' = [reg EXCEPT ![which] = Insert(@, ClaimEntry(o))]
    /\ inserted' = inserted + 1
    /\ UNCHANGED <<now, asserted>>

\* A second registration replaces the owner.
register_machine(which, machine, owner) ==
    /\ Mutable(which)
    /\ machine.kind = "MACHINE" /\ owner.kind = "HUMAN"
    /\ reg' = [reg EXCEPT ![which].machine_owners =
                   {mo \in @ : mo[1] # machine} \cup {<<machine, owner>>}]
    /\ UNCHANGED <<now, inserted, asserted>>

revoke_all(which, name) ==
    /\ Mutable(which)
    /\ LET C == reg[which].claims
       IN  reg' = [reg EXCEPT ![which] = Without(@, {n \in DOMAIN C : C[n].holder.name = name})]
    /\ UNCHANGED <<now, inserted, asserted>>

revoke_on_resource(which, name, resource) ==
    /\ Mutable(which)
    /\ LET C == reg[which].claims
       IN  reg' = [reg EXCEPT ![which] =
                      Without(@, {n \in DOMAIN C : C[n].holder.name = name /\ C[n].resource.name = resource})]
    /\ UNCHANGED <<now, inserted, asserted>>

\* The stack of names to revoke never grows beyond the one it starts with.
revoke_cascading(which, name) == revoke_all(which, name)

\* Frozen registries too, and a claim goes at the instant it is still valid.
expire_stale(which) ==
    /\ which \in DOMAIN reg
    /\ LET C == reg[which].claims
       IN  reg' = [reg EXCEPT ![which] =
                      Without(@, {n \in DOMAIN C : C[n].expires_at # Never /\ C[n].expires_at <= now})]
    /\ UNCHANGED <<now, inserted, asserted>>

freeze ==
    /\ reg' = [which \in {"live", "snapshot"} |->
                  IF which = "live" THEN reg["live"] ELSE [reg["live"] EXCEPT !.frozen = TRUE]]
    /\ UNCHANGED <<now, inserted, asserted>>

Tick == now < MaxTime /\ now' = now + 1 /\ UNCHANGED <<reg, inserted, asserted>>

Next ==
    \/ \E which \in {"live", "snapshot"} :
        \/ \E o \in Offers : add_claim(which, o)
        \/ \E o \in Offers, d \in Offers : delegate(which, o, d.holder)
        \/ \E mo \in Owners : register_machine(which, mo[1], mo[2])
        \/ \E name \in Names : revoke_all(which, name) \/ revoke_cascading(which, name)
        \/ \E name \in Names, r \in ResourceNames : revoke_on_resource(which, name, r)
        \/ expire_stale(which)
    \/ freeze
    \/ Tick

Spec == Init /\ [][Next]_vars

-------------------------------------------------------------------------------
(* Properties *)

\* The claims stand under some of the numbers given out so far.
RegistryInner(R) ==
    /\ DOMAIN R = {"claims", "machine_owners", "conflicts", "frozen"}
    /\ DOMAIN R.claims \subseteq 1 .. inserted
    /\ \A n \in DOMAIN R.claims : R.claims[n] \in HeldClaim
    /\ R.machine_owners \subseteq Entity \X Entity
    /\ R.conflicts \in Seq(ConflictEntry)

\* The type invariant: a registry and perhaps a snapshot, of which only the
\* snapshot is frozen.
TypeOK ==
    /\ DOMAIN reg \in {{"live"}, {"live", "snapshot"}}
    /\ \A which \in DOMAIN reg : RegistryInner(reg[which]) /\ reg[which].frozen = (which = "snapshot")
    /\ now \in 0 .. MaxTime /\ inserted \in 0 .. MaxClaims /\ asserted \subseteq Offers

\* Every answer of a verifier is a result of at most full confidence, of none
\* exactly when some use was denied, and of less than the threshold wherever it
\* warns; it calls for a human only where it warns (engine.rs verify, can_act,
\* wire.rs VerificationResultWire).
AnswersAreResults ==
    \A which \in DOMAIN reg, a \in Requests :
        LET result == Answer(reg[which], a, now)
        IN  /\ result \in VerificationResultWire
            /\ result.confidence <= Full
            /\ result.confidence = 0 <=> \E v \in result.violations : v[1] = "DENIED"
            /\ result.warnings # {} => result.confidence < Warn
            /\ result.requires_human_arbitration => result.warnings # {}

\* What the verifier permits, over the live registry or a snapshot, rests on
\* rights that a caller asserted: for every use there is an asserted offer on
\* the same name and type with that right and at least the answer's confidence,
\* whatever was delegated, replaced or expired since (registry.rs delegate,
\* engine.rs can_act).
PermitsAreAsserted ==
    \A which \in DOMAIN reg, a \in Requests :
        LET result == Answer(reg[which], a, now)
        IN  result.permitted =>
              \A u \in Uses(a) :
                  \/ u[1] = "read" /\ u[2].is_public
                  \/ \E o \in asserted : /\ o.resource.name = u[2].name
                                         /\ o.resource.rtype = u[2].rtype
                                         /\ u[1] \in o.rights
                                         /\ o.confidence >= result.confidence

Snapshot == IF "snapshot" \in DOMAIN reg THEN reg["snapshot"] ELSE Empty

\* What a verifier over the snapshot permits.
Permitted == {a \in Requests : Answer(Snapshot, a, now).permitted}

\* A frozen registry only loses: what it refuses it goes on refusing until
\* another snapshot is taken (registry.rs freeze and the mutators' checks).
SnapshotNeverGains ==
    [][UNCHANGED <<Snapshot, now>> \/ freeze \/ Permitted' \subseteq Permitted]_vars

===============================================================================
