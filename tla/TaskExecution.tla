----------------------------- MODULE TaskExecution -----------------------------
(***************************************************************************)
(* An agent host at work: tasks in execution contexts (kernel/context.py), *)
(* the hardened gate and its replay guard (kernel/hardened.py), the two    *)
(* executors that put the gate and the tool ABI in front of a tool         *)
(* (kernel/call_gate.py, sandbox_executor.py, tool_abi.py), the consent    *)
(* registry (kernel/consent_registry.py) and the authority source that     *)
(* issues leases (authority/human_delegation.py).                          *)
(*                                                                         *)
(* Worker threads make calls, [kind, ctx, action, tool, args], while the   *)
(* host spawns and revokes.  A call is cut where another thread can run in *)
(* between: after a lock is released, and before a tool is entered.        *)
(***************************************************************************)
EXTENDS DecisionVerifier

CONSTANTS
    Workers, Calls, NoCall,
    InitialClaims,  \* claims, owners and tokens of the registry the host starts with
    InitialOwners,
    InitialTokens,
    RootAgent,      \* the agent of the root context
    SubAgents,      \* agents that tasks are handed to
    Leases,         \* expires_in arguments of spawn
    RootExpiry,     \* expiry of the root context
    MaxDepth,       \* max_depth
    Hardened,       \* trusted inputs: [epoch_floor, min_confidence, require_identity, catalog]
    Schemas,        \* tool name -> [required_rights, is_delegable, params, required, allowed]
    Tools,          \* names registered in the executors
    TypeRights,     \* resource -> subset of {"network", "model_invoke"}, by its type
    ConsentOffers,  \* [grantor, grantee, resource, operations, expires_at, context_id]
    LeaseRequests,  \* [subject, resource, rights]
    Ttl,            \* ttl_seconds
    MaxHostOps,     \* bound: what the host does beside the calls
    MaxCalls        \* bound: calls begun

Kinds == {"context", "hardened", "gate", "sandbox", "consent"}

ASSUME WorkersAssumption == IsFiniteSet(Workers)
ASSUME CallsAssumption ==
    \A c \in Calls : c.kind \in Kinds /\ c.action.uses \in [Operations -> SUBSET Resources]
ASSUME TypeRightsAssumption == TypeRights \in [Resources -> SUBSET {"network", "model_invoke"}]
ASSUME ContextsAssumption ==
    RootExpiry \in Nat \cup {Never} /\ Leases \subseteq Nat \cup {Never} /\ MaxDepth \in Nat

ASSUME HardenedAssumption == TrustedInputs(Hardened)

\* params: the names of the parameters, allowed: the values each may take.
ToolSchema(s) ==
    /\ s.required_rights \subseteq Operations \cup {"network", "model_invoke", "spawn"}
    /\ s.is_delegable \in BOOLEAN /\ s.required \subseteq s.params /\ DOMAIN s.allowed = s.params
ASSUME SchemasAssumption == \A tool \in DOMAIN Schemas : ToolSchema(Schemas[tool])

CapabilityRequest == [subject : STRING, resource : Resources, rights : SUBSET STRING]
ASSUME LeaseRequestsAssumption == LeaseRequests \subseteq CapabilityRequest

VARIABLES
    contexts,     \* ExecutionContext objects, the root first
    verifier,     \* the frozen registry of the FreedomVerifier
    _seen,        \* HardenedVerifier._seen
    _consents,    \* ConsentRegistry._consents, each under a serial number
    issued,       \* leases the authority source has issued
    _revocations, \* the (subject, resource) pairs it has revoked
    ops,          \* number of host operations so far
    call,         \* per worker: the call in progress, or NoCall
    at,           \* per worker: the step it has reached
    held,         \* per worker: what it read before it let other threads run
    begun,        \* number of calls so far
    authorised,   \* history: how often each (principal, action_id) was permitted
    standing,     \* history: serial numbers of consents whose grantor stands by them
    audited,      \* results in HardenedVerifier.audit_log
    invoked       \* history: [call, time, view] of the tools that ran

host == <<contexts, verifier, _consents, issued, _revocations, ops, standing>>
worker == <<call, at, held, begun, authorised, audited, invoked, _seen>>
taskVars == <<vars, host, worker>>

\* The host does one more thing; the registry and the calls are left alone.
HostOp == ops < MaxHostOps /\ ops' = ops + 1 /\ UNCHANGED worker

-------------------------------------------------------------------------------
(* ExecutionContext *)

ctx_is_expired(c, t) == c.expires_at # Never /\ t > c.expires_at
ctx_is_valid(c, t) == ~c.revoked /\ ~ctx_is_expired(c, t)

Earlier(s, t) == IF s = Never \/ (t # Never /\ t < s) THEN t ELSE s

\* Mutant: a lease that was asked for is granted whatever the parent's is.
ChildExpiry_as_asked(c, lease) == IF lease = Never THEN c.expires_at ELSE now + lease

ChildExpiry(c, lease) ==
    IF lease = Never THEN c.expires_at ELSE Earlier(now + lease, c.expires_at)

\* The resources are looked at here and kept nowhere; the live registry decides.
spawn(i, sub_agent, resources, lease) ==
    LET c == contexts[i]
    IN  /\ HostOp
        /\ ctx_is_valid(c, now)
        /\ c.depth < MaxDepth
        /\ \A r \in resources :
              Acts(LiveView, c.agent, r, "read", 0, now) \/ r.is_public
        /\ contexts' = Append(contexts,
              [agent |-> sub_agent, parent |-> i, depth |-> c.depth + 1,
               expires_at |-> ChildExpiry(c, lease), revoked |-> FALSE])
        /\ UNCHANGED <<vars, verifier, _consents, issued, _revocations, standing>>

revoke_context(i) ==
    /\ HostOp
    /\ contexts' = [contexts EXCEPT ![i].revoked = TRUE]
    /\ UNCHANGED <<vars, verifier, _consents, issued, _revocations, standing>>

-------------------------------------------------------------------------------
(* ConsentRegistry *)

covers(c, operation, context_id, t) ==
    /\ t < c.expires_at
    /\ operation \in c.operations
    /\ c.context_id \in {NoOne, context_id}

\* Made by a human only, for the future only, and for some operation.
ConsentCapability(c) == c.grantor.kind = "HUMAN" /\ now < c.expires_at /\ c.operations # {}

grant(c) ==
    /\ HostOp /\ ConsentCapability(c)
    /\ _consents' = [n \in DOMAIN _consents \cup {ops'} |->
                        IF n = ops' THEN c ELSE _consents[n]]
    /\ standing' = standing \cup {ops'}
    /\ UNCHANGED <<vars, contexts, verifier, issued, _revocations>>

Between(c, grantor, grantee, resource) ==
    c.grantor = grantor /\ c.grantee = grantee /\ c.resource = resource

\* Mutant: a consent bound to a context is kept.
Withdrawn_unbound(grantor, grantee, resource) ==
    {n \in DOMAIN _consents : /\ Between(_consents[n], grantor, grantee, resource)
                              /\ _consents[n].context_id = NoOne}

Withdrawn(grantor, grantee, resource) ==
    {n \in DOMAIN _consents : Between(_consents[n], grantor, grantee, resource)}

revoke_consent(grantor, grantee, resource) ==
    /\ HostOp
    /\ grantor.kind = "HUMAN"
    /\ _consents' = [n \in DOMAIN _consents \ Withdrawn(grantor, grantee, resource) |->
                        _consents[n]]
    /\ standing' = {n \in standing : n \in DOMAIN _consents =>
                                     ~Between(_consents[n], grantor, grantee, resource)}
    /\ UNCHANGED <<vars, contexts, verifier, issued, _revocations>>

-------------------------------------------------------------------------------
(* HumanDelegationSource *)

\* The subject is taken for a machine without a token, the resource for a
\* private one, and only reads and writes are put before the gate.
AuthorityAction(q) ==
    [actor |-> [name |-> q.subject, kind |-> "MACHINE", identity_token |-> NoOne],
     uses |-> [op \in Operations |-> IF op \in q.rights \ {"delegate"} THEN {q.resource} ELSE {}],
     governs |-> {}, flags |-> {}, min_epoch |-> 0]

request_capability(q) ==
    /\ HostOp
    /\ verify(verifier, AuthorityAction(q), now).permitted
    /\ <<q.subject, q.resource.name>> \notin _revocations
    /\ issued' = issued \cup {[subject |-> q.subject, resource |-> q.resource,
                               rights |-> q.rights, from |-> now, until |-> now + Ttl,
                               view |-> verifier]}
    /\ UNCHANGED <<vars, contexts, verifier, _consents, _revocations, standing>>

revoke_lease(subject, rname) ==
    /\ HostOp
    /\ _revocations' = _revocations \cup {<<subject, rname>>}
    /\ UNCHANGED <<vars, contexts, verifier, _consents, issued, standing>>

-------------------------------------------------------------------------------
(* The registry underneath *)

RevokeClaims(n) ==
    /\ HostOp /\ revoke_all(n)
    /\ UNCHANGED <<contexts, verifier, _consents, issued, _revocations, standing>>

\* The verifier is built anew, over a new snapshot.
NewVerifier ==
    /\ HostOp
    /\ verifier # Frozen /\ verifier' = Frozen
    /\ UNCHANGED <<vars, contexts, _consents, issued, _revocations, standing>>

TimePasses == Tick /\ UNCHANGED <<host, worker>>

-------------------------------------------------------------------------------
(* Calls *)

Begin(w, c) ==
    /\ at[w] \in {"idle", "granted", "denied"} /\ begun < MaxCalls
    /\ c.ctx \in DOMAIN contexts
    /\ begun' = begun + 1
    /\ call' = [call EXCEPT ![w] = c]
    /\ at' = [at EXCEPT ![w] = c.kind]
    /\ held' = [held EXCEPT ![w] = NoCall]
    /\ UNCHANGED <<vars, host, authorised, audited, invoked, _seen>>

\* Worker w is at step now_at and goes on to step next, remembering what.
Step(w, now_at, next, what) ==
    /\ at[w] = now_at
    /\ at' = [at EXCEPT ![w] = next]
    /\ held' = [held EXCEPT ![w] = what]
    /\ UNCHANGED <<vars, host, call, begun>>

Answer(granted) == IF granted THEN "granted" ELSE "denied"

\* ExecutionContext.verify: the context is looked at, then the gate is asked.
EnterContext(w) ==
    /\ at[w] = "context"
    /\ Step(w, "context",
            IF ctx_is_valid(contexts[call[w].ctx], now) THEN "entered" ELSE "denied", NoCall)
    /\ UNCHANGED <<authorised, audited, invoked, _seen>>

AskGate(w) ==
    /\ at[w] = "entered"
    /\ Step(w, "entered", Answer(verify(verifier, call[w].action, now).permitted), NoCall)
    /\ UNCHANGED <<authorised, audited, invoked, _seen>>

\* HardenedVerifier.verify: a fresh snapshot, the checks against it and against
\* the executed keys, and the key added last.
ReplayKey(c) == <<c.action.actor.name, c.action.action_id>>

TakeSnapshot(w) ==
    /\ Step(w, "hardened", "judging", Frozen)
    /\ UNCHANGED <<authorised, audited, invoked, _seen>>

Judge(w) ==
    /\ at[w] = "judging"
    /\ LET permitted == HardenedViolations(Hardened, held[w], _seen, call[w].action,
                                           call[w].action.actor, now) = {}
       IN  /\ Step(w, "judging", IF permitted THEN "permitted" ELSE "denied", NoCall)
           /\ audited' = IF permitted THEN audited ELSE audited + 1
    /\ UNCHANGED <<authorised, invoked, _seen>>

\* Mutant: the key is not kept.
Executed_forgotten(S, c) == S

Executed(S, c) == S \cup {ReplayKey(c)}

\* How often each key was permitted, once k has been permitted again.
Often(n, k) == IF k \in DOMAIN n THEN n[k] ELSE 0
OnceMore(n, k) == [x \in DOMAIN n \cup {k} |-> IF x = k THEN Often(n, k) + 1 ELSE n[x]]

Commit(w) ==
    /\ at[w] = "permitted"
    /\ Step(w, "permitted", "granted", NoCall)
    /\ _seen' = Executed(_seen, call[w])
    /\ audited' = audited + 1
    /\ authorised' = OnceMore(authorised, ReplayKey(call[w]))
    /\ UNCHANGED invoked

\* CallGate.execute and SandboxedExecutor.execute: the gate, the tool's schema,
\* the tool.  Only the sandbox asks whether the actor holds a delegated claim.
_extract_rights(a) ==
    {op \in Operations : a.uses[op] # {}}
    \cup UNION {TypeRights[r] : r \in a.uses["read"] \cup a.uses["write"]}

is_delegated(g, actor) == \E c \in g.claims : c.holder = actor /\ c.delegated_by # NoOne

\* Mutant: the rights the tool requires are not compared.
validate_call_rights_unchecked(tool, args, rights_held, delegated) ==
    /\ tool \in DOMAIN Schemas
    /\ LET s == Schemas[tool]
       IN  /\ delegated => s.is_delegable
           /\ DOMAIN args \subseteq s.params
           /\ s.required \subseteq DOMAIN args
           /\ \A p \in DOMAIN args : args[p] \in s.allowed[p]

\* allowed: the values of a parameter that pass its checks of type, value,
\* length and scope.
validate_call(tool, args, rights_held, delegated) ==
    /\ tool \in DOMAIN Schemas
    /\ LET s == Schemas[tool]
       IN  /\ s.required_rights \subseteq rights_held
           /\ delegated => s.is_delegable
           /\ DOMAIN args \subseteq s.params
           /\ s.required \subseteq DOMAIN args
           /\ \A p \in DOMAIN args : args[p] \in s.allowed[p]

Screen(w, kind) ==
    /\ at[w] = kind
    /\ LET c == call[w]
           delegated == kind = "sandbox" /\ is_delegated(verifier, c.action.actor)
           passes == /\ verify(verifier, c.action, now).permitted
                     /\ validate_call(c.tool, c.args, _extract_rights(c.action), delegated)
       IN  Step(w, kind, IF passes THEN "screened" ELSE "denied",
                IF passes THEN [view |-> verifier, time |-> now] ELSE NoCall)
    /\ UNCHANGED <<authorised, audited, invoked, _seen>>

\* A tool that raises has run all the same; the call is answered as a denial.
\* One that is not registered is not entered: the call gate raises.
Invoke(w, raises) ==
    /\ at[w] = "screened"
    /\ Step(w, "screened", Answer(call[w].tool \in Tools /\ ~raises), NoCall)
    /\ invoked' = IF call[w].tool \in Tools
                  THEN invoked \cup {[call |-> call[w], view |-> held[w].view,
                                      time |-> held[w].time]}
                  ELSE invoked
    /\ UNCHANGED <<authorised, audited, _seen>>

\* ConsentRegistry.check for the reads and writes of an action: the records are
\* collected under the lock and evaluated without it.
CollectConsents(w) ==
    /\ at[w] = "consent"
    /\ LET a == call[w].action
           found == {n \in DOMAIN _consents : /\ _consents[n].grantee = a.actor
                                              /\ _consents[n].resource \in a.uses["write"]}
       IN  Step(w, "consent", IF found = {} THEN "denied" ELSE "collected",
                IF found = {} THEN NoCall
                ELSE [records |-> [n \in found |-> _consents[n]], standing |-> standing])
    /\ UNCHANGED <<authorised, audited, invoked, _seen>>

EvaluateConsents(w) ==
    /\ at[w] = "collected"
    /\ LET covering == {n \in DOMAIN held[w].records :
                          covers(held[w].records[n], "write", call[w].ctx, now)}
       IN  Step(w, "collected", Answer(covering # {}),
                IF covering = {} THEN NoCall
                ELSE [by |-> CHOOSE n \in covering : \A m \in covering : n <= m,
                      standing |-> held[w].standing])
    /\ UNCHANGED <<authorised, audited, invoked, _seen>>

-------------------------------------------------------------------------------
TaskInit ==
    /\ claims = InitialClaims /\ index = InitialClaims
    /\ heap = [n \in 1 .. 2 * MaxClaims |-> 1]
    /\ inserted = Cardinality(InitialClaims)
    /\ tokens = InitialTokens /\ owners = InitialOwners
    /\ conflicts = {} /\ asserted = {} /\ snap = NoSnapshot /\ now = 0
    /\ contexts = <<[agent |-> RootAgent, parent |-> 0, depth |-> 0,
                     expires_at |-> RootExpiry, revoked |-> FALSE]>>
    /\ verifier = Frozen
    /\ _seen = {} /\ _consents = << >> /\ issued = {} /\ _revocations = {}
    /\ ops = 0 /\ standing = {}
    /\ call = [w \in Workers |-> NoCall] /\ held = [w \in Workers |-> NoCall]
    /\ at = [w \in Workers |-> "idle"]
    /\ begun = 0 /\ audited = 0 /\ authorised = << >> /\ invoked = {}

HostNext ==
    \/ \E i \in DOMAIN contexts, e \in SubAgents, R \in SUBSET Resources, l \in Leases :
          spawn(i, e, R, l)
    \/ \E i \in DOMAIN contexts : revoke_context(i)
    \/ \E c \in ConsentOffers : grant(c)
    \/ \E c \in ConsentOffers : revoke_consent(c.grantor, c.grantee, c.resource)
    \/ \E q \in LeaseRequests : request_capability(q) \/ revoke_lease(q.subject, q.resource.name)
    \/ \E e \in Entities : RevokeClaims(e.name)
    \/ NewVerifier
    \/ TimePasses

WorkerNext(w) ==
    \/ \E c \in Calls : Begin(w, c)
    \/ EnterContext(w) \/ AskGate(w)
    \/ TakeSnapshot(w) \/ Judge(w) \/ Commit(w)
    \/ \E kind \in {"gate", "sandbox"} : Screen(w, kind)
    \/ \E raises \in BOOLEAN : Invoke(w, raises)
    \/ CollectConsents(w) \/ EvaluateConsents(w)

TaskNext == HostNext \/ \E w \in Workers : WorkerNext(w)

TaskSpec == TaskInit /\ [][TaskNext]_taskVars

-------------------------------------------------------------------------------
(* Properties *)

\* Expires(c) is no later than t, None being later than everything.
NoLater(s, t) == t # Never => s # Never /\ s <= t

\* S holds context i of c and, with a context, its parent.
Upward(c, i, S) == i \in S /\ \A j \in S : c[j].parent \in S \cup {0}

\* A context and those above it.
Chain(c, i) == {j \in DOMAIN c : \A S \in SUBSET DOMAIN c : Upward(c, i, S) => j \in S}

Ancestors(i) == Chain(contexts, i)

\* context.py: a child context expires no later than its parent, and so on up
\* the chain, and no chain is longer than max_depth, whatever leases were asked
\* for and when.
WithinAncestors ==
    \A i \in DOMAIN contexts : \A j \in Ancestors(i) :
        /\ NoLater(contexts[i].expires_at, contexts[j].expires_at)
        /\ contexts[i].depth = contexts[j].depth + Cardinality(Ancestors(i) \ Ancestors(j))
        /\ contexts[i].depth <= MaxDepth

\* hardened.py:107 and :155: the key is looked up and added in two steps, so
\* threads that race permit an action more than once, but never more often than
\* there are threads: a call that begins after a permit is denied.
ReplaysBounded ==
    \A k \in DOMAIN authorised : authorised[k] <= Cardinality(Workers)

\* ConsentRegistry: the records are evaluated after the lock is released, and
\* still every consent that is confirmed rests on a record its grantor stood by
\* when the check looked; those bound to a
\* context too are gone once it is revoked.
ConsentStands ==
    \A w \in Workers :
        at[w] = "granted" /\ call[w].kind = "consent" => held[w].by \in held[w].standing

\* The executors: a tool that ran was called for an action that the gate had
\* permitted for each right the tool requires, on a resource of the action, and
\* a tool that is not delegable was run by no holder of a delegated claim
\* through the sandbox.
ToolWithinAuthority ==
    \A x \in invoked :
        LET c == x.call
            s == Schemas[c.tool]
            Permitted(op, r) == Acts(x.view, c.action.actor, r, op, c.action.min_epoch, x.time)
        IN  /\ \A op \in s.required_rights \cap Operations :
                  \E r \in c.action.uses[op] : Permitted(op, r)
            /\ \A right \in s.required_rights \ Operations :
                  \E op \in {"read", "write"} : \E r \in c.action.uses[op] :
                      right \in TypeRights[r] /\ Permitted(op, r)
            /\ c.kind = "sandbox" /\ is_delegated(x.view, c.action.actor) => s.is_delegable

\* context.py:11: a context and all its children can be cancelled, so no call
\* begins in a task below a cancelled one and is permitted.
CancelledWithChildren ==
    [][\A w \in Workers :
          EnterContext(w) /\ (\E j \in Ancestors(call[w].ctx) : contexts[j].revoked)
              => at'[w] = "denied"]_taskVars

===============================================================================
