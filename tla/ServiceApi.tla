------------------------------- MODULE ServiceApi -------------------------------
(***************************************************************************)
(* The HTTP service (api/app.py): handlers on a pool of threads over one   *)
(* live registry, one audit log, the verification hooks and the decision   *)
(* counters.  A handler is cut into the steps between which another        *)
(* handler can run; the registry's own operations are atomic, under its    *)
(* lock, and are those of OwnershipRegistry.                               *)
(***************************************************************************)
EXTENDS DecisionVerifier

CONSTANTS
    Threads,
    Requests,    \* [kind, ...]: see the handlers
    MaxRequests, \* bound: requests that arrive
    NoRequest

ASSUME ThreadsAssumption == IsFiniteSet(Threads)
ASSUME EntitiesAssumption ==
    /\ NoOne \notin Entities
    /\ \A e, f \in Entities : /\ e.name = f.name /\ e.kind = f.kind
                             /\ e.identity_token = f.identity_token => e = f
ASSUME RequestsAssumption ==
    /\ NoRequest \notin Requests
    /\ \A q \in Requests : /\ q.kind \in {"claim", "delegate"} => q.offer \in Offers
                           /\ q.kind = "machine" => q.machine \in Entities /\ q.owner \in Entities

\* Rights that are asked for here never expire, and no action asks for an epoch.
ClaimRequest ==
    [holder : Entities, resource : Resources, rights : SUBSET Operations,
     confidence : 0 .. FullConfidence, expires_at : {Never}]
ActionRequest(a) == IsAction(a) /\ a.min_epoch = 0
ASSUME RequestModelsAssumption ==
    \A q \in Requests : /\ q.kind \in {"claim", "delegate"} => q.offer \in ClaimRequest
                        /\ q.kind = "verify" => ActionRequest(q.action)
                        /\ q.kind = "resolve" => q.index \in Int

VARIABLES
    req,       \* per thread: the request being handled, or NoRequest
    at,        \* per thread: the step it has reached
    view,      \* per thread: what get_verifier gave it, then what it looked up
    verdict,   \* per thread: result of verify, or NoRequest
    reply,     \* per thread: status of the last response
    arrived,   \* number of requests so far
    recorded,  \* entries of the audit log, by outcome
    hooked,    \* whether a MetricsCollector is registered
    collected, \* its counts, by outcome
    _metrics,  \* the Counter of the module, by outcome
    truth,     \* history, per thread: verdicts of the live registry since the request began
    owned      \* history, per thread that delegates: each <<machine, owner>> on record since then

service == <<req, at, view, verdict, reply, arrived, recorded, hooked, collected, _metrics>>
allVars == <<vars, service, truth, owned>>

Outcomes == {"permit", "deny"}
Outcome(t) == IF verdict[t].permitted THEN "permit" ELSE "deny"
OneMore(count, k) == [count EXCEPT ![k] = @ + 1]

\* Thread t is at step s of a request of the given kind.
In(t, kind, s) == req[t] # NoRequest /\ req[t].kind = kind /\ at[t] = s
Go(t, s) == at' = [at EXCEPT ![t] = s]

\* The response; the thread is free again.
Respond(t, status) ==
    /\ reply' = [reply EXCEPT ![t] = status]
    /\ req' = [req EXCEPT ![t] = NoRequest]
    /\ view' = [view EXCEPT ![t] = NoRequest]
    /\ verdict' = [verdict EXCEPT ![t] = NoRequest]
    /\ Go(t, "idle")

-------------------------------------------------------------------------------
(* Dependencies: require_admin has let the request through, get_verifier has *)
(* built a verifier whose gate is frozen while its registry attribute is the *)
(* live registry, and whose conflict queue is new.                           *)

\* Mutant: one verifier, built when the service starts, serves every request.
get_verifier_once ==
    [gate |-> [Frozen EXCEPT !.claims = {}, !.index = {}, !.owners = << >>], conflict_queue |-> << >>]

get_verifier == [gate |-> Frozen, conflict_queue |-> << >>]

Arrive(t, q) ==
    /\ req[t] = NoRequest /\ arrived < MaxRequests
    /\ req' = [req EXCEPT ![t] = q]
    /\ view' = [view EXCEPT ![t] = get_verifier]
    /\ reply' = [reply EXCEPT ![t] = "none"]
    /\ arrived' = arrived + 1
    /\ Go(t, "handler")
    /\ UNCHANGED <<vars, verdict, recorded, hooked, collected, _metrics>>

-------------------------------------------------------------------------------
(* Mutating handlers *)

\* A machine that bears its owner's name needs a token of its own.
FictionalTwin(m, o) ==
    m.name = o.name /\ (NoOne \in {m.identity_token, o.identity_token}
                        \/ m.identity_token = o.identity_token)

\* A wrong token of the owner is found out after the machine is enrolled.
register_machine_handler(t) ==
    /\ In(t, "machine", "handler")
    /\ LET m == req[t].machine  o == req[t].owner
           refused == FictionalTwin(m, o) \/ m.kind # "MACHINE" \/ o.kind # "HUMAN"
       IN  IF refused \/ ~_identity_matches(tokens, m)
           THEN Respond(t, IF refused THEN "422" ELSE "500") /\ UNCHANGED vars
           ELSE /\ register_machine(m, o)
                /\ Respond(t, IF owners' # owners \/ owner_of(tokens', owners', m) = o
                              THEN "ok" ELSE "500")
    /\ UNCHANGED <<arrived, recorded, hooked, collected, _metrics>>

\* Root claims are for humans.
add_claim_handler(t) ==
    /\ In(t, "claim", "handler")
    /\ LET o == req[t].offer
       IN  IF Machine(o.holder) \/ ~_identity_matches(tokens, o.holder)
           THEN /\ Respond(t, IF Machine(o.holder) THEN "422" ELSE "500")
                /\ UNCHANGED vars
           ELSE add_claim(o) /\ Respond(t, "ok")
    /\ UNCHANGED <<arrived, recorded, hooked, collected, _metrics>>

\* Mutant: the owner is looked up by the machine's name.
LookUpOwner_by_name(t) ==
    /\ In(t, "delegate", "handler")
    /\ LET named == {m \in DOMAIN owners : m.name = req[t].offer.holder.name}
       IN  IF named = {} THEN Respond(t, "422")
           ELSE /\ view' = [view EXCEPT ![t] = owners[CHOOSE m \in named : TRUE]]
                /\ Go(t, "owner known")
                /\ UNCHANGED <<req, verdict, reply>>
    /\ UNCHANGED <<vars, arrived, recorded, hooked, collected, _metrics>>

\* delegate_claim, first call: who owns the machine.
LookUpOwner(t) ==
    /\ In(t, "delegate", "handler")
    /\ LET m == req[t].offer.holder
           o == IF Machine(m) THEN owner_of(tokens, owners, m) ELSE NoOne
       IN  IF o = NoOne THEN Respond(t, "422")
           ELSE /\ view' = [view EXCEPT ![t] = o]
                /\ Go(t, "owner known")
                /\ UNCHANGED <<req, verdict, reply>>
    /\ UNCHANGED <<vars, arrived, recorded, hooked, collected, _metrics>>

Delegates(o, by) ==
    LET candidates == Delegatable(by, o.resource)
    IN  candidates # {} /\ Attenuates(o, Best(candidates))

\* delegate_claim, second call: with the owner of the first.
Delegate(t) ==
    /\ In(t, "delegate", "owner known")
    /\ LET o == req[t].offer
       IN  IF Delegates(o, view[t])
           THEN delegate(o, view[t]) /\ Respond(t, "ok")
           ELSE Respond(t, "403") /\ UNCHANGED vars
    /\ UNCHANGED <<arrived, recorded, hooked, collected, _metrics>>

\* The queue it is popped from was made for this request.  An index below 0 counts
\* from the end, and raises IndexError all the same where there is nothing to pop.
resolve_conflict(t) ==
    /\ In(t, "resolve", "handler")
    /\ LET n == Len(view[t].conflict_queue)
       IN  Respond(t, IF req[t].index \in -n .. n - 1 THEN "ok" ELSE "404")
    /\ UNCHANGED <<vars, arrived, recorded, hooked, collected, _metrics>>

-------------------------------------------------------------------------------
(* verify_action, and the end of FreedomVerifier.verify within it *)

Decide(t) ==
    /\ In(t, "verify", "handler")
    /\ verdict' = [verdict EXCEPT ![t] = verify(view[t].gate, req[t].action, now)]
    /\ Go(t, "decided")
    /\ UNCHANGED <<vars, req, view, reply, arrived, recorded, hooked, collected, _metrics>>

\* Mutant: a decision reaches the hooks and the counters before the audit log.
Record_skipped(t) ==
    /\ In(t, "verify", "decided")
    /\ Go(t, "recorded")
    /\ UNCHANGED <<vars, req, view, verdict, reply, arrived, recorded, hooked, collected, _metrics>>

\* The entry is in the log's memory even when the append to its file raises.
Record(t) ==
    /\ In(t, "verify", "decided")
    /\ recorded' = OneMore(recorded, Outcome(t))
    /\ \/ Go(t, "recorded") /\ UNCHANGED <<req, view, verdict, reply>>
       \/ Respond(t, "500")
    /\ UNCHANGED <<vars, arrived, hooked, collected, _metrics>>

\* HookRegistry.emit copies the list of hooks under its lock...
CopyHooks(t) ==
    /\ In(t, "verify", "recorded")
    /\ Go(t, IF hooked THEN "emitting" ELSE "emitted")
    /\ UNCHANGED <<vars, req, view, verdict, reply, arrived, recorded, hooked, collected, _metrics>>

\* ... and calls them without it: on_event counts under the collector's lock.
on_event(t) ==
    /\ In(t, "verify", "emitting")
    /\ collected' = OneMore(collected, Outcome(t))
    /\ Go(t, "emitted")
    /\ UNCHANGED <<vars, req, view, verdict, reply, arrived, recorded, hooked, _metrics>>

\* _metrics[...] += 1 takes no lock: it reads, ...
ReadCounter(t) ==
    /\ In(t, "verify", "emitted")
    /\ view' = [view EXCEPT ![t] = _metrics[Outcome(t)]]
    /\ Go(t, "counting")
    /\ UNCHANGED <<vars, req, verdict, reply, arrived, recorded, hooked, collected, _metrics>>

\* ... then it writes.
WriteCounter(t) ==
    /\ In(t, "verify", "counting")
    /\ _metrics' = [_metrics EXCEPT ![Outcome(t)] = view[t] + 1]
    /\ Respond(t, Outcome(t))
    /\ UNCHANGED <<vars, arrived, recorded, hooked, collected>>

\* HookRegistry.register and unregister, by the host.
ToggleHook ==
    /\ hooked' = ~hooked
    /\ UNCHANGED <<vars, req, at, view, verdict, reply, arrived, recorded, collected, _metrics>>

-------------------------------------------------------------------------------
Handle(t) ==
    \/ register_machine_handler(t) \/ add_claim_handler(t)
    \/ LookUpOwner(t) \/ Delegate(t) \/ resolve_conflict(t)
    \/ Decide(t) \/ Record(t) \/ CopyHooks(t) \/ on_event(t)
    \/ ReadCounter(t) \/ WriteCounter(t)

LiveVerdict(t) == verify(LiveView, req[t].action, now).permitted

\* The history variables follow every step.
SeeVerdicts ==
    truth' = [t \in Threads |->
                IF req'[t] = NoRequest \/ req'[t].kind # "verify" THEN {}
                ELSE truth[t] \cup {LiveVerdict(t)'}]
SeeOwners ==
    owned' = [t \in Threads |->
                IF req'[t] = NoRequest \/ req'[t].kind # "delegate" THEN {}
                ELSE owned[t] \cup {<<m, owners'[m]>> : m \in DOMAIN owners'}]
Observe == SeeVerdicts /\ SeeOwners

ServiceInit ==
    /\ Init
    /\ req = [t \in Threads |-> NoRequest] /\ at = [t \in Threads |-> "idle"]
    /\ view = req /\ verdict = req
    /\ reply = [t \in Threads |-> "none"]
    /\ arrived = 0
    /\ recorded = [k \in Outcomes |-> 0] /\ collected = recorded /\ _metrics = recorded
    /\ hooked = FALSE
    /\ truth = [t \in Threads |-> {}] /\ owned = truth

ServiceStep ==
    \/ \E t \in Threads, q \in Requests : Arrive(t, q)
    \/ \E t \in Threads : Handle(t)
    \/ ToggleHook

ServiceNext == ServiceStep /\ Observe

ServiceSpec ==
    ServiceInit /\ [][ServiceNext]_allVars
    /\ \A t \in Threads : WF_allVars(Handle(t) /\ Observe)

-------------------------------------------------------------------------------
(* Properties *)

\* app.py:64: rebuilding the verifier on every request eliminates TOCTOU and
\* makes changes visible.  A verdict is the one the live registry gave at some
\* moment between the arrival of the request and its answer.
VerdictWasCurrent ==
    \A t \in Threads : verdict[t] # NoRequest => verdict[t].permitted \in truth[t]

\* A claim may come in: a root claim for a human, and for a machine one that
\* attenuates a root claim of a human who was on record as its owner at some
\* moment of the request that is answered.
FromOwner(c) ==
    IF Machine(c.holder)
    THEN /\ \E t \in Threads : req'[t] # req[t] /\ <<c.holder, c.delegated_by>> \in owned[t]
         /\ \E d \in claims : d.holder = c.delegated_by /\ d.delegated_by = NoOne /\ Attenuates(c, d)
    ELSE c.delegated_by = NoOne

\* Machine rights are never minted, nor handed out in the name of an owner who
\* had been replaced before the client asked: the owner may change between the
\* two calls of delegate_claim, and no more than that.
MachineRightsFromOwner == [][\A c \in claims' \ claims : FromOwner(c)]_allVars

\* Whatever updates the unlocked counter loses and whichever append fails, no
\* figure of the service exceeds what the audit log holds, and every verdict
\* that has been sent is in it.
Accounted ==
    \A k \in Outcomes :
        /\ _metrics[k] <= recorded[k] /\ collected[k] <= recorded[k]
        /\ (\E t \in Threads : reply[t] = k) => recorded[k] > 0

===============================================================================
