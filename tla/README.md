# Verification of the authgate kernel

TLA+ modules for the authorization kernel of this repository, TLC runs on small
instances, and TLAPS proofs for every instance. Paths below are relative to
`src/` of this checkout; Python modules are under `src/authgate/`, Rust ones under
`authgate-kernel/src/`.

## Inventory of the system

| Component | State it keeps | Operations | What makes it correct | Modelled |
|---|---|---|---|---|
| Call gate, Rust trusted core (`tcb/engine.rs`, `dag.rs`, `consent.rs`, `call_gate.rs`) | none between calls; the locals of `verify` and `validate_chain` | `CallGate::execute` → `verify`: canonical gate, proof loop with the chain walk, notices, consent | a permit is covered by a root-signed grant; every link is signed by its holder and fresh; a notice on any link denies; the walk ends; the decision is the declarative policy's | yes |
| Sequence limit (`tcb/sequence.rs`) | counters | accumulate, check | – | no: nothing calls it |
| Ownership registry, Python (`kernel/registry.py`, `entities.py`) | claims, an index of them, identity tokens, machine owners, conflicts | `add_claim`, `delegate`, `register_machine`, `advance_epoch`, the revocations, `expire_stale`, `freeze`, `can_act`, `owner_of` | authority is never amplified; index and list agree; revocation is immediate; snapshots do not change | yes |
| Registry, engine, verifier and C interface, Rust (`registry.rs`, `engine.rs`, `verifier.rs`, `ffi.rs`) | claims, machine owners (by name), conflicts | as the Python registry; `verify` over what the registry shows; replies of bounded length | a permit rests on asserted rights; a snapshot loses and never gains; a cut reply is recognisable | partly |
| Decision verifier (`kernel/verifier.py`, `hooks.py`, `context.py`, `hardened.py`) | a registry live or frozen, hooks, execution contexts, action ids seen | `verify`, `HookRegistry.fire`, `spawn`, `revoke`, the hardened `verify` | a task stays within its ancestors; an action id runs a bounded number of times | partly |
| Audit log (`kernel/audit.py`) | window of entries, last hash, file | `record`, `verify_chain`, `load_from_file`, `load_and_verify` | one chain in memory and on disk, across threads, rotation and restarts | yes |
| Consent registry (`kernel/consent_registry.py`, `consent.py`) | consents | `grant`, `revoke`, `check` | a consent that is confirmed was standing | yes |
| Python call gate and tool ABI (`kernel/call_gate.py`, `tool_abi.py`, `sandbox_executor.py`) | tools, schemas | validate the call, ask the gate, run the tool | a tool runs only within what the gate permitted | yes |
| Key rotation (`key_rotation.py`) | current key, pending certificate | `issue_rotation`, `verify_rotation`, `apply_rotation`, `accepted_keys` | only vouched keys are accepted; all verifiers converge on the newest | yes |
| Distributed kernel (`distributed/distributed_kernel.py`) | epoch, vector clock, revocation log, peers | `issue_revocation`, `receive_revocation`, `gossip_revocation`, `is_capability_valid` | a revocation stays, is signed, is causally ordered and spreads | yes |
| Federation consensus (`distributed/federation.py`) | kernels, threshold | validate, count, veto | a decision is what the votes that count say | yes |
| HTTP API (`api/app.py`) | one live registry, audit log, hooks, counters | request handlers on a pool of threads | a verdict was current; a machine's rights come from its owner; nothing is counted twice | partly |
| Human delegation authority (`authority/human_delegation.py`) | revocations | `request_capability`, `revoke` | a lease is backed when issued | yes |
| Policy and policy language (`kernel/policy.py`, `policy_dsl.py`, `inalienable.py`, `goals.py`) | none | parse, compile, evaluate, verify a goal tree | policies only restrict; a text means what it says, top down | yes |
| Authority graph, planner, goal trees, Rust (`authority_graph.rs`, `multi_agent.rs`, `planner.rs`, `goal_tree.rs`) | graphs built per call | cycles, reachability, plans, spawning, subtrees | a plan stops at its first violation; the graph agrees with the gate | yes |
| Semantic gate, compass, Rust (`semantic_gate.rs`, `compass/`) | none | scores of text | – | no |
| Sandbox and seccomp (`kernel/seccomp_executor.py`, `sandbox.rs`, `seccomp.rs`) | operating-system state | run a tool under a filter | what ran was permitted; what is reported happened | partly |
| Extensions (`extensions/`) | signals, rules, queues | detect, judge, resolve, synthesise | a verdict follows from the parts it names | partly |
| Analysis (`analysis/`) | governance links | capture, coercion, exit, sovereignty, persuasion, planning | reports agree with the gate and with each other | yes |
| Framework adapters (`adapters/`) | tools, declared resources | wrap, guard, check | a tool runs only after its declared use was permitted | yes |
| Research pipeline (`research/freedom_formal/`) | none | axioms, then the gate | passing needs both | yes |
| Support modules (`wire_validator.py`, `kernel/tracing.py`, …) | none | validation, tracing | – | no |
| Attack harness, examples, benchmarks | none | drivers | – | no |
| Kani proofs, command-line tool, Go binding | none | wrappers | – | no |

`PROJECT.json` names the sources and the modules of each and says what a partly
modelled one leaves out.

Interaction: adapters, executors and policies build an action and call a gate. The
Rust call gate decides from the signed proofs the action carries and keeps nothing.
The Python verifier decides from a registry, live or frozen, then runs hooks and
records the decision in the audit log. The HTTP API owns one live registry and makes
a new verifier of it for every request. Tasks run in contexts that are spawned and
revoked beside the registry, with consents and leases of their own. The analyses
read the registry and decide nothing. The distributed kernel and key rotation change
which capabilities and keys are current.

What is hard here: cyclic and re-ordered delegation bundles; epochs and expiries that
differ along a chain; claims that are equal but not identical; epochs assigned in
place under snapshots; holders that are matched by name in one place and by identity
in another; a hook or a disk write that fails half way; threads that meet at the
audit log, at a replay guard, at a counter, between a lookup and the delegation that
rests on it; consents and contexts revoked while a call is under way; revocations that
cross in the network; certificates that arrive late; layers that are meant only to
restrict and are computed from the same registry in different ways. PROJECT.json
`hazards` has each at its line.

## Modules

| Module | Models | Extends |
|---|---|---|
| `CapabilityProofs` | the records of the trusted core, their canonical messages and hashes, symbolic SHA-256 and Ed25519 | – |
| `CapabilityGate` | `verify` and `validate_chain` as the machine they run | `CapabilityProofs` |
| `Authorization` | the abstract specification of the gate: one decision per action, Permit exactly when the action is authorized: a path of signed delegations leads from each grant to a root, nothing on it is revoked, consent is given; without loops, counters or order of checks | `CapabilityProofs` |
| `OwnershipRegistry` | the Python registry, one action per mutator, and one snapshot | – |
| `DecisionVerifier` | `FreedomVerifier.verify`, `verify_plan` and the conflict queue as operators over a registry | `OwnershipRegistry` |
| `ServiceApi` | the HTTP handlers on threads over one live registry | `DecisionVerifier` |
| `TaskExecution` | contexts, the replay guard, both executors, the tool ABI, consents and leases: workers and a host | `DecisionVerifier` |
| `KeyRotation` | certificates and one `ActiveKeySet` per verifier | – |
| `AuditLog` | `record` in its three steps, the file, crashes, restarts, failing appends | – |
| `FederatedNode` | issue, sign, deliver and gossip of revocations among nodes | – |
| `KernelEngine` | the Rust engine: `verify` over a registry on the wire, and the types of what is sent and answered | – |
| `RustRegistry` | the Rust registry, one action per mutator, its own queries and its snapshot | `KernelEngine` |
| `KernelAnalyses` | plans with labels, spawning, the C interface's replies, the graph's reports of ownerless machines and crossed domains, asked in every state of the registry | `RustRegistry` |
| `RustKernel` | the analyses that recurse: goal trees, walks of the authority graph | `KernelAnalyses` |
| `PolicyLanguage` | parser, compiler, policies, goal trees, inalienable limits, consent annotations | `DecisionVerifier` |
| `Legitimacy` | legitimacy seam, consent judge, detection, axioms, the sandboxed gate, the flow checker | `PolicyLanguage` |
| `SovereigntyAnalyses` | capture, coercion, exit, sovereignty, persuasion | `PolicyLanguage` |
| `Coalition` | federation votes, agent plans, recursive governance, resolver, synthesis, compass, zero-knowledge commitments | `PolicyLanguage` |
| `ToolAdapters` | what each framework adapter puts in front of which callable | `DecisionVerifier` |
| `PolicyHost` | these layers beside a registry that changes under them | `Legitimacy`, `SovereigntyAnalyses`, `Coalition`, `ToolAdapters` |
| `MC…` | the finite instances TLC checks | the module they are named after |
| `HostProofs` | theorems about `TaskExecution` and `PolicyHost` | both, `TLAPS` |
| the other `…Proofs` | theorems and their proofs | the module they are named after, `TLAPS` |

How state and actions correspond to the code:

* **Call gate.** The locals of `verify` are the variables `capIx`, `found`,
  `decision`; those of `validate_chain` are `chain` (nodes visited, leaf first;
  the depth counter is its length). `CanonicalGate` is Layer 1, `TakeGrant` /
  `SkipProof` the filter and the checks of the Layer 2 loop, `FollowParent`,
  `RejectNode` and `ReachRoot` one turn of the walk and its ends, then
  `EndOfProofs`, `CheckRevocations`, `CheckConsent`. `Return` and every denial go
  through one operator. `Execute` hands the gate an action that may have been
  altered after it was sealed, by code that may also seal what it has made: the
  binding hash is over public fields and has no key. A hash or signature is the tuple of what was
  hashed or signed: `to_canonical_bytes` of a proof leaves `issuer` out, as the
  code does.
* **Registry.** Each mutator holds the registry's lock throughout, so it is one
  action. A claim is an object with an identity `obj`; its epoch is in `heap`
  because `advance_epoch` assigns it in place; `freeze` makes copies, with
  identities above `MaxClaims` in the order of the originals, so that of several
  best claims the first decides on the snapshot as it does on the live registry. `_index_remove` is `list.remove`: it takes out the first *equal*
  claim. `asserted` is a history variable. With
  `HookRaises` the installed conflict hook may raise, between the record of the
  conflict and the insertion, or not.
* **Service.** A thread has a request `req`, the step it is `at`, the `view` its
  verifier was made of, a `verdict` and a `reply`. A handler is cut wherever another
  thread can run and matters: `delegate` looks up the owner and delegates in two
  calls; `verify` decides, records, copies the hooks, runs them, and increments a
  counter by a read and a write. `truth` (whether the live registry permitted the
  action at some moment of the request) and `owned` (who was on
  record as owner of the holder at some moment of the delegation's request) are
  history variables, kept per thread.
* **Tasks.** A worker's call is cut after a lock is released and before a tool is
  entered: the hardened verifier takes a snapshot, judges by it and by the ids executed
  so far, and adds the id last; the consent check copies the list under its lock and
  evaluates it against the clock outside. The host spawns and revokes contexts,
  grants and withdraws consents, asks for leases and revokes them, revokes claims, makes a
  new verifier, and lets time pass at any moment. `authorised`, `standing` and
  `invoked` are history variables. The ancestors of a context are the least set that
  holds it and every parent in it.
* **Key rotation.** `accepted_keys` is a query that changes state: it performs the
  cutover. A certificate that does not fit raises and changes nothing, hence is
  no step. `lapsed` is a history variable.
* **Audit log.** `Build` is what `record` does before the lock, `Link` what it does
  in memory under the lock, `Write` / `WriteFails` the append, rotation and
  release. `Crash` loses everything but the file; a process starts again by
  `load_from_file` or with `NewLog` (`AuditLog(path)`, as `api/app.py:55` does).
  `faulty` is a history variable.
* **Federated node.** An event is one shared object, referred to by its position in
  `events`; `signed` is its `signature_set`. `receive_revocation` may be called
  with any event at any node at any time, which is loss, delay, duplication and
  reordering at once. `gossip_revocation` is the fan-out to direct peers. The
  Merkle root is represented by the claims it was computed from.
* **Rust registry.** `reg["live"]` and `reg["snapshot"]` are two registry objects
  under the same mutators; claims are a function from the number of their insertion,
  so that the order the code scans them in is kept. It answers questions of its own
  (`registry_can_act`, `claims_for`, `owner_of`), which compare the whole key of a
  holder and a resource where the engine compares names; `AnswersAgreeWithGate`
  compares the answers. `TypeOK` and `AnswersAreResults` are stated with the types of
  `entities.rs` and `wire.rs` and hold by theorem. `registry_wire` and `action_wire`
  are the conversions on the way to the engine: trust domains and the labels of claims
  are lost there. `KernelAnalyses` and `RustKernel` add no state: a plan, a goal
  tree, a graph, a reply is an operator of the registry, asked in every state of it.
  `projections` is the loop of `verify_plan`, one entry per turn.
* **Policies, analyses, adapters.** These keep no state of their own but the
  governance links (`gov`), so they are operators. `job`, chosen once and never
  changed, is what the host was given: a registry to watch or survey, tools to
  serve, governance links to record, or a single input (a text, an argument, a set of
  votes, a plan, …). The registry then runs freely and every layer is compared
  with the gate in each of its states; `ran` is the last tool an adapter ran.

A lock that is held over a whole method makes it one action; two methods never
overlap otherwise than stated. Fractions are multiplied out (a threshold of 0.66 is
66 of 100); names, texts and hashes are model values or tuples; time is a counter.

## Runs

Passing runs:

| Run | Question | Bounds, and why they are enough |
|---|---|---|
| `call_gate` | Is every decision the policy's, is every permit covered by one root grant through signed links, does every call return? | every ordering of up to three of 13 proofs and of the four of the full chain, `MAX_CHAIN_DEPTH` = 2: chains of the permitted length, one beyond it, and cyclic parent hashes; each malformed proof of the pool fails exactly one check; expiry before, at and after `now`; the sound chain with every notice and consent; two bundles altered in their rights, consents, epoch or an issuer, sealed anew or not. |
| `registry` | Do delegation, revocation, cascades and expiry conserve authority and take effect at once, are owners enrolled, and is a snapshot left alone, after a failure too? | three principals and an impostor of one, three claims ever, clock to 1, nested resources: a chain of two delegations with a claim that expires or is revoked in the middle. Two claims (`MaxFrozen`) beside a snapshot or claims of a later epoch, epochs 1 and 2: two claims of one holder, of which a new epoch or the snapshot can tell the first from the second; a hook that raises or not. |
| `service` | Was a verdict current, do a machine's rights come from its owner, is everything accounted for? | two threads, five requests of eight kinds, three claims, two owners for one machine and a stranger of its name: an owner replaced, and the machine registered again, between lookup and delegation or before a second delegation; two lost updates of one counter, a hook that is switched while another thread copies the hooks. |
| `task_execution` | Tasks, replays, consents, tools | two workers (interchangeable), three calls, two host operations, sub-tasks of sub-tasks, clock to 1: every call is met by a revocation, an expiry or the same call of the other worker at every cut, and by two of them. |
| `key_rotation` | Which keys are accepted, and do all verifiers converge? | two verifiers, a chain of two rotations with one window each, three further orders signed by wrong keys or retiring a key to itself, clock to 3 (past the last cutover). |
| `audit_log` | Chain, completeness of the file, lock | two threads, three results, window of one, two crashes; each append may raise, each restart may ignore the file. |
| `federated_node` | Revocations stay, are signed, are causally ordered, and spread | three nodes, three events, threshold two of which one is the owner's: enough for two events of one epoch to cross and a third to follow. |
| `rust_kernel` | Do permits rest on asserted rights, does a snapshot only lose, do plans, trees, graph and replies say what they should? | three claims, clock to 1, holders of one name and two kinds, one file under two scopes; five plans and five trees with a violation at each place; circles of owners, crossings with and without a grant; buffers from empty to larger than any reply. |
| `policy_layers` | Do the layers only restrict, do readers and analyses agree, are group decisions sound? | four claims, clock to 1, two humans and two machines, chains of three delegations; every text of up to four lines of eight, every set of votes of up to three of eight, every plan of three steps with eight dependency lists each, every sequence of three of six steps with flags and labels, every claim of the axioms with up to two fields altered, three governance links among four nodes, each with the depth it was recorded with; one action that shows three signs of persuasion and that the gate permits when its machine holds two claims. |

Runs that TLC must find violated, each a sentence of the repository that the
code does not keep (PROJECT.json `findings` quotes it):

| Run | What it shows |
|---|---|
| `altered_actions` | an action with another issuer on one of its proofs is permitted under the old binding hash; sealed anew, any change is |
| `audit_log_reopened` | `AuditLog(path)` on an existing file starts a second chain in it |
| `cancelled_context_children` | a task enters a child of a revoked context: `revoke` marks one context and the child asks only itself |

Every property of a passing run has a mutant in the module, named after the
definition it replaces: a plausible bug that the property catches.

Deadlock checking is off where a system may stop: all bounds used up.

## Disagreements met while modelling

Kept out of the runs; each is what the code of the mapped definition does, where a
doc, a comment or another part of the code says otherwise.

*Registry, call gate, logs, network.* An intermediate grant that has expired still
carries a permit: the walk compares epochs, never expiries. A claim stays
usable after the delegator of its delegator lost the right, and stays in the registry: the
check at use looks one level up, and `RevocationImmediate` speaks of direct delegates.
`expire_stale` removes claims from a frozen snapshot (`registry.py:421`, called
immutable at `registry.py:59`), and at the instant they are still valid. `delegate`
accepts a delegation back to the principal the authority came from
(`ARCHITECTURE.md:113` describes a cycle check). `revoke_cascading` misses a delegate
whose intermediate delegator holds no claim any more, and removes claims that
downstream holders were given directly (`REVOCATION_CORRECTNESS.md:15`); in Rust it is
`revoke_all` under another name (documented as recursive above its definition). A
second certificate for the current key, applied after the first one's window and
before `accepted_keys` is called, brings the retired key back. An append that raises
leaves the chain tip on an entry the file does not hold (`audit.py:98`); `chain_errors`
reports an error for a rotated window that `verify_chain` accepts (`audit.py:173`);
`total_count` is 0 after `load_from_file` (`audit.py:239`); entries of two threads are
appended out of timestamp order (`audit.py:83`). A node that has issued an event of the
same epoch refuses a signed one and does not pass it on. Nothing recomputes the Merkle
root when claims change (`distributed_kernel.py:409`, claimed at `:275`). The binding
hash does not cover a proof's `issuer` (`types.rs:84`), so Layer 1 lets that change
pass; Layer 2 finds it on a proof the walk comes to, and on no other
(`altered_actions`).

*Verifier, tasks, tools.* `request_capability` checks read and write of a lease and not
delegate. The PyO3 `verify_plan` makes no audit entries where `verify` makes one. The
subprocess runner always uses the filter for reading, and its result says SECCOMP also
when the filter could not be installed; a callable that cannot be imported by the
subprocess is run directly; the gate around it does not consult the tool ABI and reports
a tool that failed half way as denied.

*Rust analyses and C interface.* `verify_spawn` does not look at the depth cap of
`multi_agent.rs:4`. Crossings between domains are judged by their ends, never by the
operations of the grant. A reply that does not fit reports the length of what was cut
off, not of what was written; the wire validation is never called from the C interface.

*Policies and adapters.* The example of the DSL's docstring matches nothing, since a
pattern is compared with the bare name and a scope is a prefix. A scope given to one
operation of a statement applies to all, and an operation without one resets it.
Conditions of a statement are parsed and not enforced. The CrewAI guard wraps the first
entry point it finds, the DSPy proxy `__call__` and `forward`, and what is called
past them is not asked about; `LayersOnlyRestrict` speaks of guarded entry points; a LangChain tool without
a verifier runs unchecked; several adapters give every action the same `action_id`.

*Federation and analyses.* A stale veto counts as an abstention; the trust level comes
from the decision, not from the registration; one kernel that votes twice is counted
twice. Duplicate dependencies make a plan without a cycle unorderable. Recursive
governance re-parents a node whose depth was computed from another parent. The
resolver's specificity counts characters of the scope. `batch_verify` of commitments
stops at the shorter list. A synthesis hook that returns the admitted list never ends.
E4 of the exit guarantees and the second condition of coercion (`coercion.py:57`) are
not asked of machines without human delegators; two machines always show resource
concentration, and one human always makes coercion critical. The sovereignty level
"critical" needs a higher score than there is; the depth of a chain is the first
claim's, not the deepest (`sovereignty_metrics.py:112`), so the depths of different
analyses differ where a holder has several claims or delegation is circular. The persuasion
model is described with two signals for high and three for critical
(`persuasion.py:9-10`); the code asks for three and four, as the comment of the
class says. Any registered machine with a root scope silences authority aggregation. The agreement of
capture and gate presumes unique names.

## Fairness

* `CapabilityGate`: weak fairness of the steps of `verify` once it was called; it
  neither waits nor blocks. Nobody has to call it.
* `KeyRotation`: time passes and verifiers go on checking signatures (weak);
  the operator goes on distributing a certificate until it applies (strong, since
  an early certificate is refused) as steps 3 and 4 of the documented procedure
  say. Nobody has to issue anything.
* `AuditLog`: a running thread goes on. A lock that is free is got.
* `FederatedNode`: a node goes on gossiping what it lists as long as it changes
  something. Nobody has to sign and the transport has to deliver nothing.
* `ServiceApi`: a thread goes on with the request it has begun; nobody has to send one.
  Its properties are safety properties.
* The other modules state no fairness and no liveness: registries, workers and hosts
  may stop at any time, and what they promise is safety.

## What is proved

For every value of the constants, under the named `ASSUME`s of each module, which TLC
evaluates on its instance. They are of these kinds:

* Bounds are naturals; sets of threads and workers are finite; `Never` is no time.
* What callers hand in is what the constructors and wire models let through
  (`OffersAssumption`, `IdentitiesAssumption`, `RequestModelsAssumption`,
  `HardenedAssumption`, `SchemasAssumption`, `LeaseRequestsAssumption`,
  `RegistryAssumption`, `PlansAssumption`, `SubmittedAssumption`, `InputsAssumption`,
  `JobsAssumption`): a list is a sequence, a confidence is within its bounds, a goal's
  parent comes before it, a tool of an adapter declares what that adapter can declare.
  `ThresholdAssumption` is what the federation's constructor refuses otherwise,
  `WeightsAssumption` and `TypesAssumption` speak of tables that are part of the code.
* Entities with the same name, kind and token are one entity, which is how `entities.py`
  compares them (`ServiceApi`). Requests come sealed (`SealAssumption`); nothing is assumed of what alters them. A path is written with more characters than
  one it lies below (`CharactersAssumption`). Names of kinds of resources are strings,
  which TLC knows and the prover does not. Where a theorem of `KeyRotation` says so, the
  procedure of rotation is followed.

| Module | Theorem | Inductive invariant and argument |
|---|---|---|
| `CapabilityGateProofs` | `TypeCorrect`, `RootGrantAlwaysCovers`, `ChainAlwaysHeldByItsSigners`, `EveryGrantAlwaysHolds`, `RevocationAlwaysBinds`, `WalkAlwaysBounded` | the chain visited so far is linked step by step and starts at an admitted grant of the actor; what was `found` was closed by a root grant; each passed layer is remembered by `pc`. The properties speak of the end of the walk, the invariant of every turn. |
| `CapabilityGateProofs` | `PermitAlwaysAsSealed` | of an action whose hash is still the one it was sealed with: the canonical gate recomputed it, hashes are injective, and so two actions with one hash agree on every field that is hashed, through proofs, notices and consents. The issuer is not hashed; but a node of the chain has a valid signature over it, and one signature is over one issuer. An action that was sealed anew is not spoken of: the hash has no key, and what holds of it are the other theorems. |
| `CapabilityGateProofs` | `GateImplementsPolicy` | the refinement, step by step. Every turn of the loops is a stutter of `Authorization`; the step that decides must decide as the policy does. A denial: the node the walk stopped at is on every path from that grant, since a parent hash names the first proof that carries it and no other, so no path reaches a root; a walk that exceeds the depth has visited as many nodes as a permitted path has. A permit: the positions visited are such a path, for each grant of the actor, and each layer that was passed is a conjunct of the policy. |
| `OwnershipRegistryProofs` | `TypeCorrect`, `IndexAlwaysConsistent` | list and index are equal and finite; each mutator drops all or none of the claims equal to one it drops, so counting equals in `_index_remove` removes just those. |
| `OwnershipRegistryProofs` | `AuthorityAlwaysConserved` | every claim of list *and index* is within one asserted claim: `delegate` picks from the index. |
| `OwnershipRegistryProofs` | `ConflictsAlwaysRecorded` | claims are numbered by insertion, and no claim that is valid now was invalid when a later one came: validity is only lost, so the rivals that `add_claim` looked at include all that matter. |
| `OwnershipRegistryProofs` | `OwnersAlwaysEnrolled` | an owner is enrolled before it is put on record, and enrolment never replaces a token. |
| `OwnershipRegistryProofs` | `RevocationAlwaysImmediate` | index and list agree, so that what `Drop` leaves in one it leaves in the other: nothing of the holder is found, and a delegated claim whose delegator is not found is not usable. |
| `OwnershipRegistryProofs` | `CascadeAlwaysLeavesNoDelegate` | `Downstream` is the least set of names that holds the first and the holders of what its members delegated, hence closed; the cascade drops the claims of exactly these. |
| `OwnershipRegistryProofs` | `SnapshotAlwaysIsolated` | the copies of `freeze` have identities of their own, above `MaxClaims` (`Detached`), and no mutator assigns an epoch there. A snapshot starts with the verdicts of the live registry: the copies stand in the order of the originals, so the first of the best usable claims is the copy of the first. |
| `RustRegistryProofs` | `PermitsAlwaysAsserted` | every claim of both registries is within an asserted offer on a resource of the same name and type; the engine, which matches holders by name, answers with the confidence of one of them. |
| `RustRegistryProofs` | `SnapshotAlwaysNeverGains` | the snapshot is frozen: its claims and owners only shrink, and what a smaller registry permits, or time having passed, a larger one permitted. |
| `RustRegistryProofs` | `PlansAlwaysStopWhereTheyMust` | the loop is unfolded by the least number of turns for which it would not be defined. After every turn the taint is the highest label read so far and no step was bad, or the plan is blocked at the first that was (`Faithful`). Three ranks are what makes the highest label one that was read. |
| `RustRegistryProofs` | `QueriesAlwaysAgreeWithGate` | a claim that the registry's own query counts is one that the engine counts, since equal keys have equal names and types, so the most of the one is within the most of the other; a machine has one owner on record, and machines of one name are one entity. |
| `RustRegistryProofs` | `TypeAlwaysCorrect` | claims stand under the numbers given out, a recorded conflict names a claim that was there, and only `freeze` sets the flag, on a copy. |
| `RustRegistryProofs` | `AnswersAlwaysResults` | a confidence is `Full` or that of a valid claim, hence never negative, and none only where nothing covers; the least of them is attained. |
| `RustRegistryProofs` | `AnswersAlwaysAgreeWithGate` | the four above and below it, and the graph's reports: a machine is reported exactly if the gate finds it unowned. For a claim across domains that is not reported the gate's answer is unfolded, and the grant that silences the report is the one the gate looks for. The report ignores the operations of a grant (`authority_graph.rs:192-212`) and the gate does not, so what the grant leaves out is excepted in the statement. |
| `RustRegistryProofs` | `RepliesAlwaysWholeIfTheyFit` | by the cases of `write_buf`. It is assumed that an answer is at least a byte long. |
| `ServiceApiProofs` | `AlwaysAccounted` | every figure, and every figure a thread has read and not written back, leaves room for the threads that have recorded and still have to count: the number of those threads is part of the invariant, as a cardinality. |
| `ServiceApiProofs` | `MachineRightsAlwaysFromOwner` | the index is the list; claims of humans bear the tokens that are enrolled, so the owner a thread found in its first call is still the entity that holds the claim the second call delegates from; what the thread found was on record since its request began. A delegation after a new registration may thus come from the former owner, and only from one of the same request. |
| `ServiceApiProofs` | `VerdictAlwaysCurrent` | index and list are equal, so the copy taken at arrival answers as the live registry does; no step between arrival and verdict touches the copy. The service model's clock stands: no claim expires while a request is served. |
| `KeyRotationProofs` | `TypeCorrect`, `OnlyVouchedAlwaysAccepted` | the pending certificate's new key is vouched for; the set of vouched keys only grows. |
| `KeyRotationProofs` | `AfterWindowAlwaysOnlyNew` | under `Procedure`: every key signs one certificate, for a younger key. A certificate whose window is over is still pending, and then the next call performs the cutover, or its key is older than the current one (`Overtaken`); ages only grow, so an answer never contains it. |
| `HostProofs` | `ReplaysAlwaysBounded` | the permits of an id and the workers that have looked it up and not yet added it are at most as many as the workers: once the id is in, nobody looks it up with success any more (a cardinality, as in the service). |
| `HostProofs` | `ToolAlwaysWithinAuthority` | what a worker holds at each step: the view it was screened against, and that the view permits the action; the rights read for the tool ABI come from the same view. |
| `HostProofs` | `ConsentAlwaysStands` | while a list is being judged, those on it that still stand are remembered by the history; a record that was found valid was standing at the time it was collected. |
| `HostProofs` | `ContextsAlwaysWithinAncestors` | a context's parent comes before it, its depth is one more and its expiry no later; its chain is its parent's and itself, so it is one larger. |
| `AuditLogProofs` | `FileChainAlwaysIntact` | until a fault, the tip is the head of the file whenever the lock is free, and the entry of the lock's holder links to it. |
| `AuditLogProofs` | `FileAlwaysComplete` | ids on the file and ids being recorded are all distinct; the entries in memory, without the one that is linked but not yet written, are the newest of the file. A part of an intact chain verifies on its own. |
| `FederatedNodeProofs` | `TypeCorrect`, `RevokedAlwaysStaysRevoked`, `AcceptedAlwaysSigned` | a node's epoch covers every event it lists; signature sets are finite and only grow. |
| `FederatedNodeProofs` | `ClocksAlwaysCausal` | no clock, of a node or an event, is ahead of a node's own count of its events; a node's clock covers what it lists, so a later event's clock is strictly above all its issuer knew. |
| `HostProofs` | `LayersAlwaysOnlyRestrict` | the registry's agreement of list and index, the input unchanged, and that the last tool run was permitted when it ran. Each layer is reduced to an answer of the gate: a policy asks the gate last; a goal tree is a sequence in which a parent precedes its goals, so a result is built place by place, and a goal that is permitted was judged for all that lies below it; what an adapter runs had been submitted with the declared resources; what the flow checker and the loop of a plan let through is found step by step up to the first refusal. |
| `HostProofs` | `ReadingsAlwaysAgree` | the lines read so far carry the statements read so far (`TextParsed`), and a compiled rule matches what its statement names; a maximum over more phrases is no smaller; the reasons against a consent are the negations of what makes it valid. |
| `HostProofs` | `GroupDecisionsAlwaysSound` | the votes are partitioned by what they cast, so that permits over the threshold leave fewer denials; an engine's admitted list and every proposal queued keep to the hard invariants, turn by turn of the hooks; nonces of commitments are their places, hence distinct; a plan that the gate permits step by step has the coverage the analysis asks for. |

Recursive functions over sequences (goal trees, readings, plans, results of hooks) are
given their values by `Recursion`, `Iteration` and `PlaceByPlace` of `HostProofs`: a
function that agrees with the definition on every initial segment exists, place by
place, and hence the `CHOOSE` of the definition is one.

Only model-checked, and why:

* Liveness (`EveryCallReturns`, `Convergence`, `EveryRecordReturns`,
  `RevocationSpreads`): the prover has neither fairness nor `ENABLED`.
* `WalksAgreeWithGate`: `dfs_verify` recurses over a tree of goals, `detect_cycles` and
  `reachable_from` over the graph. They are RECURSIVE operators, and what a recursion
  over data computes for every input needs an induction theorem that takes an
  operator. The prover has no arithmetic in a module with RECURSIVE operators, which
  is why `RustKernel` is apart from `KernelAnalyses`.
* `WalksAgree`: the walks along delegations, dependencies and governance links
  (depth-first searches with colours, Kahn's algorithm, depths with a set of nodes seen)
  are compared with the transitive closure of what they walk along, again by induction
  over data. Its comparison of analyses holds for unique names of resources, scopes and
  machines, as in the instance.

## Not modelled

Bytes and formats (canonical encodings are tuples, parsing of JSON is a conversion at
the boundary), cryptographic strength, what a tool does once it runs, operating-system
filters, texts of messages and reports.

Within modelled components: the audit entries of the Python verifier's `verify_plan`; the
decisions of a partitioned node about crossing domains (`PartitionPolicy`); the optional
audit log of the verifiers in `TaskExecution` (the log has a module and the service a
counter for it); the tracer; the raising conflict hook and audit call of the Rust registry
(the Python registry has the hook); `register_kernel` of the federation, whose set of
kernels is a constant; the conflict queue beyond what the service does with it.

Whole components: the sequence limit, which nothing in the repository calls; the semantic
gate and the Rust compass, scores of single calls that relate no two states; support
modules, the attack harness, examples, benchmarks, proof harnesses, the command-line
tool and the bindings, which hold no behaviour of the system.

## Plan

What is left, in this order:

1. `reachable_from` and `detect_cycles` as functions over the finite set of names, for
   which an induction over the names visited can be written out; then the governance
   links and the order of plans, whose searches have the same shape. That would move
   `WalksAgreeWithGate` and `WalksAgree` to what is proved.
2. Models: the audit entries of `verify_plan` over one snapshot, beside mutators; how a
   partitioned node decides (`PartitionPolicy`) while revocations are on their way.
