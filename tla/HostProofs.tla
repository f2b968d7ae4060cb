------------------------------- MODULE HostProofs -------------------------------
(***************************************************************************)
(* What surrounds the gate, for any constants.                             *)
(*                                                                         *)
(* First the agent host of TaskExecution: what a tool ran on, what a       *)
(* consent rests on, how often a replay passes and how long a context      *)
(* lasts.  Each call goes through the steps of its own kind; the           *)
(* invariants say what a worker holds at each of them.                     *)
(*                                                                         *)
(* Then the layers of PolicyHost: policies, goal trees, adapters and the   *)
(* sandbox only restrict, readers agree with what they read, and agents    *)
(* decide together as the rules say.  Those are facts about functions of   *)
(* a view, so the invariant is that of the registry; a recursion over      *)
(* places is shown to have a value by Recursion, and what its places       *)
(* carry by Carried.                                                       *)
(***************************************************************************)
EXTENDS TaskExecution, PolicyHost, OwnershipRegistryProofs, SequenceTheorems

-------------------------------------------------------------------------------
(* The steps of a call *)

\* The kind of call that passes through a step, as far as it matters.
Staged(kind, step) ==
    /\ step \in {"consent", "collected"} => kind = "consent"
    /\ step \in {"entered", "context"} => kind = "context"
    /\ step \in {"hardened", "judging", "permitted"} => kind = "hardened"
    /\ step \in {"gate", "sandbox"} => kind = step
    /\ step = "screened" => kind \in {"gate", "sandbox"}

Stages ==
    /\ DOMAIN at = Workers /\ DOMAIN held = Workers /\ DOMAIN call = Workers
    /\ \A w \in Workers : /\ at[w] # "idle" => call[w] \in Calls
                          /\ Staged(call[w].kind, at[w])

\* A worker's own step changes its own place and what it holds, nothing else.
LEMMA StepFacts ==
    ASSUME Stages, NEW w \in Workers, NEW from, NEW to, NEW what, Step(w, from, to, what)
    PROVE  /\ at[w] = from /\ at'[w] = to /\ held'[w] = what /\ call' = call
           /\ DOMAIN at' = Workers /\ DOMAIN held' = Workers
           /\ \A u \in Workers \ {w} : at'[u] = at[u] /\ held'[u] = held[u]
BY DEF Step, Stages

LEMMA BeginFacts ==
    ASSUME Stages, NEW w \in Workers, NEW c \in Calls, Begin(w, c)
    PROVE  /\ at[w] \in {"idle", "granted", "denied"}
           /\ at'[w] = c.kind /\ call'[w] = c /\ c.kind \in Kinds
           /\ DOMAIN at' = Workers /\ DOMAIN held' = Workers /\ DOMAIN call' = Workers
           /\ \A u \in Workers \ {w} : at'[u] = at[u] /\ held'[u] = held[u] /\ call'[u] = call[u]
BY CallsAssumption DEF Begin, Stages

\* The steps a worker takes, with the step each leaves and may reach.
LEMMA WorkerSteps ==
    ASSUME NEW w, WorkerNext(w)
    PROVE  \/ \E c \in Calls : Begin(w, c)
           \/ \E to \in {"entered", "denied"} : \E what : Step(w, "context", to, what)
           \/ \E to \in {"granted", "denied"} : \E what : Step(w, "entered", to, what)
           \/ \E what : Step(w, "hardened", "judging", what)
           \/ \E to \in {"permitted", "denied"} : \E what : Step(w, "judging", to, what)
           \/ \E what : Step(w, "permitted", "granted", what)
           \/ \E kind \in {"gate", "sandbox"}, to \in {"screened", "denied"} : \E what :
                 Step(w, kind, to, what)
           \/ \E to \in {"granted", "denied"} : \E what : Step(w, "screened", to, what)
           \/ \E to \in {"collected", "denied"} : \E what : Step(w, "consent", to, what)
           \/ \E to \in {"granted", "denied"} : \E what : Step(w, "collected", to, what)
<1>1. CASE EnterContext(w)
  BY <1>1 DEF EnterContext
<1>2. CASE AskGate(w)
  BY <1>2 DEF AskGate, Answer
<1>3. CASE TakeSnapshot(w)
  BY <1>3 DEF TakeSnapshot
<1>4. CASE Judge(w)
  BY <1>4 DEF Judge
<1>5. CASE Commit(w)
  BY <1>5 DEF Commit
<1>6. ASSUME NEW kind \in {"gate", "sandbox"}, Screen(w, kind)
      PROVE  \E to \in {"screened", "denied"} : \E what : Step(w, kind, to, what)
  BY <1>6 DEF Screen
<1>7. ASSUME NEW raises \in BOOLEAN, Invoke(w, raises)
      PROVE  \E to \in {"granted", "denied"} : \E what : Step(w, "screened", to, what)
  BY <1>7 DEF Invoke, Answer
<1>8. CASE CollectConsents(w)
  BY <1>8 DEF CollectConsents
<1>9. CASE EvaluateConsents(w)
  BY <1>9 DEF EvaluateConsents, Answer
<1> QED BY <1>1, <1>2, <1>3, <1>4, <1>5, <1>6, <1>7, <1>8, <1>9 DEF WorkerNext

\* The host leaves the workers alone.
LEMMA HostFacts ==
    ASSUME HostNext
    PROVE  UNCHANGED worker
BY DEF HostNext, HostOp, spawn, revoke_context, grant, revoke_consent, request_capability,
       revoke_lease, RevokeClaims, NewVerifier, TimePasses

LEMMA InitStages == TaskInit => Stages
BY DEF TaskInit, Stages, Staged

LEMMA NextStages == Stages /\ [TaskNext]_taskVars => Stages'
<1> SUFFICES ASSUME Stages, [TaskNext]_taskVars PROVE Stages'
  OBVIOUS
<1>1. CASE UNCHANGED <<at, held, call>>
  BY <1>1 DEF Stages
<1>2. ASSUME NEW w \in Workers, NEW c \in Calls, Begin(w, c) PROVE Stages'
  BY <1>2, BeginFacts DEF Stages, Staged, Kinds
<1>3. ASSUME NEW w \in Workers, NEW from, NEW to, NEW what, Step(w, from, to, what),
             from # "idle", Staged(call[w].kind, from) => Staged(call[w].kind, to)
      PROVE  Stages'
  <2>1. /\ at[w] = from /\ at'[w] = to /\ call' = call
        /\ DOMAIN at' = Workers /\ DOMAIN held' = Workers
        /\ \A u \in Workers \ {w} : at'[u] = at[u]
    BY <1>3, StepFacts
  <2> QED BY <1>3, <2>1 DEF Stages
<1>4. ASSUME NEW w \in Workers, WorkerNext(w) PROVE Stages'
  BY <1>2, <1>3, <1>4, WorkerSteps DEF Staged
<1>5. CASE HostNext
  BY <1>1, <1>5, HostFacts DEF worker
<1> QED BY <1>1, <1>4, <1>5 DEF TaskNext, taskVars, worker

-------------------------------------------------------------------------------
(* Replays *)

\* Workers whose call was found fresh and whose key is not kept yet.
Racing(k) == {w \in Workers : at[w] = "permitted" /\ ReplayKey(call[w]) = k}

\* The inductive invariant: whoever is still racing for a key may be permitted
\* once more, and together they are no more than the workers.
RaceInv ==
    /\ Stages
    /\ DOMAIN authorised \subseteq _seen
    /\ \A k : /\ Often(authorised, k) \in Nat
             /\ Often(authorised, k) + Cardinality(Racing(k)) <= Cardinality(Workers)

LEMMA RacingFinite ==
    ASSUME NEW R \in SUBSET Workers
    PROVE  /\ IsFiniteSet(R) /\ Cardinality(R) \in Nat /\ Cardinality(Workers) \in Nat
           /\ Cardinality(R) <= Cardinality(Workers)
BY WorkersAssumption, FS_Subset, FS_CardinalityType

LEMMA InitRace == TaskInit => RaceInv
<1> SUFFICES ASSUME TaskInit PROVE RaceInv
  OBVIOUS
<1>1. \A k : Often(authorised, k) = 0
  BY DEF TaskInit, Often
<1>2. \A k : Racing(k) \subseteq Workers
  BY DEF Racing
<1> QED BY <1>1, <1>2, InitStages, RacingFinite DEF TaskInit, RaceInv

\* Nobody joins the race and nothing is counted.
LEMMA SameRace ==
    ASSUME RaceInv, [TaskNext]_taskVars, UNCHANGED <<authorised, _seen>>,
           \A k : Racing(k)' \subseteq Racing(k)
    PROVE  RaceInv'
<1>1. Stages'
  BY NextStages DEF RaceInv
<1>2. ASSUME NEW k PROVE Cardinality(Racing(k)') <= Cardinality(Racing(k))
  <2>1. Racing(k) \subseteq Workers
    BY DEF Racing
  <2>2. PICK R, Q : R = Racing(k) /\ Q = Racing(k)'
    OBVIOUS
  <2> QED BY <2>1, <2>2, RacingFinite, FS_Subset
<1>3. \A k : Racing(k) \in SUBSET Workers /\ Racing(k)' \in SUBSET Workers
  BY DEF Racing
<1>4. ASSUME NEW k
      PROVE  /\ Often(authorised', k) \in Nat
             /\ Often(authorised', k) + Cardinality(Racing(k)') <= Cardinality(Workers)
  <2>1. PICK m, n, c : m = Cardinality(Racing(k)') /\ n = Cardinality(Racing(k))
                       /\ c = Cardinality(Workers)
    OBVIOUS
  <2>2. m \in Nat /\ n \in Nat /\ c \in Nat
    BY <1>3, <2>1, RacingFinite
  <2> QED BY <1>2, <2>1, <2>2 DEF RaceInv
<1> QED BY <1>1, <1>4 DEF RaceInv

LEMMA JudgeRaces ==
    ASSUME RaceInv, NEW w \in Workers, Judge(w)
    PROVE  RaceInv'
<1>1. Stages'
  BY NextStages DEF RaceInv, TaskNext, WorkerNext
<1>2. UNCHANGED <<authorised, _seen>> /\ call' = call
  BY DEF Judge, Step
<1>3. ASSUME NEW k, k \in _seen PROVE Racing(k)' \subseteq Racing(k)
  <2>1. CASE ReplayKey(call[w]) = k
    <3>1. <<"REPLAY_DENIED", k>> \in
             HardenedViolations(Hardened, held[w], _seen, call[w].action, call[w].action.actor, now)
      BY <1>3, <2>1 DEF HardenedViolations, ReplayKey
    <3>2. Step(w, "judging", "denied", NoCall)
      BY <3>1 DEF Judge
    <3> QED BY <1>2, <3>2, StepFacts DEF Racing, RaceInv
  <2>2. CASE ReplayKey(call[w]) # k
    <3>1. \A u \in Workers \ {w} : at'[u] = at[u]
      BY StepFacts DEF Judge, RaceInv
    <3> QED BY <1>2, <2>2, <3>1 DEF Racing, ReplayKey
  <2> QED BY <2>1, <2>2
<1>4. ASSUME NEW k
      PROVE  /\ Often(authorised', k) \in Nat
             /\ Often(authorised', k) + Cardinality(Racing(k)') <= Cardinality(Workers)
  <2>1. PICK R, Q : R = Racing(k) /\ Q = Racing(k)'
    OBVIOUS
  <2>2. R \in SUBSET Workers /\ Q \in SUBSET Workers
    BY <2>1 DEF Racing
  <2>3. CASE k \in _seen
    <3>1. Q \subseteq R
      BY <1>3, <2>1, <2>3
    <3>2. Cardinality(Q) <= Cardinality(R)
      BY <2>2, <3>1, RacingFinite, FS_Subset
    <3>3. Cardinality(Q) \in Nat /\ Cardinality(R) \in Nat /\ Cardinality(Workers) \in Nat
      BY <2>2, RacingFinite
    <3>4. Often(authorised, k) \in Nat
          /\ Often(authorised, k) + Cardinality(R) <= Cardinality(Workers)
      BY <2>1 DEF RaceInv
    <3> QED BY <1>2, <2>1, <3>2, <3>3, <3>4
  <2>4. CASE k \notin _seen
    <3>1. Often(authorised', k) = 0
      BY <1>2, <2>4 DEF RaceInv, Often
    <3>2. Cardinality(Q) \in Nat /\ Cardinality(Q) <= Cardinality(Workers)
      BY <2>2, RacingFinite
    <3> QED BY <2>1, <3>1, <3>2
  <2> QED BY <2>3, <2>4
<1> QED BY <1>1, <1>2, <1>4 DEF RaceInv

LEMMA CommitRaces ==
    ASSUME RaceInv, NEW w \in Workers, Commit(w)
    PROVE  RaceInv'
<1> DEFINE key == ReplayKey(call[w])
<1>1. Stages'
  BY NextStages DEF RaceInv, TaskNext, WorkerNext
<1>2. /\ at[w] = "permitted" /\ at'[w] = "granted" /\ call' = call
      /\ \A u \in Workers \ {w} : at'[u] = at[u]
      /\ _seen' = _seen \cup {key} /\ authorised' = OnceMore(authorised, key)
  BY StepFacts DEF Commit, RaceInv, Executed
<1>3. DOMAIN authorised' \subseteq _seen'
  BY <1>2 DEF OnceMore, RaceInv
<1>4. ASSUME NEW k
      PROVE  /\ Often(authorised', k) \in Nat
             /\ Often(authorised', k) + Cardinality(Racing(k)') <= Cardinality(Workers)
  <2>1. PICK R, Q : R = Racing(k) /\ Q = Racing(k)'
    OBVIOUS
  <2>2. R \in SUBSET Workers /\ Q \in SUBSET Workers
    BY <2>1 DEF Racing
  <2>3. /\ Cardinality(Q) \in Nat /\ Cardinality(R) \in Nat /\ Cardinality(Workers) \in Nat
        /\ IsFiniteSet(R)
    BY <2>2, RacingFinite
  <2>4. Often(authorised, k) \in Nat
        /\ Often(authorised, k) + Cardinality(R) <= Cardinality(Workers)
    BY <2>1 DEF RaceInv
  <2>5. CASE k = key
    <3>1. w \in R /\ Q = R \ {w}
      BY <1>2, <2>1, <2>5 DEF Racing, ReplayKey
    <3>2. Cardinality(Q) = Cardinality(R) - 1
      BY <2>3, <3>1, FS_RemoveElement
    <3>3. Often(authorised', k) = Often(authorised, k) + 1
      BY <1>2, <2>5 DEF OnceMore, Often
    <3> QED BY <2>1, <2>3, <2>4, <3>2, <3>3
  <2>6. CASE k # key
    <3>1. Q = R
      BY <1>2, <2>1, <2>6 DEF Racing, ReplayKey
    <3>2. Often(authorised', k) = Often(authorised, k)
      BY <1>2, <2>6 DEF OnceMore, Often
    <3> QED BY <2>1, <2>4, <3>1, <3>2
  <2> QED BY <2>5, <2>6
<1> QED BY <1>1, <1>3, <1>4 DEF RaceInv

LEMMA NextRace == RaceInv /\ [TaskNext]_taskVars => RaceInv'
<1> SUFFICES ASSUME RaceInv, [TaskNext]_taskVars PROVE RaceInv'
  OBVIOUS
<1>1. ASSUME UNCHANGED worker PROVE RaceInv'
  <2>1. \A k : Racing(k)' \subseteq Racing(k)
    BY <1>1 DEF worker, Racing, ReplayKey
  <2> QED BY <1>1, <2>1, SameRace DEF worker
<1>2. ASSUME NEW w \in Workers, NEW c \in Calls, Begin(w, c) PROVE RaceInv'
  <2>1. \A k : Racing(k)' \subseteq Racing(k)
    BY <1>2, BeginFacts DEF Racing, ReplayKey, RaceInv, Kinds
  <2> QED BY <1>2, <2>1, SameRace DEF Begin
<1>3. ASSUME NEW w \in Workers, NEW from, NEW to, NEW what, Step(w, from, to, what),
             to # "permitted", UNCHANGED <<authorised, _seen>>
      PROVE  RaceInv'
  <2>1. \A k : Racing(k)' \subseteq Racing(k)
    BY <1>3, StepFacts DEF Racing, ReplayKey, RaceInv
  <2> QED BY <1>3, <2>1, SameRace
<1>4. ASSUME NEW w \in Workers, EnterContext(w) PROVE RaceInv'
  BY <1>3, <1>4 DEF EnterContext
<1>5. ASSUME NEW w \in Workers, AskGate(w) PROVE RaceInv'
  BY <1>3, <1>5 DEF AskGate, Answer
<1>6. ASSUME NEW w \in Workers, TakeSnapshot(w) PROVE RaceInv'
  BY <1>3, <1>6 DEF TakeSnapshot
<1>7. ASSUME NEW w \in Workers, NEW kind \in {"gate", "sandbox"}, Screen(w, kind) PROVE RaceInv'
  BY <1>3, <1>7 DEF Screen
<1>8. ASSUME NEW w \in Workers, NEW raises \in BOOLEAN, Invoke(w, raises) PROVE RaceInv'
  BY <1>3, <1>8 DEF Invoke, Answer
<1>9. ASSUME NEW w \in Workers, CollectConsents(w) \/ EvaluateConsents(w) PROVE RaceInv'
  BY <1>3, <1>9 DEF CollectConsents, EvaluateConsents, Answer
<1>10. ASSUME NEW w \in Workers, WorkerNext(w) PROVE RaceInv'
  BY <1>2, <1>4, <1>5, <1>6, <1>7, <1>8, <1>9, <1>10, JudgeRaces, CommitRaces DEF WorkerNext
<1>11. CASE HostNext
  BY <1>1, <1>11, HostFacts
<1>12. CASE UNCHANGED taskVars
  BY <1>1, <1>12 DEF taskVars
<1> QED BY <1>10, <1>11, <1>12 DEF TaskNext

\* HardenedVerifier: however many threads run the same action, it is permitted
\* no more often than there are threads, although the executed keys are read and
\* written in two steps.
THEOREM ReplaysAlwaysBounded == TaskSpec => []ReplaysBounded
<1>1. ASSUME RaceInv, NEW k \in DOMAIN authorised
      PROVE  authorised[k] <= Cardinality(Workers)
  <2>1. PICK R : R = Racing(k)
    OBVIOUS
  <2>2. Cardinality(R) \in Nat /\ Cardinality(Workers) \in Nat
    BY <2>1, RacingFinite DEF Racing
  <2>3. /\ Often(authorised, k) \in Nat /\ Often(authorised, k) = authorised[k]
        /\ Often(authorised, k) + Cardinality(R) <= Cardinality(Workers)
    BY <1>1, <2>1 DEF RaceInv, Often
  <2> QED BY <2>2, <2>3
<1>2. RaceInv => ReplaysBounded
  BY <1>1 DEF ReplaysBounded
<1> QED BY <1>2, InitRace, NextRace, PTL DEF TaskSpec

-------------------------------------------------------------------------------
(* Tools *)

\* What ToolWithinAuthority says of a call c that was decided on view g at t.
WithinAuthority(c, g, t) ==
    LET s == Schemas[c.tool]
        Permitted(op, r) == Acts(g, c.action.actor, r, op, c.action.min_epoch, t)
    IN  /\ \A op \in s.required_rights \cap Operations :
              \E r \in c.action.uses[op] : Permitted(op, r)
        /\ \A right \in s.required_rights \ Operations :
              \E op \in {"read", "write"} : \E r \in c.action.uses[op] :
                  right \in TypeRights[r] /\ Permitted(op, r)
        /\ c.kind = "sandbox" /\ is_delegated(g, c.action.actor) => s.is_delegable

ToolInv ==
    /\ Stages
    /\ \A x \in invoked : WithinAuthority(x.call, x.view, x.time)
    /\ \A w \in Workers : at[w] = "screened" =>
           WithinAuthority(call[w], held[w].view, held[w].time)

\* A permitted action can be exercised in every one of its uses.
LEMMA PermittedUses ==
    ASSUME NEW g, NEW a, NEW t, verify(g, a, t).permitted,
           NEW op \in Operations, NEW r \in Resources, r \in a.uses[op]
    PROVE  Acts(g, a.actor, r, op, a.min_epoch, t)
<1>1. Violations(g, a, t) = {}
  BY DEF verify
<1>2. <<op, r>> \in Uses(a)
  BY DEF Uses
<1>3. ASSUME ~Acts(g, a.actor, r, op, a.min_epoch, t) PROVE FALSE
  <2>1. <<"DENIED", <<op, r>>>> \in Violations(g, a, t)
    BY <1>2, <1>3 DEF Violations
  <2> QED BY <1>1, <2>1
<1> QED BY <1>3

\* What the screening of a call lets through is within authority: the rights
\* that validate_call compares are those of the action the gate permitted.
LEMMA ScreeningSound ==
    ASSUME NEW c \in Calls, NEW g, NEW t, NEW delegated,
           verify(g, c.action, t).permitted,
           validate_call(c.tool, c.args, _extract_rights(c.action), delegated),
           c.kind = "sandbox" /\ is_delegated(g, c.action.actor) => delegated
    PROVE  WithinAuthority(c, g, t)
<1> DEFINE required == Schemas[c.tool].required_rights
           Permitted(op, r) == Acts(g, c.action.actor, r, op, c.action.min_epoch, t)
<1>1. /\ required \subseteq _extract_rights(c.action)
      /\ delegated => Schemas[c.tool].is_delegable
  BY DEF validate_call
<1>2. c.action.uses \in [Operations -> SUBSET Resources]
  BY CallsAssumption
<1>3. \A op \in Operations : \A r \in c.action.uses[op] : r \in Resources /\ Permitted(op, r)
  BY <1>2, PermittedUses
<1>4. ASSUME NEW op \in required \cap Operations
      PROVE  \E r \in c.action.uses[op] : Permitted(op, r)
  <2>1. op \notin {"network", "model_invoke"}
    BY DEF Operations
  <2>2. "read" \in Operations /\ "write" \in Operations
    BY DEF Operations
  <2>3. op \notin UNION {TypeRights[r] : r \in c.action.uses["read"] \cup c.action.uses["write"]}
    BY <1>2, <2>1, <2>2, TypeRightsAssumption
  <2>4. c.action.uses[op] # {}
    BY <1>1, <2>3 DEF _extract_rights
  <2> QED BY <1>3, <2>4
<1>5. ASSUME NEW right \in required \ Operations
      PROVE  \E op \in {"read", "write"} : \E r \in c.action.uses[op] :
                right \in TypeRights[r] /\ Permitted(op, r)
  <2>1. right \in UNION {TypeRights[r] : r \in c.action.uses["read"] \cup c.action.uses["write"]}
    BY <1>1, <1>5 DEF _extract_rights
  <2>2. PICK r \in c.action.uses["read"] \cup c.action.uses["write"] : right \in TypeRights[r]
    BY <2>1
  <2>3. "read" \in Operations /\ "write" \in Operations
    BY DEF Operations
  <2> QED BY <1>3, <2>2, <2>3
<1> QED BY <1>1, <1>4, <1>5 DEF WithinAuthority

LEMMA ScreenSound ==
    ASSUME ToolInv, NEW w \in Workers, NEW kind \in {"gate", "sandbox"}, Screen(w, kind)
    PROVE  at'[w] = "screened" => WithinAuthority(call'[w], held'[w].view, held'[w].time)
<1> SUFFICES ASSUME at'[w] = "screened"
             PROVE  WithinAuthority(call'[w], held'[w].view, held'[w].time)
  OBVIOUS
<1> DEFINE c == call[w]
           delegated == kind = "sandbox" /\ is_delegated(verifier, c.action.actor)
           passes == /\ verify(verifier, c.action, now).permitted
                     /\ validate_call(c.tool, c.args, _extract_rights(c.action), delegated)
<1>1. Step(w, kind, IF passes THEN "screened" ELSE "denied",
           IF passes THEN [view |-> verifier, time |-> now] ELSE NoCall)
  BY DEF Screen
<1>2. /\ at[w] = kind /\ call' = call
      /\ at'[w] = (IF passes THEN "screened" ELSE "denied")
      /\ held'[w] = (IF passes THEN [view |-> verifier, time |-> now] ELSE NoCall)
  <2> HIDE DEF passes
  <2> QED BY <1>1, StepFacts DEF ToolInv
<1>3. passes
  <2> HIDE DEF passes
  <2> QED BY <1>2
<1>4. held'[w] = [view |-> verifier, time |-> now]
  BY <1>2, <1>3
<1>5. c \in Calls /\ c.kind = kind
  BY <1>2 DEF ToolInv, Stages, Staged
<1>6. WithinAuthority(c, verifier, now)
  BY <1>3, <1>5, ScreeningSound
<1> QED BY <1>2, <1>4, <1>6

LEMMA NextTool == ToolInv /\ [TaskNext]_taskVars => ToolInv'
<1> SUFFICES ASSUME ToolInv, [TaskNext]_taskVars PROVE ToolInv'
  OBVIOUS
<1>0. Stages /\ Stages'
  BY NextStages DEF ToolInv
<1>1. ASSUME UNCHANGED worker PROVE ToolInv'
  BY <1>0, <1>1 DEF worker, ToolInv
<1>2. ASSUME NEW w \in Workers, NEW c \in Calls, Begin(w, c) PROVE ToolInv'
  <2>1. /\ at'[w] # "screened" /\ invoked' = invoked
        /\ \A u \in Workers \ {w} : at'[u] = at[u] /\ held'[u] = held[u] /\ call'[u] = call[u]
    BY <1>0, <1>2, BeginFacts DEF Kinds, Begin
  <2> QED BY <1>0, <2>1 DEF ToolInv
<1>3. ASSUME NEW w \in Workers, NEW from, NEW to, NEW what, Step(w, from, to, what),
             at'[w] = "screened" => WithinAuthority(call'[w], held'[w].view, held'[w].time),
             \A x \in invoked' : WithinAuthority(x.call, x.view, x.time)
      PROVE  ToolInv'
  BY <1>0, <1>3, StepFacts DEF ToolInv
<1>4. ASSUME NEW w \in Workers, NEW from, NEW to, NEW what, Step(w, from, to, what),
             to # "screened", invoked' = invoked
      PROVE  ToolInv'
  BY <1>0, <1>3, <1>4, StepFacts DEF ToolInv
<1>5. ASSUME NEW w \in Workers, NEW kind \in {"gate", "sandbox"}, Screen(w, kind) PROVE ToolInv'
  <2>1. /\ at'[w] = "screened" => WithinAuthority(call'[w], held'[w].view, held'[w].time)
        /\ invoked' = invoked
    BY <1>5, ScreenSound DEF Screen
  <2>2. \E to, what : Step(w, kind, to, what)
    BY <1>5 DEF Screen
  <2> QED BY <1>3, <2>1, <2>2 DEF ToolInv
<1>6. ASSUME NEW w \in Workers, NEW raises \in BOOLEAN, Invoke(w, raises) PROVE ToolInv'
  <2>1. \A x \in invoked' : WithinAuthority(x.call, x.view, x.time)
    BY <1>6 DEF Invoke, ToolInv
  <2>2. PICK to : Step(w, "screened", to, NoCall) /\ to # "screened"
    BY <1>6 DEF Invoke, Answer
  <2> QED BY <1>0, <1>3, <2>1, <2>2, StepFacts
<1>7. ASSUME NEW w \in Workers, WorkerNext(w) PROVE ToolInv'
  <2>1. CASE EnterContext(w) \/ AskGate(w)
    BY <1>4, <2>1 DEF EnterContext, AskGate, Answer
  <2>2. CASE TakeSnapshot(w) \/ Judge(w) \/ Commit(w)
    BY <1>4, <2>2 DEF TakeSnapshot, Judge, Commit
  <2>3. CASE CollectConsents(w) \/ EvaluateConsents(w)
    BY <1>4, <2>3 DEF CollectConsents, EvaluateConsents, Answer
  <2> QED BY <1>2, <1>5, <1>6, <1>7, <2>1, <2>2, <2>3 DEF WorkerNext
<1>8. CASE HostNext
  BY <1>1, <1>8, HostFacts
<1>9. CASE UNCHANGED taskVars
  BY <1>1, <1>9 DEF taskVars
<1> QED BY <1>7, <1>8, <1>9 DEF TaskNext

\* CallGate and SandboxedExecutor: every tool that ran was called for an action
\* that the gate had permitted for each right the tool requires, and a holder of
\* a delegated claim ran no tool through the sandbox that is not delegable,
\* whatever the host revoked between the decision and the call.
THEOREM ToolAlwaysWithinAuthority == TaskSpec => []ToolWithinAuthority
<1>1. TaskInit => ToolInv
  BY InitStages DEF TaskInit, ToolInv
<1>2. ToolInv => ToolWithinAuthority
  BY DEF ToolInv, ToolWithinAuthority, WithinAuthority
<1> QED BY <1>1, <1>2, NextTool, PTL DEF TaskSpec

-------------------------------------------------------------------------------
(* Consents *)

\* Every record of the registry is one its grantor stands by, and every record a
\* check has collected was.
ConsentInv ==
    /\ Stages
    /\ ops \in Nat
    /\ DOMAIN _consents \subseteq standing /\ DOMAIN _consents \subseteq Nat
    /\ \A w \in Workers : at[w] = "collected" =>
          /\ DOMAIN held[w].records \subseteq held[w].standing
          /\ DOMAIN held[w].records \subseteq Nat
    /\ ConsentStands

\* The part of it that is the host's.
Recorded ==
    ops \in Nat /\ DOMAIN _consents \subseteq standing /\ DOMAIN _consents \subseteq Nat

LEMMA HostRecords == Recorded /\ HostNext => Recorded'
<1> SUFFICES ASSUME Recorded, HostNext PROVE Recorded'
  OBVIOUS
<1>1. ASSUME HostOp, UNCHANGED <<_consents, standing>> PROVE Recorded'
  BY <1>1 DEF HostOp, Recorded
<1>2. ASSUME NEW c, grant(c) PROVE Recorded'
  BY <1>2 DEF grant, HostOp, Recorded
<1>3. ASSUME NEW g, NEW e, NEW r, revoke_consent(g, e, r) PROVE Recorded'
  <2>1. /\ DOMAIN _consents' = DOMAIN _consents \ Withdrawn(g, e, r)
        /\ standing' = {n \in standing : n \in DOMAIN _consents => ~Between(_consents[n], g, e, r)}
        /\ ops' = ops + 1
    BY <1>3 DEF revoke_consent, HostOp
  <2>2. \A n \in DOMAIN _consents \ Withdrawn(g, e, r) : ~Between(_consents[n], g, e, r)
    BY DEF Withdrawn
  <2> QED BY <2>1, <2>2 DEF Recorded
<1>4. CASE UNCHANGED host
  BY <1>4 DEF host, Recorded
<1> QED BY <1>1, <1>2, <1>3, <1>4 DEF HostNext, spawn, revoke_context, request_capability,
           revoke_lease, RevokeClaims, NewVerifier, TimePasses

\* What covers an operation is chosen from the records that were collected.
LEMMA EvaluationStands ==
    ASSUME ConsentInv, NEW w \in Workers, EvaluateConsents(w)
    PROVE  at'[w] = "granted" => held'[w].by \in held'[w].standing
<1> SUFFICES ASSUME at'[w] = "granted" PROVE held'[w].by \in held'[w].standing
  OBVIOUS
<1> DEFINE covering == {n \in DOMAIN held[w].records :
                          covers(held[w].records[n], "write", call[w].ctx, now)}
           chosen == CHOOSE n \in covering : \A m \in covering : n <= m
           what == IF covering = {} THEN NoCall
                   ELSE [by |-> chosen, standing |-> held[w].standing]
<1>1. Step(w, "collected", Answer(covering # {}), what)
  BY DEF EvaluateConsents
<1>2. at[w] = "collected" /\ at'[w] = Answer(covering # {}) /\ held'[w] = what
  <2> HIDE DEF what, covering
  <2> QED BY <1>1, StepFacts DEF ConsentInv
<1>3. covering # {}
  <2> HIDE DEF covering, what
  <2> QED BY <1>2 DEF Answer
<1>4. covering \subseteq held[w].standing /\ covering \subseteq Nat
  BY <1>2 DEF ConsentInv
<1>5. chosen \in covering
  <2>1. PICK S : S = covering
    OBVIOUS
  <2>2. \E n \in S : \A m \in S : n <= m
    BY <1>3, <1>4, <2>1, LeastNatural
  <2>3. (CHOOSE n \in S : \A m \in S : n <= m) \in S
    BY <2>2
  <2> QED BY <2>1, <2>3
<1> HIDE DEF covering, chosen
<1> QED BY <1>2, <1>3, <1>4, <1>5

LEMMA NextConsent == ConsentInv /\ [TaskNext]_taskVars => ConsentInv'
<1> SUFFICES ASSUME ConsentInv, [TaskNext]_taskVars PROVE ConsentInv'
  OBVIOUS
<1> DEFINE Collected(w) == at[w] = "collected" =>
               /\ DOMAIN held[w].records \subseteq held[w].standing
               /\ DOMAIN held[w].records \subseteq Nat
           Stands(w) == at[w] = "granted" /\ call[w].kind = "consent" =>
                            held[w].by \in held[w].standing
<1>0. /\ Stages /\ Stages' /\ Recorded
      /\ \A w \in Workers : Collected(w) /\ Stands(w)
  BY NextStages DEF ConsentInv, Recorded, ConsentStands
<1>1. ASSUME Recorded', \A w \in Workers : Collected(w)' /\ Stands(w)' PROVE ConsentInv'
  BY <1>0, <1>1 DEF ConsentInv, Recorded, ConsentStands
<1>2. ASSUME UNCHANGED worker PROVE \A w \in Workers : Collected(w)' /\ Stands(w)'
  BY <1>0, <1>2 DEF worker
<1>3. ASSUME UNCHANGED <<ops, _consents, standing>> PROVE Recorded'
  BY <1>0, <1>3 DEF Recorded
<1>4. ASSUME NEW w \in Workers, NEW c \in Calls, Begin(w, c) PROVE ConsentInv'
  <2>1. /\ at'[w] \notin {"collected", "granted"}
        /\ \A u \in Workers \ {w} : at'[u] = at[u] /\ held'[u] = held[u] /\ call'[u] = call[u]
    BY <1>0, <1>4, BeginFacts DEF Kinds
  <2>2. UNCHANGED <<ops, _consents, standing>>
    BY <1>4 DEF Begin, host
  <2> QED BY <1>0, <1>1, <1>3, <2>1, <2>2
<1>5. ASSUME NEW w \in Workers, NEW from, NEW to, NEW what, Step(w, from, to, what),
             Collected(w)', Stands(w)'
      PROVE  ConsentInv'
  <2>1. \A u \in Workers \ {w} : at'[u] = at[u] /\ held'[u] = held[u] /\ call'[u] = call[u]
    BY <1>0, <1>5, StepFacts
  <2>2. UNCHANGED <<ops, _consents, standing>>
    BY <1>5 DEF Step, host
  <2> QED BY <1>0, <1>1, <1>3, <1>5, <2>1, <2>2
<1>6. ASSUME NEW w \in Workers, NEW from, NEW to, NEW what, Step(w, from, to, what),
             to # "collected", from \notin {"consent", "collected"},
             from \in {"context", "entered", "hardened", "judging", "permitted", "gate",
                      "sandbox", "screened"}
      PROVE  ConsentInv'
  <2>1. at[w] = from /\ at'[w] = to /\ call' = call
    BY <1>0, <1>6, StepFacts
  <2>2. call[w].kind # "consent"
    BY <1>0, <1>6, <2>1 DEF Stages, Staged
  <2> QED BY <1>5, <1>6, <2>1, <2>2
<1>7. ASSUME NEW w \in Workers, CollectConsents(w) PROVE ConsentInv'
  <2> DEFINE found == {n \in DOMAIN _consents :
                          /\ _consents[n].grantee = call[w].action.actor
                          /\ _consents[n].resource \in call[w].action.uses["write"]}
             what == [records |-> [n \in found |-> _consents[n]], standing |-> standing]
  <2>1. \/ found = {} /\ Step(w, "consent", "denied", NoCall)
        \/ Step(w, "consent", "collected", what)
    BY <1>7 DEF CollectConsents
  <2>2. CASE Step(w, "consent", "denied", NoCall)
    BY <1>0, <1>5, <2>2, StepFacts
  <2>3. CASE Step(w, "consent", "collected", what)
    <3>1. at'[w] = "collected" /\ held'[w] = what
      BY <1>0, <2>3, StepFacts
    <3>2. DOMAIN what.records = found /\ what.standing = standing /\ found \subseteq DOMAIN _consents
      OBVIOUS
    <3>3. Collected(w)' /\ Stands(w)'
      BY <1>0, <3>1, <3>2 DEF Recorded
    <3> QED BY <1>5, <2>3, <3>3
  <2> QED BY <2>1, <2>2, <2>3
<1>8. ASSUME NEW w \in Workers, EvaluateConsents(w) PROVE ConsentInv'
  <2>1. PICK to \in {"granted", "denied"} : \E what : Step(w, "collected", to, what)
    BY <1>8 DEF EvaluateConsents, Answer
  <2>2. at'[w] = to
    BY <1>0, <2>1, StepFacts
  <2>3. Stands(w)'
    BY <1>8, EvaluationStands
  <2> QED BY <1>5, <2>1, <2>2, <2>3
<1>9. ASSUME NEW w \in Workers, WorkerNext(w) PROVE ConsentInv'
  <2>1. CASE EnterContext(w) \/ AskGate(w)
    BY <1>6, <2>1 DEF EnterContext, AskGate, Answer
  <2>2. CASE TakeSnapshot(w) \/ Judge(w) \/ Commit(w)
    BY <1>6, <2>2 DEF TakeSnapshot, Judge, Commit
  <2>3. ASSUME NEW kind \in {"gate", "sandbox"}, Screen(w, kind) PROVE ConsentInv'
    BY <1>6, <2>3 DEF Screen
  <2>4. ASSUME NEW raises \in BOOLEAN, Invoke(w, raises) PROVE ConsentInv'
    BY <1>6, <2>4 DEF Invoke, Answer
  <2> QED BY <1>4, <1>7, <1>8, <1>9, <2>1, <2>2, <2>3, <2>4 DEF WorkerNext
<1>10. CASE HostNext
  BY <1>0, <1>1, <1>2, <1>10, HostFacts, HostRecords
<1>11. CASE UNCHANGED taskVars
  BY <1>1, <1>2, <1>3, <1>11 DEF taskVars, host
<1> QED BY <1>9, <1>10, <1>11 DEF TaskNext

\* ConsentRegistry.check: a consent that is confirmed rests on a record its
\* grantor stood by when the records were collected, although they are evaluated
\* after the lock is released, for any grants and revocations in between.
THEOREM ConsentAlwaysStands == TaskSpec => []ConsentStands
<1>1. TaskInit => ConsentInv
  BY InitStages DEF TaskInit, ConsentInv, ConsentStands
<1>2. ConsentInv => ConsentStands
  BY DEF ConsentInv
<1> QED BY <1>1, <1>2, NextConsent, PTL DEF TaskSpec

-------------------------------------------------------------------------------
(* Contexts *)

\* Every context but the root has an older one for its parent.
Rooted(c) == \A j \in DOMAIN c : c[j].parent \in 0 .. j - 1

Expiry == Nat \cup {Never}

LEMMA ChainWithin ==
    ASSUME NEW c, NEW i, NEW S, S \subseteq DOMAIN c, Upward(c, i, S)
    PROVE  Chain(c, i) \subseteq S
<1>1. S \in SUBSET DOMAIN c
  OBVIOUS
<1> QED BY <1>1 DEF Chain

LEMMA ChainMember ==
    ASSUME NEW c, NEW i, NEW j \in DOMAIN c,
           \A S \in SUBSET DOMAIN c : Upward(c, i, S) => j \in S
    PROVE  j \in Chain(c, i)
BY DEF Chain

\* The contexts above a new one are itself and those above its parent, and
\* nothing changes for the older ones.
LEMMA ChainOfChild ==
    ASSUME NEW c, NEW d, NEW n \in Nat, DOMAIN c = 1 .. n, DOMAIN d = 1 .. n + 1,
           \A j \in 1 .. n : d[j].parent = c[j].parent,
           Rooted(c), NEW p \in 1 .. n, d[n + 1].parent = p
    PROVE  /\ Chain(d, n + 1) = {n + 1} \cup Chain(c, p)
           /\ \A i \in 1 .. n : Chain(d, i) = Chain(c, i)
<1>1. ASSUME NEW i \in 1 .. n, NEW S \in SUBSET (1 .. n), Upward(c, i, S)
      PROVE  Upward(d, i, S)
  BY <1>1 DEF Upward
<1>2. ASSUME NEW i \in 1 .. n, NEW S \in SUBSET (1 .. n + 1), Upward(d, i, S)
      PROVE  Upward(c, i, S \cap (1 .. n))
  <2>1. ASSUME NEW j \in S \cap (1 .. n) PROVE c[j].parent \in (S \cap (1 .. n)) \cup {0}
    <3>1. c[j].parent \in S \cup {0} /\ c[j].parent \in 0 .. j - 1
      BY <1>2 DEF Rooted, Upward
    <3> QED BY <3>1
  <2>2. i \in S
    BY <1>2 DEF Upward
  <2> QED BY <2>1, <2>2 DEF Upward
<1>3. ASSUME NEW i \in 1 .. n PROVE Upward(c, i, 1 .. n)
  <2>1. \A j \in 1 .. n : c[j].parent \in (1 .. n) \cup {0}
    BY DEF Rooted
  <2> QED BY <2>1 DEF Upward
<1>4. ASSUME NEW i \in 1 .. n PROVE Chain(d, i) = Chain(c, i)
  <2>1. ASSUME NEW j \in Chain(d, i) PROVE j \in Chain(c, i)
    <3>1. j \in 1 .. n
      <4>1. Upward(d, i, 1 .. n)
        BY <1>1, <1>3
      <4>2. 1 .. n \subseteq DOMAIN d
        OBVIOUS
      <4> QED BY <2>1, <4>1, <4>2, ChainWithin
    <3>2. ASSUME NEW S \in SUBSET (1 .. n), Upward(c, i, S) PROVE j \in S
      <4>1. Upward(d, i, S) /\ S \subseteq DOMAIN d
        BY <1>1, <3>2
      <4> QED BY <2>1, <4>1, ChainWithin
    <3> QED BY <3>1, <3>2, ChainMember
  <2>2. ASSUME NEW j \in Chain(c, i) PROVE j \in Chain(d, i)
    <3>1. j \in 1 .. n
      BY <2>2 DEF Chain
    <3>2. ASSUME NEW S \in SUBSET (1 .. n + 1), Upward(d, i, S) PROVE j \in S
      <4>1. j \in S \cap (1 .. n)
        BY <1>2, <2>2, <3>2, ChainWithin
      <4> QED BY <4>1
    <3>3. j \in DOMAIN d
      BY <3>1
    <3> QED BY <3>2, <3>3, ChainMember
  <2> QED BY <2>1, <2>2
<1>5. ASSUME NEW j \in Chain(d, n + 1), j # n + 1 PROVE j \in Chain(c, p)
  <2>1. j \in 1 .. n
    BY <1>5 DEF Chain
  <2>2. ASSUME NEW S \in SUBSET (1 .. n), Upward(c, p, S) PROVE j \in S
    <3>1. Upward(d, n + 1, S \cup {n + 1})
      BY <2>2 DEF Upward
    <3>2. S \cup {n + 1} \subseteq DOMAIN d
      OBVIOUS
    <3>3. j \in S \cup {n + 1}
      BY <1>5, <3>1, <3>2, ChainWithin
    <3> QED BY <1>5, <3>3
  <2> QED BY <2>1, <2>2, ChainMember
<1>6. ASSUME NEW j \in {n + 1} \cup Chain(c, p) PROVE j \in Chain(d, n + 1)
  <2>1. j \in DOMAIN d
    BY <1>6 DEF Chain
  <2>2. ASSUME NEW S \in SUBSET (1 .. n + 1), Upward(d, n + 1, S) PROVE j \in S
    <3>1. n + 1 \in S /\ p \in S /\ Upward(d, p, S)
      BY <2>2 DEF Upward
    <3>2. S \cap (1 .. n) \subseteq DOMAIN c /\ Upward(c, p, S \cap (1 .. n))
      BY <1>2, <3>1
    <3>3. Chain(c, p) \subseteq S \cap (1 .. n)
      BY <3>2, ChainWithin
    <3> QED BY <1>6, <3>1, <3>3
  <2> QED BY <2>1, <2>2, ChainMember
<1> QED BY <1>4, <1>5, <1>6

\* A child that asks for a lease gets no more than its parent has.
LEMMA ChildNoLater ==
    ASSUME NEW c, c.expires_at \in Expiry, NEW lease \in Leases, now \in Nat
    PROVE  /\ ChildExpiry(c, lease) \in Expiry
           /\ NoLater(ChildExpiry(c, lease), c.expires_at)
BY NeverAssumption, ContextsAssumption DEF ChildExpiry, Earlier, NoLater, Expiry

LEMMA NoLaterTransitive ==
    ASSUME NEW r \in Expiry, NEW s \in Expiry, NEW t \in Expiry, NoLater(r, s), NoLater(s, t)
    PROVE  NoLater(r, t)
BY NeverAssumption DEF NoLater, Expiry

\* Context i of c lasts no longer than j, which is as far above as it is deep.
Below(c, i, j) ==
    /\ NoLater(c[i].expires_at, c[j].expires_at)
    /\ c[i].depth = c[j].depth + Cardinality(Chain(c, i) \ Chain(c, j))

Contexts ==
    [agent : SubAgents \cup {RootAgent}, parent : Nat, depth : 0 .. MaxDepth,
     expires_at : Expiry, revoked : BOOLEAN]

ContextInv ==
    /\ now \in Nat
    /\ contexts \in Seq(Contexts)
    /\ Rooted(contexts)
    /\ \A i \in DOMAIN contexts : \A j \in Chain(contexts, i) : Below(contexts, i, j)

\* What a spawned context adds: itself, below its parent and all above that.
LEMMA SpawnBelow ==
    ASSUME NEW c \in Seq(Contexts), NEW x \in Contexts, NEW p \in DOMAIN c, Rooted(c),
           \A i \in DOMAIN c : \A j \in Chain(c, i) : Below(c, i, j),
           x.parent = p, x.depth = c[p].depth + 1, NoLater(x.expires_at, c[p].expires_at)
    PROVE  LET d == Append(c, x)
           IN  Rooted(d) /\ \A i \in DOMAIN d : \A j \in Chain(d, i) : Below(d, i, j)
<1>1. PICK n, d : n = Len(c) /\ d = Append(c, x)
  OBVIOUS
<1>2. /\ n \in Nat /\ DOMAIN c = 1 .. n /\ DOMAIN d = 1 .. n + 1
      /\ \A j \in 1 .. n : d[j] = c[j]
      /\ d[n + 1] = x /\ p \in 1 .. n
  BY <1>1
<1>3. /\ Chain(d, n + 1) = {n + 1} \cup Chain(c, p)
      /\ \A i \in 1 .. n : Chain(d, i) = Chain(c, i)
  BY <1>2, ChainOfChild
<1>4. \A i : Chain(c, i) \subseteq 1 .. n
  BY <1>2 DEF Chain
<1>5. Rooted(d)
  BY <1>2 DEF Rooted
<1>6. ASSUME NEW i \in 1 .. n, NEW j \in Chain(d, i) PROVE Below(d, i, j)
  <2>1. j \in Chain(c, i) /\ j \in 1 .. n
    BY <1>3, <1>4, <1>6
  <2>2. Below(c, i, j)
    BY <1>2, <2>1
  <2> QED BY <1>2, <1>3, <2>1, <2>2 DEF Below
<1>7. ASSUME NEW j \in Chain(d, n + 1) PROVE Below(d, n + 1, j)
  <2>1. CASE j = n + 1
    <3>1. NoLater(x.expires_at, x.expires_at)
      BY DEF NoLater, Contexts, Expiry
    <3>2. Cardinality(Chain(d, n + 1) \ Chain(d, n + 1)) = 0
      <4>1. Chain(d, n + 1) \ Chain(d, n + 1) = {}
        OBVIOUS
      <4> QED BY <4>1, FS_EmptySet
    <3>3. x.depth \in Nat
      BY DEF Contexts
    <3> QED BY <1>2, <2>1, <3>1, <3>2, <3>3 DEF Below
  <2>2. CASE j # n + 1
    <3>1. j \in Chain(c, p) /\ j \in 1 .. n
      BY <1>3, <1>4, <1>7, <2>2
    <3>2. Below(c, p, j)
      BY <1>2, <3>1
    <3>3. NoLater(x.expires_at, c[j].expires_at)
      <4>1. c[p] \in Contexts /\ c[j] \in Contexts
        BY <1>2, <3>1
      <4>2. x.expires_at \in Expiry /\ c[p].expires_at \in Expiry /\ c[j].expires_at \in Expiry
        BY <4>1 DEF Contexts
      <4> QED BY <3>2, <4>2, NoLaterTransitive DEF Below
    <3>4. PICK above : above = Chain(c, p) \ Chain(c, j)
      OBVIOUS
    <3>5. Chain(d, n + 1) \ Chain(d, j) = above \cup {n + 1} /\ n + 1 \notin above
      BY <1>2, <1>3, <1>4, <3>1, <3>4
    <3>6. IsFiniteSet(above)
      <4>1. IsFiniteSet(1 .. n)
        BY <1>2, FS_Interval
      <4>2. above \subseteq 1 .. n
        BY <1>4, <3>4
      <4> QED BY <4>1, <4>2, FS_Subset
    <3>7. Cardinality(Chain(d, n + 1) \ Chain(d, j)) = Cardinality(above) + 1
          /\ Cardinality(above) \in Nat
      BY <3>5, <3>6, FS_AddElement, FS_CardinalityType
    <3>8. c[p].depth = c[j].depth + Cardinality(above)
      BY <3>2, <3>4 DEF Below
    <3>9. c[j].depth \in Nat
      <4>1. c[j] \in Contexts
        BY <1>2, <3>1
      <4> QED BY <4>1 DEF Contexts
    <3>10. d[n + 1] = x /\ d[j] = c[j]
      BY <1>2, <3>1
    <3>11. PICK k : k = Cardinality(Chain(d, n + 1) \ Chain(d, j))
      OBVIOUS
    <3>12. x.depth = c[j].depth + k
      <4>1. PICK m, b : m = Cardinality(above) /\ b = c[j].depth
        OBVIOUS
      <4>2. m \in Nat /\ b \in Nat /\ k = m + 1
        BY <3>7, <3>9, <3>11, <4>1
      <4>3. x.depth = (b + m) + 1
        BY <3>8, <4>1
      <4> QED BY <4>1, <4>2, <4>3
    <3> QED BY <3>3, <3>10, <3>11, <3>12 DEF Below
  <2> QED BY <2>1, <2>2
<1> QED BY <1>1, <1>2, <1>5, <1>6, <1>7

\* What is revoked stays where it is.
LEMMA SameChains ==
    ASSUME NEW c, NEW d, DOMAIN d = DOMAIN c,
           \A j \in DOMAIN c : /\ d[j].parent = c[j].parent /\ d[j].depth = c[j].depth
                               /\ d[j].expires_at = c[j].expires_at
    PROVE  /\ Rooted(c) => Rooted(d)
           /\ \A i : Chain(d, i) = Chain(c, i)
           /\ \A i, j \in DOMAIN c : Below(c, i, j) => Below(d, i, j)
<1>1. \A i : \A S \in SUBSET DOMAIN c : Upward(c, i, S) <=> Upward(d, i, S)
  BY DEF Upward
<1>2. ASSUME NEW i PROVE Chain(d, i) = Chain(c, i)
  <2>1. \A j : j \in Chain(d, i) <=> j \in Chain(c, i)
    BY <1>1, Zenon DEF Chain
  <2>2. Chain(d, i) \subseteq Chain(c, i) /\ Chain(c, i) \subseteq Chain(d, i)
    BY <2>1
  <2> QED BY <2>2
<1>3. ASSUME NEW i \in DOMAIN c, NEW j \in DOMAIN c, Below(c, i, j) PROVE Below(d, i, j)
  <2>1. Chain(d, i) = Chain(c, i) /\ Chain(d, j) = Chain(c, j)
    BY <1>2
  <2> QED BY <1>3, <2>1 DEF Below
<1>4. Rooted(c) => Rooted(d)
  BY DEF Rooted
<1> QED BY <1>2, <1>3, <1>4

LEMMA InitContext == TaskInit => ContextInv
<1> SUFFICES ASSUME TaskInit PROVE ContextInv
  OBVIOUS
<1>1. PICK x : x = [agent |-> RootAgent, parent |-> 0, depth |-> 0,
                    expires_at |-> RootExpiry, revoked |-> FALSE]
  OBVIOUS
<1>2. contexts = <<x>> /\ now = 0
  BY <1>1 DEF TaskInit
<1>3. x \in Contexts /\ x.parent = 0
  BY <1>1, ContextsAssumption DEF Contexts, Expiry
<1>4. contexts \in Seq(Contexts) /\ DOMAIN contexts = {1} /\ contexts[1] = x
  BY <1>2, <1>3
<1>5. Rooted(contexts)
  BY <1>3, <1>4 DEF Rooted
<1>6. ASSUME NEW j \in Chain(contexts, 1) PROVE Below(contexts, 1, j)
  <2>1. j = 1
    BY <1>4 DEF Chain
  <2>2. Chain(contexts, 1) \ Chain(contexts, 1) = {}
    OBVIOUS
  <2>3. Cardinality(Chain(contexts, 1) \ Chain(contexts, 1)) = 0
    BY <2>2, FS_EmptySet
  <2>4. NoLater(x.expires_at, x.expires_at) /\ x.depth \in Nat
    BY <1>3 DEF NoLater, Contexts, Expiry
  <2> QED BY <1>4, <2>1, <2>3, <2>4 DEF Below
<1> QED BY <1>2, <1>4, <1>5, <1>6 DEF ContextInv

LEMMA NextContext == ContextInv /\ [TaskNext]_taskVars => ContextInv'
<1> SUFFICES ASSUME ContextInv, [TaskNext]_taskVars PROVE ContextInv'
  OBVIOUS
<1>1. ASSUME contexts' = contexts, now' \in Nat PROVE ContextInv'
  BY <1>1 DEF ContextInv
<1>2. ASSUME NEW p \in DOMAIN contexts, NEW e \in SubAgents, NEW R, NEW l \in Leases,
             spawn(p, e, R, l)
      PROVE  ContextInv'
  <2> DEFINE c == contexts[p]
             x == [agent |-> e, parent |-> p, depth |-> c.depth + 1,
                   expires_at |-> ChildExpiry(c, l), revoked |-> FALSE]
  <2>1. contexts' = Append(contexts, x) /\ c.depth < MaxDepth /\ now' = now
    BY <1>2 DEF spawn, vars
  <2>2. c \in Contexts
    BY DEF ContextInv
  <2>3. /\ ChildExpiry(c, l) \in Expiry
        /\ NoLater(ChildExpiry(c, l), c.expires_at)
    BY <2>2, ChildNoLater DEF ContextInv, Contexts
  <2>4. x \in Contexts
    <3>1. c.depth + 1 \in 0 .. MaxDepth
      BY <2>1, <2>2, ContextsAssumption DEF Contexts
    <3>2. p \in Nat
      BY DEF ContextInv
    <3> QED BY <2>3, <3>1, <3>2 DEF Contexts
  <2>5. x.parent = p /\ x.depth = c.depth + 1 /\ NoLater(x.expires_at, c.expires_at)
    BY <2>3
  <2> HIDE DEF x
  <2>6. contexts' \in Seq(Contexts)
    BY <2>1, <2>4 DEF ContextInv
  <2>7. PICK d : d = Append(contexts, x)
    OBVIOUS
  <2>8. Rooted(d) /\ \A i \in DOMAIN d : \A j \in Chain(d, i) : Below(d, i, j)
    BY <2>4, <2>5, <2>7, SpawnBelow DEF ContextInv
  <2>9. contexts' = d
    BY <2>1, <2>7
  <2> QED BY <2>1, <2>6, <2>8, <2>9 DEF ContextInv
<1>3. ASSUME NEW p \in DOMAIN contexts, revoke_context(p) PROVE ContextInv'
  <2>1. PICK d : d = [contexts EXCEPT ![p].revoked = TRUE]
    OBVIOUS
  <2>2. contexts' = d /\ now' = now
    BY <1>3, <2>1 DEF revoke_context, vars
  <2>3. d \in Seq(Contexts)
    <3>1. contexts[p] \in Contexts /\ contexts \in Seq(Contexts) /\ p \in 1 .. Len(contexts)
      BY DEF ContextInv
    <3>2. PICK y : y = [contexts[p] EXCEPT !.revoked = TRUE]
      OBVIOUS
    <3>3. y \in Contexts
      BY <3>1, <3>2 DEF Contexts
    <3>4. d = [contexts EXCEPT ![p] = y]
      BY <2>1, <3>2
    <3> QED BY <3>1, <3>3, <3>4, ExceptSeq
  <2>4. /\ DOMAIN d = DOMAIN contexts
        /\ \A j \in DOMAIN contexts :
               /\ d[j].parent = contexts[j].parent /\ d[j].depth = contexts[j].depth
               /\ d[j].expires_at = contexts[j].expires_at
    BY <2>1 DEF ContextInv, Contexts
  <2>5. /\ Rooted(d)
        /\ \A i : Chain(d, i) = Chain(contexts, i)
        /\ \A i, j \in DOMAIN contexts : Below(contexts, i, j) => Below(d, i, j)
    BY <2>4, SameChains DEF ContextInv
  <2>6. \A i : Chain(contexts, i) \subseteq DOMAIN contexts
    BY DEF Chain
  <2>7. \A i \in DOMAIN d : \A j \in Chain(d, i) : Below(d, i, j)
    BY <2>4, <2>5, <2>6 DEF ContextInv
  <2> QED BY <2>2, <2>3, <2>5, <2>7 DEF ContextInv
<1>4. CASE TimePasses
  BY <1>1, <1>4 DEF TimePasses, Tick, host, ContextInv
<1>5. ASSUME NEW n, RevokeClaims(n) PROVE ContextInv'
  BY <1>1, <1>5 DEF RevokeClaims, revoke_all, ContextInv
<1>6. ASSUME UNCHANGED <<vars, contexts>> PROVE ContextInv'
  BY <1>1, <1>6 DEF vars, ContextInv
<1>7. ASSUME NEW c, grant(c) PROVE ContextInv'
  BY <1>6, <1>7 DEF grant
<1>8. ASSUME NEW g, NEW e, NEW r, revoke_consent(g, e, r) PROVE ContextInv'
  BY <1>6, <1>8 DEF revoke_consent
<1>9. ASSUME NEW q, request_capability(q) PROVE ContextInv'
  BY <1>6, <1>9 DEF request_capability
<1>10. ASSUME NEW e, NEW r, revoke_lease(e, r) PROVE ContextInv'
  BY <1>6, <1>10 DEF revoke_lease
<1>11. CASE NewVerifier
  BY <1>6, <1>11 DEF NewVerifier
<1>12. CASE HostNext
  BY <1>2, <1>3, <1>4, <1>5, <1>7, <1>8, <1>9, <1>10, <1>11, <1>12 DEF HostNext
<1>13. ASSUME NEW w \in Workers, WorkerNext(w) PROVE ContextInv'
  BY <1>6, <1>13, WorkerSteps DEF Begin, Step, host
<1>14. CASE UNCHANGED taskVars
  BY <1>6, <1>14 DEF taskVars, host
<1> QED BY <1>12, <1>13, <1>14 DEF TaskNext

\* ExecutionContext.spawn: a context expires no later than any context above it,
\* is exactly as deep as there are contexts above it and no deeper than
\* max_depth, for any tree of tasks and any leases asked for at any time.
THEOREM ContextsAlwaysWithinAncestors == TaskSpec => []WithinAncestors
<1>1. ASSUME ContextInv, NEW i \in DOMAIN contexts PROVE contexts[i].depth <= MaxDepth
  <2>1. contexts[i] \in Contexts
    BY <1>1 DEF ContextInv
  <2> QED BY <2>1, ContextsAssumption DEF Contexts
<1>2. ContextInv => WithinAncestors
  BY <1>1 DEF ContextInv, WithinAncestors, Ancestors, Below
<1> QED BY <1>2, InitContext, NextContext, PTL DEF TaskSpec

-------------------------------------------------------------------------------
(* Recursion over places, and strong induction *)

\* What holds of a place if it holds of all places before it holds of all.
LEMMA PlaceByPlace ==
    ASSUME NEW n \in Nat, NEW T,
           \A i \in 0 .. n : (\A j \in 0 .. n : j < i => j \in T) => i \in T
    PROVE  0 .. n \subseteq T
<1> SUFFICES ASSUME ~(0 .. n \subseteq T) PROVE FALSE
  OBVIOUS
<1>1. PICK m \in (0 .. n) \ T : \A j \in (0 .. n) \ T : m <= j
  <2>1. (0 .. n) \ T \subseteq Nat /\ (0 .. n) \ T # {}
    OBVIOUS
  <2> QED BY <2>1, LeastNatural
<1>2. \A j \in 0 .. n : j < m => j \in T
  BY <1>1
<1> QED BY <1>1, <1>2

\* Each place from 1 to n is made from the value at a place before it, by a step.
Steps(n, S, s0, parent, step) ==
    /\ n \in Nat /\ s0 \in S /\ parent \in [1 .. n -> Nat] /\ step \in [(1 .. n) \X S -> S]
    /\ \A i \in 1 .. n : parent[i] < i

Made(n, S, s0, parent, step, f) ==
    f \in [0 .. n -> S] /\ f[0] = s0 /\ \A i \in 1 .. n : f[i] = step[<<i, f[parent[i]]>>]

\* There is such a function, and its values are of the kind that the steps lead to.
LEMMA Recursion ==
    ASSUME NEW n, NEW S, NEW s0, NEW parent, NEW step, Steps(n, S, s0, parent, step)
    PROVE  \E f : Made(n, S, s0, parent, step, f)
<1> DEFINE Fits(f, k) == f[0] = s0 /\ \A i \in 1 .. k : f[i] = step[<<i, f[parent[i]]>>]
           Fit == {k \in 0 .. n : \E f \in [0 .. n -> S] : Fits(f, k)}
<1> USE DEF Steps
<1>1. ASSUME NEW k \in 0 .. n, \A j \in 0 .. n : j < k => j \in Fit PROVE k \in Fit
  <2>1. CASE k = 0
    <3>1. [i \in 0 .. n |-> s0] \in [0 .. n -> S] /\ Fits([i \in 0 .. n |-> s0], 0)
      OBVIOUS
    <3> QED BY <2>1, <3>1
  <2>2. CASE k > 0
    <3>1. k - 1 \in 0 .. n /\ k - 1 < k /\ k \in 1 .. n
      BY <2>2
    <3>2. PICK f \in [0 .. n -> S] : Fits(f, k - 1)
      BY <1>1, <3>1
    <3> DEFINE v == step[<<k, f[parent[k]]>>]
               g == [f EXCEPT ![k] = v]
    <3>3. parent[k] \in 0 .. n /\ v \in S
      BY <3>1
    <3>4. g \in [0 .. n -> S] /\ g[0] = s0 /\ g[k] = v
      BY <3>1, <3>2, <3>3
    <3>5. ASSUME NEW i \in 1 .. k PROVE g[i] = step[<<i, g[parent[i]]>>]
      <4>1. i \in 1 .. n /\ parent[i] \in 0 .. n /\ parent[i] # k
        BY <3>1
      <4>2. g[parent[i]] = f[parent[i]]
        BY <4>1
      <4>3. CASE i = k
        BY <3>4, <4>2, <4>3
      <4>4. CASE i # k
        <5>1. i \in 1 .. k - 1 /\ g[i] = f[i]
          BY <3>1, <4>1, <4>4
        <5> QED BY <3>2, <4>2, <5>1
      <4> QED BY <4>3, <4>4
    <3> QED BY <3>4, <3>5
  <2> QED BY <2>1, <2>2
<1>2. n \in Fit
  <2> HIDE DEF Fit
  <2>1. 0 .. n \subseteq Fit
    BY <1>1, PlaceByPlace
  <2> QED BY <2>1
<1> QED BY <1>2 DEF Made

\* The same where each place is made from the one before.
OneByOne(n) == [i \in 1 .. n |-> i - 1]

LEMMA Iteration ==
    ASSUME NEW n, NEW S, NEW s0, NEW step, Steps(n, S, s0, OneByOne(n), step)
    PROVE  \E f \in [0 .. n -> S] : f[0] = s0 /\ \A i \in 1 .. n : f[i] = step[<<i, f[i - 1]>>]
<1>1. PICK f : Made(n, S, s0, OneByOne(n), step, f)
  BY Recursion
<1> QED BY <1>1 DEF Made, OneByOne

-------------------------------------------------------------------------------
(* Goal trees *)

Tree(tree) ==
    /\ Len(tree) \in Nat /\ Len(tree) # 0 /\ DOMAIN tree = 1 .. Len(tree)
    /\ \A i \in DOMAIN tree : tree[i].parent \in (IF i = 1 THEN {0} ELSE 1 .. i - 1)

LEMMA Trees == \A tree \in GoalTrees : Tree(tree)
<1> SUFFICES ASSUME NEW tree \in GoalTrees PROVE Tree(tree)
  OBVIOUS
<1>1. /\ tree \in Seq(ToSet(tree)) /\ tree # << >>
      /\ \A i \in DOMAIN tree : tree[i].parent \in (IF i = 1 THEN {0} ELSE 1 .. i - 1)
  BY SubmittedAssumption
<1>2. Len(tree) \in Nat /\ Len(tree) # 0 /\ DOMAIN tree = 1 .. Len(tree)
  BY <1>1, EmptySeq, LenProperties
<1> QED BY <1>1, <1>2 DEF Tree

\* What becomes of the goals of a tree, from the root down.
LEMMA TreeResult ==
    ASSUME NEW g, NEW tree, Tree(tree), NEW t
    PROVE  LET R == verify_goal_tree(g, tree, t)
           IN  /\ DOMAIN R = DOMAIN tree
               /\ \A i \in DOMAIN tree :
                    R[i] = IF i = 1 \/ R[tree[i].parent] = "permitted" THEN Judged(g, tree, i, t)
                           ELSE IF R[tree[i].parent] = "blocked" THEN "cancelled" ELSE "absent"
<1> DEFINE n == Len(tree)
           S == {"permitted", "blocked", "cancelled", "absent"}
           Next_(i, above) == CASE above = "permitted" -> Judged(g, tree, i, t)
                                [] above = "blocked" -> "cancelled"
                                [] OTHER -> "absent"
           parent == [i \in 1 .. n |-> tree[i].parent]
           step == [p \in (1 .. n) \X S |-> Next_(p[1], p[2])]
           result == CHOOSE f : f = [i \in 0 .. n |-> IF i = 0 THEN "permitted" ELSE Next_(i, f[tree[i].parent])]
<1>1. \A i \in 1 .. n : parent[i] = tree[i].parent /\ parent[i] \in 0 .. n
  BY DEF Tree
<1>2. \A i : Judged(g, tree, i, t) \in {"permitted", "blocked"}
  BY Zenon DEF Judged
<1>3. step \in [(1 .. n) \X S -> S]
  BY <1>2
<1>4. \A i \in 1 .. n, s \in S : step[<<i, s>>] = Next_(i, s)
  OBVIOUS
<1>5. \E f \in [0 .. n -> S] : f[0] = "permitted" /\ \A i \in 1 .. n : f[i] = step[<<i, f[parent[i]]>>]
  <2>1. Steps(n, S, "permitted", parent, step)
    BY <1>3 DEF Steps, Tree
  <2> HIDE DEF n, S, parent, step
  <2>2. PICK f : Made(n, S, "permitted", parent, step, f)
    BY <2>1, Recursion
  <2> QED BY <2>2 DEF Made
<1>6. \E f : f = [i \in 0 .. n |-> IF i = 0 THEN "permitted" ELSE Next_(i, f[tree[i].parent])]
  <2>1. PICK f \in [0 .. n -> S] : f[0] = "permitted" /\ \A i \in 1 .. n : f[i] = step[<<i, f[parent[i]]>>]
    BY <1>5
  <2>2. ASSUME NEW i \in 1 .. n PROVE f[i] = Next_(i, f[tree[i].parent])
    <3>1. parent[i] \in 0 .. n /\ f[parent[i]] \in S
      BY <1>1, <2>1 DEF Tree
    <3> HIDE DEF Next_, S, parent, step
    <3> QED BY <1>1, <1>4, <2>1, <3>1
  <2> HIDE DEF Next_, S, parent, step
  <2>3. n \in Nat
    BY DEF Tree
  <2>4. \A i \in 0 .. n : f[i] = IF i = 0 THEN "permitted" ELSE Next_(i, f[tree[i].parent])
    BY <2>1, <2>2, <2>3
  <2>5. f = [i \in 0 .. n |-> IF i = 0 THEN "permitted" ELSE Next_(i, f[tree[i].parent])]
    BY <2>1, <2>4
  <2> QED BY <2>5
<1>7. result = [i \in 0 .. n |-> IF i = 0 THEN "permitted" ELSE Next_(i, result[tree[i].parent])]
  <2> HIDE DEF Next_
  <2> QED BY <1>6
<1>8. verify_goal_tree(g, tree, t) = [i \in DOMAIN tree |-> result[i]]
  BY DEF verify_goal_tree
<1>9. ASSUME NEW i \in DOMAIN tree
      PROVE  result[i] = IF i = 1 \/ result[tree[i].parent] = "permitted" THEN Judged(g, tree, i, t)
                         ELSE IF result[tree[i].parent] = "blocked" THEN "cancelled" ELSE "absent"
  <2>1. i \in 1 .. n /\ n \in Nat /\ i \in 0 .. n /\ i # 0 /\ 0 \in 0 .. n /\ (i = 1 => tree[i].parent = 0)
    BY DEF Tree
  <2>2. result[0] = "permitted" /\ result[i] = Next_(i, result[tree[i].parent])
    <3> HIDE DEF result, Next_
    <3> QED BY <1>7, <2>1
  <2> HIDE DEF result
  <2> QED BY <2>1, <2>2
<1>10. \A i \in DOMAIN tree : i # 1 => tree[i].parent \in DOMAIN tree
  BY DEF Tree
<1> HIDE DEF result
<1> QED BY <1>8, <1>9, <1>10

\* A tree is permitted whole if and only if every goal is permitted when judged
\* against its parent; and then nothing is required that the root does not ask
\* for.
LEMMA TreesRestrict ==
    ASSUME NEW g, NEW tree, Tree(tree), NEW t
    PROVE  LET result == verify_goal_tree(g, tree, t)
           IN  /\ fully_permitted(result) <=>
                     \A i \in DOMAIN tree :
                        /\ verify(g, action(tree[i]), t).permitted
                        /\ tree[i].parent # 0 => Required(tree[i]) \subseteq Required(tree[tree[i].parent])
               /\ fully_permitted(result) => all_required_resources(tree) = Required(tree[1])
<1> DEFINE R == verify_goal_tree(g, tree, t)
           n == Len(tree)
<1>1. /\ DOMAIN R = DOMAIN tree
      /\ \A i \in DOMAIN tree :
           R[i] = IF i = 1 \/ R[tree[i].parent] = "permitted" THEN Judged(g, tree, i, t)
                  ELSE IF R[tree[i].parent] = "blocked" THEN "cancelled" ELSE "absent"
  BY TreeResult, Zenon
<1>2. /\ DOMAIN tree = 1 .. n /\ n \in Nat /\ 1 \in DOMAIN tree
      /\ \A i \in DOMAIN tree : i # 1 => tree[i].parent \in 1 .. n /\ tree[i].parent < i
  BY DEF Tree
<1>3. \A i : Judged(g, tree, i, t) \in {"permitted", "blocked"}
  BY Zenon DEF Judged
<1>4. \A i : Judged(g, tree, i, t) = "permitted" <=>
               /\ verify(g, action(tree[i]), t).permitted
               /\ tree[i].parent # 0 => Required(tree[i]) \subseteq Required(tree[tree[i].parent])
  BY Zenon DEF Judged
<1> HIDE DEF R
<1>5. ASSUME fully_permitted(R) PROVE \A i \in DOMAIN tree : R[i] = "permitted" /\ Judged(g, tree, i, t) = "permitted"
  <2> DEFINE T == {i \in 0 .. n : i # 0 => R[i] = "permitted" /\ Judged(g, tree, i, t) = "permitted"}
  <2>1. ASSUME NEW i \in 0 .. n, \A j \in 0 .. n : j < i => j \in T PROVE i \in T
    <3> SUFFICES ASSUME i # 0 PROVE R[i] = "permitted" /\ Judged(g, tree, i, t) = "permitted"
      OBVIOUS
    <3>1. i \in DOMAIN tree /\ R[i] \in {"permitted", "absent"}
      BY <1>1, <1>2, <1>5 DEF fully_permitted
    <3>2. i = 1 \/ R[tree[i].parent] = "permitted"
      BY <1>2, <2>1, <3>1
    <3> QED BY <1>1, <1>3, <3>1, <3>2
  <2> HIDE DEF T
  <2>2. 0 .. n \subseteq T
    BY <1>2, <2>1, PlaceByPlace
  <2> QED BY <1>2, <2>2 DEF T
<1>6. ASSUME \A i \in DOMAIN tree : Judged(g, tree, i, t) = "permitted" PROVE fully_permitted(R)
  <2> DEFINE T == {i \in 0 .. n : i # 0 => R[i] = "permitted"}
  <2>1. ASSUME NEW i \in 0 .. n, \A j \in 0 .. n : j < i => j \in T PROVE i \in T
    <3> SUFFICES ASSUME i # 0 PROVE R[i] = "permitted"
      OBVIOUS
    <3>1. i \in DOMAIN tree /\ (i = 1 \/ R[tree[i].parent] = "permitted")
      BY <1>2, <2>1
    <3> QED BY <1>1, <1>6, <3>1
  <2> HIDE DEF T
  <2>2. 0 .. n \subseteq T
    BY <1>2, <2>1, PlaceByPlace
  <2> QED BY <1>1, <1>2, <2>2 DEF T, fully_permitted
<1>7. ASSUME fully_permitted(R) PROVE all_required_resources(tree) = Required(tree[1])
  <2> DEFINE T == {i \in 0 .. n : i # 0 => Required(tree[i]) \subseteq Required(tree[1])}
  <2>1. ASSUME NEW i \in 0 .. n, \A j \in 0 .. n : j < i => j \in T PROVE i \in T
    <3> SUFFICES ASSUME i # 0, i # 1 PROVE Required(tree[i]) \subseteq Required(tree[1])
      OBVIOUS
    <3>1. i \in DOMAIN tree /\ tree[i].parent \in 1 .. n /\ tree[i].parent < i
      BY <1>2
    <3>2. Required(tree[i]) \subseteq Required(tree[tree[i].parent])
      BY <1>4, <1>5, <1>7, <3>1
    <3>3. tree[i].parent \in T
      BY <2>1, <3>1
    <3>4. Required(tree[tree[i].parent]) \subseteq Required(tree[1])
      BY <3>1, <3>3
    <3> QED BY <3>2, <3>4, Zenon
  <2>2. 0 .. n \subseteq T
    <3> HIDE DEF T
    <3> QED BY <1>2, <2>1, PlaceByPlace
  <2>3. \A i \in DOMAIN tree : Required(tree[i]) \subseteq Required(tree[1])
    BY <1>2, <2>2
  <2> QED BY <1>2, <2>3 DEF all_required_resources
<1> QED BY <1>4, <1>5, <1>6, <1>7, Zenon DEF R

-------------------------------------------------------------------------------
(* Layers over the gate *)

\* What a policy permits.
LEMMA PoliciesOnlyRestrict ==
    ASSUME NEW g, NEW p, NEW a, NEW t
    PROVE  policy_verify(g, p, a, t).permitted
             <=> verify(g, a, t).permitted /\ \A u \in Uses(a) : evaluate(p, a.actor, u[2], u[1]) # "deny"
<1>1. Refused(p, a) = {} <=> \A u \in Uses(a) : evaluate(p, a.actor, u[2], u[1]) # "deny"
  BY Zenon DEF Refused
<1>2. CASE ~verify(g, a, t).permitted \/ Refused(p, a) = {}
  <2>1. policy_verify(g, p, a, t) = verify(g, a, t)
    BY <1>2, Zenon DEF policy_verify
  <2> QED BY <1>1, <1>2, <2>1
<1>3. CASE ~(~verify(g, a, t).permitted \/ Refused(p, a) = {})
  <2>1. ~policy_verify(g, p, a, t).permitted
    BY <1>3 DEF policy_verify, verify
  <2> QED BY <1>1, <1>3, <2>1
<1> QED BY <1>2, <1>3

\* A view whose index lists its claims, held by known entities on known resources.
Held(g) == g.index = g.claims /\ \A c \in g.claims : c.holder \in Entities /\ c.resource \in Resources

LEMMA AgreementHeld == Agreement => Held(LiveView)
BY DEF Agreement, TypeOK, IndexConsistent, Held, LiveView

\* Where the gate permits, it permits every use, and no machine to govern.
LEMMA PermittedActs ==
    ASSUME NEW g, NEW a, NEW t, verify(g, a, t).permitted
    PROVE  /\ \A u \in Uses(a) : Acts(g, a.actor, u[2], u[1], a.min_epoch, t)
           /\ Machine(a.actor) => a.governs = {}
<1>1. Violations(g, a, t) = {}
  BY DEF verify
<1>2. /\ {u \in Uses(a) : ~Acts(g, a.actor, u[2], u[1], a.min_epoch, t)} = {}
      /\ {h \in a.governs : Machine(a.actor)} = {}
  BY <1>1, Zenon DEF Violations
<1> QED BY <1>2, Zenon

\* A private resource is used under a claim on record of that very holder.
LEMMA PrivateUse ==
    ASSUME NEW g, Held(g), NEW e, NEW r, NEW op, NEW k, NEW t,
           Acts(g, e, r, op, k, t), ~r.is_public
    PROVE  /\ UsableClaims(g.claims, g.index, g.tokens, e, r, op, t) # {}
           /\ Identified(e) /\ Located(r) =>
                \E c \in g.claims : c.holder = e /\ c.resource = r /\ op \in c.rights
<1> DEFINE U == UsableClaims(g.claims, g.index, g.tokens, e, r, op, t)
<1>1. U # {}
  BY DEF Acts, can_act
<1>2. ASSUME Identified(e), Located(r), NEW c \in U
      PROVE  c \in g.claims /\ c.holder = e /\ c.resource = r /\ op \in c.rights
  <2>1. c \in g.index /\ KeyOf(c) = _claim_key(e, r) /\ op \in c.rights
    <3>1. c \in claims_for(g.index, g.tokens, e, r, t) /\ op \in c.rights
      BY <1>2 DEF UsableClaims
    <3> QED BY <3>1 DEF claims_for
  <2>2. c \in g.claims /\ c.holder \in Entities /\ c.resource \in Resources
    BY <2>1 DEF Held
  <2>3. _identity_key(c.holder) = _identity_key(e) /\ c.resource.name = r.name
    BY <2>1 DEF KeyOf, _claim_key, _identity_key
  <2> QED BY <1>2, <2>1, <2>2, <2>3 DEF Identified, Located
<1> QED BY <1>1, <1>2

\* The uses of an action that was submitted are uses of known resources.
LEMMA SubmittedUses ==
    ASSUME NEW a, a.uses \in [Operations -> SUBSET Resources]
    PROVE  /\ Asked(a) \subseteq Resources
           /\ \A r \in Asked(a) : \E op \in {"read", "write"} : <<op, r>> \in Uses(a)
           /\ \A u \in Uses(a) : u[1] # "delegate" => u[2] \in Asked(a) /\ u[1] \in {"read", "write"}
BY DEF Operations, Asked, Uses

\* A machine that the gate permits, without public resources, drifts nowhere.
LEMMA NoCapture ==
    ASSUME NEW g, Held(g), NEW a, a.uses \in [Operations -> SUBSET Resources], NEW t,
           verify(g, a, t).permitted, Machine(a.actor), Identified(a.actor),
           \A r \in Asked(a) : Located(r) /\ ~r.is_public
    PROVE  /\ capture_check(g, a) = {}
           /\ "AUTHORITY_AMPLIFICATION" \notin criteria_fired(g, a, FALSE, t)
<1>1. ASSUME NEW r \in Asked(a) PROVE \E c \in ClaimsOf(g, a.actor) : c.resource = r
  <2>1. PICK op \in {"read", "write"} : <<op, r>> \in Uses(a)
    BY SubmittedUses
  <2>2. Acts(g, a.actor, r, op, a.min_epoch, t)
    BY <2>1, PermittedActs
  <2>3. \E c \in g.claims : c.holder = a.actor /\ c.resource = r
    BY <1>1, <2>2, PrivateUse
  <2> QED BY <2>3 DEF ClaimsOf
<1>2. ~_check_scope_drift(g, a)
  BY <1>1 DEF _check_scope_drift, Located
<1>3. ~_check_credential_access(g, a)
  BY <1>1 DEF _check_credential_access
<1>4. ~_check_owner_mismatch(g, a)
  BY PermittedActs DEF _check_owner_mismatch
<1>5. ~_check_resource_type_drift(g, a)
  BY <1>1 DEF _check_resource_type_drift, TypesOf
<1>6. capture_check(g, a) = {}
  BY <1>2, <1>3, <1>4, <1>5 DEF capture_check
<1>7. ~_s3_authority_amplification(g, a, t)
  <2>1. ASSUME NEW u \in Uses(a), u[1] # "delegate" PROVE ~Unclaimed(g, a.actor, u[2], u[1], t)
    <3>1. u[2] \in Asked(a)
      BY <2>1, SubmittedUses
    <3>2. Acts(g, a.actor, u[2], u[1], a.min_epoch, t)
      BY <2>1, PermittedActs
    <3> QED BY <3>1, <3>2, PrivateUse DEF Unclaimed
  <2> QED BY <2>1, Zenon DEF _s3_authority_amplification
<1>8. "AUTHORITY_AMPLIFICATION" \notin criteria_fired(g, a, FALSE, t)
  BY <1>7 DEF criteria_fired
<1> QED BY <1>6, <1>8

\* If nothing presses for it, an action that shows no amplified authority is
\* blocked only as one that both maximizes its scope and cannot be undone.
LEMMA Blocks ==
    ASSUME NEW g, NEW a, NEW t,
           persuasion_check(g, a, FALSE, t).block, "AUTHORITY_AMPLIFICATION" \notin criteria_fired(g, a, FALSE, t)
    PROVE  {"SCOPE_MAXIMIZATION", "REVERSIBILITY_OBSCURING"} \subseteq criteria_fired(g, a, FALSE, t)
<1> DEFINE fired == criteria_fired(g, a, FALSE, t)
           k == Cardinality(fired)
           verdict == IF k >= 4 THEN "CRITICAL" ELSE IF k = 3 THEN "HIGH" ELSE IF k = 2 THEN "SUSPICIOUS" ELSE "CLEAR"
<1>1. persuasion_check(g, a, FALSE, t) = [verdict |-> verdict, block |-> k >= 3]
  BY DEF persuasion_check
<1>2. fired \subseteq {"INFORMATION_ASYMMETRY", "SCOPE_MAXIMIZATION", "REVERSIBILITY_OBSCURING"}
  BY DEF criteria_fired
<1> HIDE DEF verdict, k
<1>3. [verdict |-> verdict, block |-> k >= 3].block <=> k >= 3
  OBVIOUS
<1>4. k >= 3
  BY <1>1, <1>3
<1> HIDE DEF fired
<1>5. ASSUME NEW x, fired \subseteq {"INFORMATION_ASYMMETRY", x} PROVE FALSE
  <2>1. IsFiniteSet({x}) /\ Cardinality({x}) = 1
    BY FS_Singleton
  <2>2. {"INFORMATION_ASYMMETRY", x} = {x} \cup {"INFORMATION_ASYMMETRY"}
    OBVIOUS
  <2>3. /\ IsFiniteSet({"INFORMATION_ASYMMETRY", x})
        /\ Cardinality({"INFORMATION_ASYMMETRY", x}) \in {1, 2}
    BY <2>1, <2>2, FS_AddElement
  <2>4. k \in Nat /\ k <= Cardinality({"INFORMATION_ASYMMETRY", x})
    BY <1>5, <2>3, FS_Subset, FS_CardinalityType DEF k
  <2> QED BY <1>4, <2>3, <2>4
<1>6. "SCOPE_MAXIMIZATION" \in fired
  BY <1>2, <1>5
<1>7. "REVERSIBILITY_OBSCURING" \in fired
  BY <1>2, <1>5
<1> QED BY <1>6, <1>7 DEF fired

\* A tool that succeeds in the runner has returned.
LEMMA ToolReturns ==
    ASSUME NEW tl, NEW level, NEW filtered, run(tl, level, filtered).success
    PROVE  tl.outcome = "returns"
<1> DEFINE reaches == IF level = "SECCOMP" /\ filtered THEN allowlist_for_rights({"READ"}) ELSE {"any"}
<1>1. run(tl, level, filtered) \in {_run_direct(tl), _run_in_subprocess(tl, level, filtered)}
  BY DEF run
<1>2. _run_in_subprocess(tl, level, filtered)
        \in {_run_direct(tl), [success |-> tl.outcome = "returns", level |-> level, reaches |-> reaches]}
  BY DEF _run_in_subprocess
<1>3. _run_direct(tl).success => tl.outcome = "returns"
  BY DEF _run_direct
<1> HIDE DEF reaches
<1>4. [success |-> tl.outcome = "returns", level |-> level, reaches |-> reaches].success => tl.outcome = "returns"
  OBVIOUS
<1> QED BY <1>1, <1>2, <1>3, <1>4, Zenon

\* The gate in front of the runner.
LEMMA SeccompRestricts ==
    ASSUME NEW g, NEW a, NEW tl, NEW level, NEW filtered, NEW t
    PROVE  LET x == seccomp_execute(g, a, tl, level, filtered, t)
           IN  /\ x.ran => verify(g, a, t).permitted
               /\ x.answer = "permitted" => x.ran /\ tl[1].outcome = "returns"
<1>1. run(tl[1], level, filtered).success => tl[1].outcome = "returns"
  BY ToolReturns
<1>2. seccomp_execute(g, a, tl, level, filtered, t).ran <=> verify(g, a, t).permitted /\ tl # << >>
  BY DEF seccomp_execute
<1>3. seccomp_execute(g, a, tl, level, filtered, t).answer = "permitted"
        => verify(g, a, t).permitted /\ tl # << >> /\ run(tl[1], level, filtered).success
  BY DEF seccomp_execute
<1> QED BY <1>1, <1>2, <1>3

\* The seams around the gate, on any view.
LEMMA SeamsOnlyRestrict ==
    ASSUME NEW g, Held(g)
    PROVE  SeamsRestrict(g)
<1>1. ASSUME NEW a \in Actions, NEW p \in Decisions, enforce_legitimacy(g, p, a, now)
      PROVE  verify(g, a, now).permitted /\ p.verdict = "ALLOW" /\ p.action_id = a.action_id
  BY <1>1 DEF enforce_legitimacy, enforce, is_allow
<1>2. ASSUME NEW a \in Actions, NEW level \in {"NONE", "SECCOMP"}, NEW filtered \in BOOLEAN, NEW tl \in Registered
      PROVE  LET x == seccomp_execute(g, a, tl, level, filtered, now)
             IN  /\ x.ran => verify(g, a, now).permitted
                 /\ x.answer = "permitted" => x.ran /\ tl[1].outcome = "returns"
  BY SeccompRestricts
<1>3. ASSUME NEW a \in Actions, NEW x \in Arguments
      PROVE  extended_verify(g, a, x, 50, "none", now).kernel_result.permitted = verify(g, a, now).permitted
  BY DEF extended_verify, verify
<1>4. ASSUME NEW a \in Actions, verify(g, a, now).permitted, Machine(a.actor), Identified(a.actor),
             \A r \in Asked(a) : Located(r) /\ ~r.is_public
      PROVE  /\ capture_check(g, a) = {}
             /\ "AUTHORITY_AMPLIFICATION" \notin criteria_fired(g, a, FALSE, now)
             /\ persuasion_check(g, a, FALSE, now).block =>
                   /\ \A op \in Operations : a.uses[op] # {}
                   /\ \E r \in Touched(a) : TypeOf[r] \in {"CREDENTIAL", "IDENTITY"}
  <2>1. a.uses \in [Operations -> SUBSET Resources]
    BY SubmittedAssumption
  <2>2. capture_check(g, a) = {} /\ "AUTHORITY_AMPLIFICATION" \notin criteria_fired(g, a, FALSE, now)
    BY <1>4, <2>1, NoCapture
  <2>3. ASSUME persuasion_check(g, a, FALSE, now).block
        PROVE  /\ \A op \in Operations : a.uses[op] # {}
               /\ \E r \in Touched(a) : TypeOf[r] \in {"CREDENTIAL", "IDENTITY"}
    BY <2>2, <2>3, Blocks DEF criteria_fired
  <2> QED BY <2>2, <2>3
<1> QED BY <1>1, <1>2, <1>3, <1>4 DEF SeamsRestrict

-------------------------------------------------------------------------------
(* Adapters *)

Asks(callable, a) == \E i \in DOMAIN callable : callable[i] = a

LEMMA Fronts == ASSUME NEW a, NEW b PROVE Asks(<<a>> \o Bare, a) /\ Asks(<<a>> \o <<b>>, a)
<1>1. ASSUME NEW s \in Seq({b}) PROVE Asks(<<a>> \o s, a)
  <2>1. <<a>> \in Seq({a, b}) /\ s \in Seq({a, b}) /\ Len(<<a>>) = 1 /\ <<a>>[1] = a
    OBVIOUS
  <2>2. Len(s) \in Nat /\ 1 \in 1 .. 1 + Len(s)
    BY <2>1, LenProperties
  <2>3. DOMAIN (<<a>> \o s) = 1 .. 1 + Len(s) /\ (<<a>> \o s)[1] = a
    BY <2>1, <2>2, ConcatProperties
  <2> QED BY <2>2, <2>3 DEF Asks
<1>2. Bare \in Seq({b}) /\ <<b>> \in Seq({b})
  BY DEF Bare
<1> QED BY <1>1, <1>2

\* Of the attributes of a task whose first two entry points are there or not, the
\* second is the one that is guarded.
LEMMA TaskGuarded ==
    ASSUME NEW agent, NEW R, NEW W, NEW D
    PROVE  guard_task(agent, [execute |-> NoTool, execute_sync |-> Bare, action |-> Bare], R, W, D, {}).execute_sync
             = tool(agent, Bare, R, W, D, {})
<1> DEFINE task == [execute |-> NoTool, execute_sync |-> Bare, action |-> Bare]
           present == {i \in DOMAIN EntryPoints : EntryPoints[i] \in DOMAIN task /\ task[EntryPoints[i]] # NoTool}
           first == EntryPoints[CHOOSE i \in present : \A j \in present : i <= j]
<1>1. /\ DOMAIN EntryPoints = 1 .. 4 /\ EntryPoints[1] = "execute" /\ EntryPoints[2] = "execute_sync"
      /\ DOMAIN task = {"execute", "execute_sync", "action"}
      /\ task["execute"] = NoTool /\ task["execute_sync"] = Bare
  BY DEF EntryPoints
<1>2. 1 \notin present /\ 2 \in present /\ present \subseteq 1 .. 4
  <2> HIDE DEF task
  <2> QED BY <1>1, NoToolAssumption
<1>3. (CHOOSE i \in present : \A j \in present : i <= j) = 2
  <2> HIDE DEF present
  <2>1. \A j \in present : 2 <= j
    BY <1>2
  <2> DEFINE chosen == CHOOSE i \in present : \A j \in present : i <= j
  <2>2. \E i \in present : \A j \in present : i <= j
    BY <1>2, <2>1
  <2>3. chosen \in present /\ \A j \in present : chosen <= j
    BY <2>2, Zenon
  <2> HIDE DEF chosen
  <2>4. 2 <= chosen /\ chosen <= 2 /\ chosen \in 1 .. 4
    BY <1>2, <2>1, <2>3
  <2>5. chosen = 2
    BY <2>4
  <2> QED BY <2>5 DEF chosen
<1>4. first = "execute_sync" /\ present # {}
  BY <1>1, <1>2, <1>3
<1>5. guard_task(agent, task, R, W, D, {}) = [task EXCEPT ![first] = tool(agent, @, R, W, D, {})]
  BY <1>4, Zenon DEF guard_task
<1> HIDE DEF present, first
<1> QED BY <1>1, <1>4, <1>5

\* What an adapter may be told of a tool.
ToolDeclared(x) ==
    /\ x \in [adapter : Adapters, agent : Entities, read : SUBSET Resources,
               write : SUBSET Resources, delegate : SUBSET Resources]
    /\ x.adapter \in {"autogen", "langgraph", "langchain", "dspy"} => x.delegate = {}
    /\ x.adapter = "dspy" => x.write = {} /\ \E r \in Resources : x.read = {r}

\* Whichever adapter a tool is behind, what it was declared to use is asked for
\* before it runs.
LEMMA AdaptersAsk ==
    ASSUME NEW tools, NEW name \in DOMAIN tools, ToolDeclared(tools[name])
    PROVE  Asks(Guarded(tools, name), Declared(tools[name]))
<1> DEFINE x == tools[name]
           wanted == [read |-> x.read, write |-> x.write, delegate |-> x.delegate]
           table == {n \in DOMAIN tools : tools[n].adapter = "autogen" /\ tools[n].agent = x.agent}
           task == [execute |-> NoTool, execute_sync |-> Bare, action |-> Bare]
           declared == Submitted(x.agent, x.read, x.write, x.delegate, {})
<1>1. CASE x.adapter = "autogen"
  <2>1. Guarded(tools, name) = register(x.agent, [n \in table |-> Bare], [n \in table |-> tools[n]])[name]
    BY <1>1, Zenon DEF Guarded
  <2>2. name \in table
    BY <1>1
  <2>3. Entry([n \in table |-> tools[n]], name) = x
    BY <2>2 DEF Entry
  <2>4. register(x.agent, [n \in table |-> Bare], [n \in table |-> tools[n]])[name]
          = tool(x.agent, Bare, x.read, x.write, {}, {})
    <3> HIDE DEF table
    <3> QED BY <2>2, <2>3 DEF register
  <2>5. x.delegate = {}
    BY <1>1 DEF ToolDeclared
  <2> QED BY <2>1, <2>4, <2>5, Fronts DEF tool, Declared
<1>2. CASE x.adapter = "langgraph"
  <2>1. Guarded(tools, name) = FreedomGraphNode(x.agent, Bare, <<wanted>>)
    BY <1>2 DEF Guarded
  <2>2. x.delegate = {}
    BY <1>2 DEF ToolDeclared
  <2> QED BY <2>1, <2>2, Fronts DEF FreedomGraphNode, make_verified_tool, kernel_gate, Declared
<1>3. CASE x.adapter = "mcp"
  <2>1. Guarded(tools, name)
          = wrap_handler(x.agent, Bare, <<[read |-> x.read, write |-> x.write, execute |-> x.delegate]>>)
    BY <1>3 DEF Guarded
  <2> QED BY <2>1, Fronts DEF wrap_handler, mcp_check, Declared
<1>4. CASE x.adapter = "crewai"
  <2>1. Guarded(tools, name)
          = wrap_crew(x.agent, [n \in {name} |-> task], [n \in {name} |-> wanted])[name].execute_sync
    BY <1>4 DEF Guarded
  <2>2. Entry([n \in {name} |-> wanted], name) = wanted
    BY DEF Entry
  <2>3. wrap_crew(x.agent, [n \in {name} |-> task], [n \in {name} |-> wanted])[name]
          = guard_task(x.agent, task, x.read, x.write, x.delegate, {})
    <3> HIDE DEF task
    <3> QED BY <2>2 DEF wrap_crew
  <2>4. Guarded(tools, name) = tool(x.agent, Bare, x.read, x.write, x.delegate, {})
    BY <2>1, <2>3, TaskGuarded
  <2> QED BY <2>4, Fronts DEF tool, Declared
<1>5. CASE x.adapter = "langchain"
  <2>1. Guarded(tools, name) = FreedomTool_run(TRUE, x.agent, Bare, x.read, x.write)
    BY <1>5 DEF Guarded
  <2>2. x.delegate = {}
    BY <1>5 DEF ToolDeclared
  <2>3. FreedomTool_run(TRUE, x.agent, Bare, x.read, x.write) = <<declared>> \o (<<declared>> \o Bare)
    BY <2>2 DEF FreedomTool_run, FreedomTool_verify, kernel_gate
  <2>4. <<declared>> \o Bare = <<declared>>
    BY DEF Bare
  <2> QED BY <2>1, <2>3, <2>4, Fronts DEF Declared
<1>6. CASE x.adapter = "dspy"
  <2>1. Guarded(tools, name)
          = dspy_guard(x.agent, [forward |-> Bare, save |-> Bare], CHOOSE r \in x.read : TRUE).forward
    BY <1>6 DEF Guarded
  <2>2. x.delegate = {} /\ x.write = {} /\ \E r \in Resources : x.read = {r}
    BY <1>6 DEF ToolDeclared
  <2>3. {CHOOSE r \in x.read : TRUE} = x.read
    BY <2>2
  <2>4. Guarded(tools, name) = <<declared>> \o Bare
    BY <2>1, <2>2, <2>3 DEF dspy_guard
  <2> QED BY <2>4, Fronts DEF Declared
<1> QED BY <1>1, <1>2, <1>3, <1>4, <1>5, <1>6 DEF ToolDeclared, Adapters

-------------------------------------------------------------------------------
(* Plans, step by step *)

\* The loop of verify_plan, without its calls: each place has an answer of its
\* own, which is given unless an answer before it revealed the plan.
Loop(n, answer, aborted, reveals, f) ==
    f = [i \in 1 .. n |-> IF \E j \in 1 .. i - 1 : f[j] \in reveals THEN aborted ELSE answer[i]]

LEMMA LoopStops ==
    ASSUME NEW n \in Nat, NEW answer, NEW aborted, NEW reveals, aborted \notin reveals,
           NEW f, Loop(n, answer, aborted, reveals, f), NEW i \in 1 .. n
    PROVE  (\E j \in 1 .. i - 1 : f[j] \in reveals) <=> (\E j \in 1 .. i - 1 : answer[j] \in reveals)
<1> DEFINE R == {j \in 1 .. i - 1 : answer[j] \in reveals}
<1>1. ASSUME NEW j \in 1 .. i - 1, f[j] \in reveals PROVE answer[j] \in reveals
  <2>1. f[j] = answer[j] \/ f[j] = aborted
    BY DEF Loop
  <2> QED BY <1>1, <2>1
<1>2. ASSUME R # {} PROVE \E j \in 1 .. i - 1 : f[j] \in reveals
  <2>1. PICK m \in R : \A k \in R : m <= k
    <3>1. R \subseteq Nat
      OBVIOUS
    <3> QED BY <1>2, <3>1, LeastNatural
  <2>2. ~ \E k \in 1 .. m - 1 : f[k] \in reveals
    <3>1. ASSUME NEW k \in 1 .. m - 1, f[k] \in reveals PROVE FALSE
      <4>1. k \in 1 .. i - 1 /\ k < m
        BY <2>1
      <4> QED BY <1>1, <2>1, <3>1, <4>1
    <3> QED BY <3>1
  <2>3. f[m] = answer[m]
    BY <2>1, <2>2 DEF Loop
  <2> QED BY <2>1, <2>3
<1> QED BY <1>1, <1>2

LEMMA LoopEnds ==
    ASSUME NEW n \in Nat, NEW answer, NEW aborted, NEW reveals, aborted \notin reveals
    PROVE  \E f : Loop(n, answer, aborted, reveals, f)
<1> DEFINE Revealed(i) == \E j \in 1 .. i - 1 : answer[j] \in reveals
           f == [i \in 1 .. n |-> IF Revealed(i) THEN aborted ELSE answer[i]]
<1>1. ASSUME NEW i \in 1 .. n PROVE (\E j \in 1 .. i - 1 : f[j] \in reveals) <=> Revealed(i)
  <2>1. ASSUME NEW j \in 1 .. i - 1, f[j] \in reveals PROVE Revealed(i)
    <3>1. f[j] = answer[j] \/ f[j] = aborted
      OBVIOUS
    <3> QED BY <2>1, <3>1
  <2>2. ASSUME Revealed(i) PROVE \E j \in 1 .. i - 1 : f[j] \in reveals
    <3> DEFINE R == {j \in 1 .. i - 1 : answer[j] \in reveals}
    <3>1. PICK m \in R : \A k \in R : m <= k
      <4>1. R \subseteq Nat /\ R # {}
        BY <2>2
      <4> QED BY <4>1, LeastNatural
    <3>2. ~Revealed(m)
      <4>1. ASSUME NEW k \in 1 .. m - 1, answer[k] \in reveals PROVE FALSE
        <5>1. k \in R /\ k < m
          BY <3>1, <4>1
        <5> QED BY <3>1, <5>1
      <4> QED BY <4>1
    <3>3. m \in 1 .. n /\ m \in 1 .. i - 1 /\ answer[m] \in reveals
      BY <3>1
    <3>4. f[m] = answer[m]
      BY <3>2, <3>3
    <3> QED BY <3>3, <3>4
  <2> QED BY <2>1, <2>2
<1> HIDE DEF Revealed
<1>2. f = [i \in 1 .. n |-> IF \E j \in 1 .. i - 1 : f[j] \in reveals THEN aborted ELSE answer[i]]
  <2>1. \A i \in 1 .. n : f[i] = IF \E j \in 1 .. i - 1 : f[j] \in reveals THEN aborted ELSE answer[i]
    BY <1>1
  <2> DEFINE g == [i \in 1 .. n |-> IF \E j \in 1 .. i - 1 : f[j] \in reveals THEN aborted ELSE answer[i]]
  <2>2. \A i \in 1 .. n : g[i] = IF \E j \in 1 .. i - 1 : f[j] \in reveals THEN aborted ELSE answer[i]
    OBVIOUS
  <2>3. f = [i \in 1 .. n |-> f[i]] /\ g = [i \in 1 .. n |-> g[i]]
    OBVIOUS
  <2> HIDE DEF f, g
  <2>4. \A i \in 1 .. n : f[i] = g[i]
    BY <2>1, <2>2
  <2>5. f = g
    BY <2>3, <2>4
  <2> QED BY <2>5 DEF g
<1> QED BY <1>2, Zenon DEF Loop

\* A verdict reveals a forbidden step if and only if the step raised a flag.
LEMMA FlagsReveal ==
    ASSUME NEW g, NEW a, NEW t
    PROVE  (\E v \in verify(g, a, t).violations : v[1] = "FORBIDDEN") <=> a.flags # {}
<1>1. verify(g, a, t).violations = Violations(g, a, t)
  BY DEF verify
<1>2. \A v \in Violations(g, a, t) : v[1] = "FORBIDDEN" => a.flags # {}
  BY DEF Violations
<1>3. \A f \in a.flags : <<"FORBIDDEN", f>> \in Violations(g, a, t)
  BY Zenon DEF Violations
<1>4. \A f : <<"FORBIDDEN", f>>[1] = "FORBIDDEN"
  OBVIOUS
<1> QED BY <1>1, <1>2, <1>3, <1>4

LEMMA PlanIsVerified ==
    ASSUME NEW g, NEW steps, NEW n \in Nat, DOMAIN steps = 1 .. n, NEW t
    PROVE  LET results == verify_plan(g, steps, t)
           IN  /\ DOMAIN results = DOMAIN steps
               /\ \A i \in DOMAIN steps :
                     results[i].permitted <=> /\ verify(g, steps[i], t).permitted
                                              /\ \A j \in 1 .. i - 1 : steps[j].flags = {}
<1> DEFINE answer == [i \in 1 .. n |-> verify(g, steps[i], t)]
           reveals == {r \in {Cancelled} \cup {answer[i] : i \in 1 .. n} :
                          \E v \in r.violations : v[1] = "FORBIDDEN"}
           results == verify_plan(g, steps, t)
           Body(f) == f = [i \in DOMAIN steps |->
                             IF \E j \in 1 .. i - 1 : \E v \in f[j].violations : v[1] = "FORBIDDEN"
                             THEN Cancelled ELSE verify(g, steps[i], t)]
<1>1. Cancelled \notin reveals /\ ~Cancelled.permitted
  BY DEF Cancelled
<1>2. \A i \in 1 .. n : answer[i] \in reveals <=> steps[i].flags # {}
  <2>1. \A i \in 1 .. n : answer[i] = verify(g, steps[i], t)
    OBVIOUS
  <2>2. \A i \in 1 .. n : answer[i] \in {Cancelled} \cup {answer[k] : k \in 1 .. n}
    OBVIOUS
  <2> HIDE DEF answer
  <2> QED BY <2>1, <2>2, FlagsReveal
<1> DEFINE all == {Cancelled} \cup {answer[i] : i \in 1 .. n}
           Forbidden(r) == \E v \in r.violations : v[1] = "FORBIDDEN"
<1>3. \A r \in all : r \in reveals <=> Forbidden(r)
  OBVIOUS
<1>4. \A i \in 1 .. n : answer[i] = verify(g, steps[i], t) /\ answer[i] \in all
  OBVIOUS
<1>5. Cancelled \in all
  OBVIOUS
<1> HIDE DEF answer, reveals, all, Forbidden
<1>6. ASSUME NEW f, Loop(n, answer, Cancelled, reveals, f) \/ Body(f)
      PROVE  Loop(n, answer, Cancelled, reveals, f) /\ Body(f)
  <2> DEFINE L == [i \in 1 .. n |-> IF \E j \in 1 .. i - 1 : f[j] \in reveals THEN Cancelled ELSE answer[i]]
             B == [i \in 1 .. n |-> IF \E j \in 1 .. i - 1 : Forbidden(f[j]) THEN Cancelled ELSE verify(g, steps[i], t)]
  <2>1. (Loop(n, answer, Cancelled, reveals, f) <=> f = L) /\ (Body(f) <=> f = B)
    BY DEF Loop, Forbidden
  <2>2. \A j \in 1 .. n : f[j] \in all
    <3>1. CASE f = L
      BY <1>4, <1>5, <3>1
    <3>2. CASE f = B
      BY <1>4, <1>5, <3>2
    <3> QED BY <1>6, <2>1, <3>1, <3>2
  <2>3. ASSUME NEW i \in 1 .. n PROVE L[i] = B[i]
    <3>1. \A j \in 1 .. i - 1 : f[j] \in reveals <=> Forbidden(f[j])
      BY <1>3, <2>2
    <3> QED BY <1>4, <3>1
  <2>4. L = B
    <3>1. L = [i \in 1 .. n |-> L[i]] /\ B = [i \in 1 .. n |-> B[i]]
      OBVIOUS
    <3> HIDE DEF L, B
    <3> QED BY <2>3, <3>1
  <2> QED BY <1>6, <2>1, <2>4
<1>7. Body(results)
  <2>1. \E f : Body(f)
    BY <1>1, <1>6, LoopEnds
  <2>2. results = CHOOSE f : Body(f)
    BY DEF verify_plan
  <2> HIDE DEF Body, results
  <2> QED BY <2>1, <2>2, Zenon
<1>8. Loop(n, answer, Cancelled, reveals, results)
  BY <1>6, <1>7
<1> HIDE DEF Body, results
<1>9. DOMAIN results = DOMAIN steps
  BY <1>8 DEF Loop
<1>10. ASSUME NEW i \in DOMAIN steps
       PROVE  results[i].permitted <=> /\ verify(g, steps[i], t).permitted
                                       /\ \A j \in 1 .. i - 1 : steps[j].flags = {}
  <2>1. (\E j \in 1 .. i - 1 : results[j] \in reveals) <=> (\E j \in 1 .. i - 1 : steps[j].flags # {})
    <3>1. i \in 1 .. n
      OBVIOUS
    <3>2. (\E j \in 1 .. i - 1 : results[j] \in reveals) <=> (\E j \in 1 .. i - 1 : answer[j] \in reveals)
      BY <1>1, <1>8, <3>1, LoopStops, Zenon
    <3>3. \A j \in 1 .. i - 1 : j \in 1 .. n
      BY <3>1
    <3> QED BY <1>2, <3>2, <3>3
  <2>2. results[i] = IF \E j \in 1 .. i - 1 : steps[j].flags # {} THEN Cancelled ELSE verify(g, steps[i], t)
    BY <1>4, <1>8, <2>1 DEF Loop
  <2> QED BY <1>1, <2>2
<1> QED BY <1>9, <1>10 DEF results

\* Four labels, each of which flows to itself and to those after it.
OnLadder(s, x, y) == \E i \in DOMAIN s : s[i] = x /\ \E j \in i .. 4 : s[j] = y

LEMMA Ladder ==
    ASSUME NEW a, NEW b, NEW c, NEW d, NEW x, NEW y
    PROVE  OnLadder(<<a, b, c, d>>, x, y)
           <=> \/ x = a /\ y \in {a, b, c, d}
               \/ x = b /\ y \in {b, c, d}
               \/ x = c /\ y \in {c, d}
               \/ x = d /\ y = d
<1> DEFINE s == <<a, b, c, d>>
<1>1. DOMAIN s = 1 .. 4 /\ s[1] = a /\ s[2] = b /\ s[3] = c /\ s[4] = d
  OBVIOUS
<1> HIDE DEF s
<1>2. (\E i \in DOMAIN s : s[i] = x /\ \E j \in i .. 4 : s[j] = y)
      <=> \/ s[1] = x /\ y \in {s[1], s[2], s[3], s[4]}
          \/ s[2] = x /\ y \in {s[2], s[3], s[4]}
          \/ s[3] = x /\ y \in {s[3], s[4]}
          \/ s[4] = x /\ y = s[4]
  <2>1. \A i \in 1 .. 4 : i = 1 \/ i = 2 \/ i = 3 \/ i = 4
    OBVIOUS
  <2> QED BY <1>1, <2>1
<1> QED BY <1>1, <1>2 DEF s, OnLadder

LEMMA Table ==
    ASSUME NEW a, NEW b, NEW c, NEW d, a # b, a # c, a # d, b # c, b # d, c # d, NEW x, NEW y
    PROVE  LET f == [l \in {a, b, c, d} |-> CASE l = a -> {a, b, c, d} [] l = b -> {b, c, d}
                                              [] l = c -> {c, d} [] l = d -> {d}]
           IN  (IF x \in DOMAIN f THEN y \in f[x] ELSE y = x)
               <=> \/ x = y
                   \/ x = a /\ y \in {a, b, c, d}
                   \/ x = b /\ y \in {b, c, d}
                   \/ x = c /\ y \in {c, d}
                   \/ x = d /\ y = d
OBVIOUS

\* The lattice lets data flow upwards, and an unknown label into itself.
LEMMA FlowsUp ==
    ASSUME NEW source, NEW sink
    PROVE  can_flow(source, sink) <=> source = sink \/ AtOrBelow(source, sink)
<1>1. /\ "" # "PUBLIC" /\ "" # "INTERNAL" /\ "" # "SECRET"
      /\ "PUBLIC" # "INTERNAL" /\ "PUBLIC" # "SECRET" /\ "INTERNAL" # "SECRET"
  BY Zenon
<1> DEFINE Above == \/ source = "" /\ sink \in {"", "PUBLIC", "INTERNAL", "SECRET"}
                    \/ source = "PUBLIC" /\ sink \in {"PUBLIC", "INTERNAL", "SECRET"}
                    \/ source = "INTERNAL" /\ sink \in {"INTERNAL", "SECRET"}
                    \/ source = "SECRET" /\ sink = "SECRET"
<1>2. AtOrBelow(source, sink) <=> Above
  <2>1. OnLadder(Secrecy, source, sink) <=> Above
    <3> DEFINE e == ""
    <3> HIDE DEF e
    <3>1. OnLadder(<<e, "PUBLIC", "INTERNAL", "SECRET">>, source, sink)
          <=> \/ source = e /\ sink \in {e, "PUBLIC", "INTERNAL", "SECRET"}
              \/ source = "PUBLIC" /\ sink \in {"PUBLIC", "INTERNAL", "SECRET"}
              \/ source = "INTERNAL" /\ sink \in {"INTERNAL", "SECRET"}
              \/ source = "SECRET" /\ sink = "SECRET"
      <4> HIDE DEF Above
      <4> QED BY Ladder
    <3> QED BY <3>1, Zenon DEF e, Secrecy
  <2>2. AtOrBelow(source, sink) <=> OnLadder(Secrecy, source, sink)
    BY Zenon DEF AtOrBelow, OnLadder
  <2> QED BY <2>1, <2>2, Zenon
<1>3. can_flow(source, sink) <=> source = sink \/ Above
  <2>1. (IF source \in DOMAIN flows_to THEN sink \in flows_to[source] ELSE source = sink)
        <=> source = sink \/ Above
    BY <1>1, Table, Zenon DEF flows_to
  <2> QED BY <2>1, Zenon DEF can_flow
<1> HIDE DEF Above
<1> QED BY <1>2, <1>3, Zenon

Labelled == [read : SUBSET STRING, write : SUBSET STRING]

\* Nothing that is read up to a step flows down in that step or before.
NothingDown(labels, k) ==
    \A j \in 1 .. k : \A i \in 1 .. j :
        \A source \in labels[i].read, sink \in labels[j].write : can_flow(source, sink)

LEMMA FlowsAreChecked ==
    ASSUME NEW labels \in Seq(Labelled)
    PROVE  check_plan(labels) <=>
              \A j \in DOMAIN labels : \A i \in 1 .. j :
                  \A source \in labels[i].read, sink \in labels[j].write :
                      source = sink \/ AtOrBelow(source, sink)
<1> DEFINE n == Len(labels)
           S == [read_labels_so_far : SUBSET STRING, passes : BOOLEAN]
           none == [read_labels_so_far |-> {}, passes |-> TRUE]
           step == [p \in (1 .. n) \X S |-> check_action(p[2], labels[p[1]])]
           Body(f) == f = [i \in 0 .. n |-> IF i = 0 THEN none ELSE check_action(f[i - 1], labels[i])]
           checked == CHOOSE f : Body(f)
<1>1. n \in Nat /\ DOMAIN labels = 1 .. n /\ \A i \in 1 .. n : labels[i] \in Labelled
  BY ElementOfSeq, LenProperties
<1>2. none \in S
  OBVIOUS
<1>3. ASSUME NEW i \in 1 .. n, NEW s \in S PROVE check_action(s, labels[i]) \in S
  BY <1>1 DEF check_action, Labelled
<1>4. step \in [(1 .. n) \X S -> S] /\ \A i \in 1 .. n, s \in S : step[<<i, s>>] = check_action(s, labels[i])
  <2> HIDE DEF S, n
  <2> QED BY <1>3
<1> HIDE DEF step, n, none
<1>5. PICK f \in [0 .. n -> S] : f[0] = none /\ \A i \in 1 .. n : f[i] = step[<<i, f[i - 1]>>]
  <2> HIDE DEF S
  <2>1. Steps(n, S, none, OneByOne(n), step)
    BY <1>1, <1>2, <1>4 DEF Steps, OneByOne
  <2> QED BY <2>1, Iteration
<1>6. Body(f)
  <2> HIDE DEF S
  <2>1. ASSUME NEW i \in 1 .. n PROVE f[i] = check_action(f[i - 1], labels[i])
    <3>1. i - 1 \in 0 .. n
      BY <1>1
    <3> QED BY <1>4, <1>5, <3>1
  <2> QED BY <1>1, <1>5, <2>1
<1>7. Body(checked)
  <2> HIDE DEF Body
  <2> QED BY <1>6, Zenon
<1> HIDE DEF checked
<1>8. checked[0] = none /\ \A i \in 1 .. n : checked[i] = check_action(checked[i - 1], labels[i])
  BY <1>1, <1>7
<1> DEFINE Read(i) == UNION {labels[j].read : j \in 1 .. i}
           Right(i) == /\ checked[i] \in S /\ (checked[i].passes <=> NothingDown(labels, i))
                       /\ checked[i].passes => checked[i].read_labels_so_far = Read(i)
           T == {i \in 0 .. n : Right(i)}
<1>9. ASSUME NEW i \in 0 .. n, \A j \in 0 .. n : j < i => j \in T PROVE Right(i)
  <2>1. CASE i = 0
    <3>1. checked[0].passes = TRUE /\ checked[0].read_labels_so_far = {}
      BY <1>8 DEF none
    <3>2. NothingDown(labels, 0) /\ Read(0) = {}
      BY DEF NothingDown
    <3> QED BY <1>2, <1>8, <2>1, <3>1, <3>2
  <2>2. CASE i # 0
    <3> DEFINE c == checked[i - 1]
               d == checked[i]
    <3>1. i - 1 \in 0 .. n /\ i \in 1 .. n /\ Right(i - 1)
      <4>1. i - 1 \in 0 .. n /\ i - 1 < i /\ i \in 1 .. n
        BY <1>1, <2>2
      <4> QED BY <1>9, <4>1
    <3>2. d = check_action(c, labels[i]) /\ c \in S /\ d \in S
      BY <1>3, <1>8, <3>1
    <3>3. \A j \in 1 .. i : j \in 1 .. i - 1 \/ j = i
      BY <1>1
    <3>4. Read(i) = Read(i - 1) \cup labels[i].read
      BY <1>1, <3>1, <3>3
    <3>5. NothingDown(labels, i) <=>
             /\ NothingDown(labels, i - 1)
             /\ \A source \in Read(i), sink \in labels[i].write : can_flow(source, sink)
      <4>1. \A j \in 1 .. i - 1 : j \in 1 .. i
        BY <1>1
      <4>2. i \in 1 .. i
        BY <3>1
      <4> QED BY <3>3, <4>1, <4>2 DEF NothingDown
    <3>6. CASE ~c.passes
      <4>1. d = c
        BY <3>2, <3>6 DEF check_action
      <4> HIDE DEF Read
      <4> QED BY <3>1, <3>2, <3>5, <3>6, <4>1
    <3>7. CASE c.passes
      <4>1. c.read_labels_so_far = Read(i - 1) /\ NothingDown(labels, i - 1)
        BY <3>1, <3>7
      <4> HIDE DEF Read
      <4>2. /\ d.read_labels_so_far = Read(i)
            /\ d.passes = \A sink \in labels[i].write, source \in Read(i) : can_flow(source, sink)
        BY <3>2, <3>4, <3>7, <4>1 DEF check_action
      <4> HIDE DEF d
      <4> QED BY <3>2, <3>5, <4>1, <4>2 DEF d
    <3> QED BY <3>6, <3>7
  <2> QED BY <2>1, <2>2
<1>10. n \in T
  <2> HIDE DEF Right
  <2>1. ASSUME NEW i \in 0 .. n, \A j \in 0 .. n : j < i => j \in T PROVE i \in T
    BY <1>9, <2>1
  <2> HIDE DEF T
  <2>2. 0 .. n \subseteq T
    BY <1>1, <2>1, PlaceByPlace
  <2> QED BY <1>1, <2>2
<1>11. check_plan(labels) = checked[n].passes
  BY DEF check_plan, checked, n, none
<1>12. check_plan(labels) <=> NothingDown(labels, n)
  <2> HIDE DEF S, Read
  <2> QED BY <1>10, <1>11
<1> QED BY <1>1, <1>12, FlowsUp DEF NothingDown

-------------------------------------------------------------------------------
(* The layers around the gate never permit more than it *)

\* The registry is as its own proofs have it, the job is one of the jobs and a
\* tool that ran was permitted.
HostInv == Agreement /\ job \in Jobs /\ ToolWasPermitted

LEMMA InitHost == HostInit => HostInv
BY InitAgreement DEF HostInit, HostInv, ToolWasPermitted

LEMMA CallPermitted ==
    ASSUME HostInv, NEW name \in DOMAIN job.tools, Call(name)
    PROVE  ToolWasPermitted'
<1>1. job.kind = "tools" /\ job \in Jobs /\ Runs(view, Guarded(job.tools, name), now)
      /\ ran' = <<name, view, now>> /\ job' = job
  BY DEF Call, HostInv
<1>2. ToolDeclared(job.tools[name])
  <2>1. \A n \in DOMAIN job.tools : ToolDeclared(job.tools[n])
    BY <1>1, JobsAssumption DEF ToolDeclared
  <2> QED BY <2>1
<1>3. verify(view, Declared(job.tools[name]), now).permitted
  BY <1>1, <1>2, AdaptersAsk DEF Asks, Runs
<1>4. ran'[1] = name /\ ran'[2] = view /\ ran'[3] = now
  BY <1>1
<1> QED BY <1>1, <1>3, <1>4 DEF ToolWasPermitted

LEMMA NextHost == HostInv /\ [HostTurn]_hostVars => HostInv'
<1> SUFFICES ASSUME HostInv, [HostTurn]_hostVars PROVE HostInv'
  OBVIOUS
<1>1. [Next]_vars /\ job' = job
  <2>1. CASE Registry
    BY <2>1 DEF Registry, Next
  <2>2. CASE ~Registry
    BY <2>2 DEF HostTurn, FreedomVerifier, Call, add_link, hostVars
  <2> QED BY <2>1, <2>2
<1>2. Agreement' /\ job' \in Jobs
  BY <1>1, NextAgreement DEF HostInv
<1>3. ToolWasPermitted'
  <2>1. CASE ran' = ran
    BY <1>1, <2>1 DEF HostInv, ToolWasPermitted
  <2>2. ASSUME NEW name \in DOMAIN job.tools, Call(name) PROVE ToolWasPermitted'
    BY <2>2, CallPermitted
  <2> QED BY <2>1, <2>2 DEF HostTurn, Registry, FreedomVerifier, add_link, hostVars
<1> QED BY <1>2, <1>3 DEF HostInv

\* What holds on every registry and of every job holds throughout.
LEMMA HostInvariant == HostSpec => []HostInv
BY InitHost, NextHost, PTL DEF HostSpec

\* The layers only restrict, on every view of a registry that can come about, for
\* any policies, goals, payloads and tools; a plan of any length is let through
\* just as far as the gate, its flags and its labels allow.
THEOREM LayersAlwaysOnlyRestrict == HostSpec => []LayersOnlyRestrict
<1>1. HostInv => LayersOnlyRestrict
  <2> SUFFICES ASSUME HostInv PROVE LayersOnlyRestrict
    OBVIOUS
  <2>1. PoliciesRestrict(LiveView)
    BY PoliciesOnlyRestrict, Trees, TreesRestrict, Zenon DEF PoliciesRestrict
  <2>2. Held(LiveView)
    BY AgreementHeld DEF HostInv
  <2>3. SeamsRestrict(LiveView)
    BY <2>2, SeamsOnlyRestrict
  <2>4. ASSUME job.kind = "steps" PROVE StepsAreVerified(LiveView, job.steps, job.labels)
    <3>1. job.labels \in Seq(Labelled) /\ DOMAIN job.steps = DOMAIN job.labels
      BY <2>4, InputsAssumption, Zenon DEF HostInv, Labelled
    <3>2. Len(job.labels) \in Nat /\ DOMAIN job.steps = 1 .. Len(job.labels)
      BY <3>1, LenProperties
    <3> DEFINE steps == job.steps
               labels == job.labels
               results == verify_plan(LiveView, steps, now)
    <3>3. /\ DOMAIN results = DOMAIN steps
          /\ \A i \in DOMAIN steps :
                results[i].permitted <=> /\ verify(LiveView, steps[i], now).permitted
                                         /\ \A j \in 1 .. i - 1 : steps[j].flags = {}
      BY <3>2, PlanIsVerified, Zenon
    <3>4. check_plan(labels) <=>
             \A j \in DOMAIN labels : \A i \in 1 .. j :
                 \A source \in labels[i].read, sink \in labels[j].write :
                     source = sink \/ AtOrBelow(source, sink)
      BY <3>1, FlowsAreChecked, Zenon
    <3> QED BY <3>3, <3>4, Zenon DEF StepsAreVerified
  <2> QED BY <2>1, <2>3, <2>4, Zenon DEF HostInv, LayersOnlyRestrict
<1> QED BY <1>1, HostInvariant, PTL

-------------------------------------------------------------------------------
(* Policy texts *)

Statements ==
    [effect : Effects, subject : Words, operations : SUBSET STRING,
     resource_scope : (Seq(Words) \ {<< >>}) \cup {Anything}, conditions : SUBSET Conditions]
Finished == {s \in Statements : s.operations # {}}

\* What the parser has read so far.
Read == [error : BOOLEAN, statements : Seq(Finished), current : Seq(Statements)]

LEMMA HeaderRead ==
    ASSUME NEW l \in Lines
    PROVE  _parse_header(l) \in Seq(Statements)
<1>1. CASE l.word \in Effects /\ Len(l.arg) = 1
  <2>1. l.arg \in Seq(Words) /\ 1 \in 1 .. Len(l.arg)
    BY <1>1 DEF Lines
  <2>2. l.arg[1] \in Words
    BY <2>1, ElementOfSeq
  <2> DEFINE s == [effect |-> l.word, subject |-> l.arg[1], operations |-> {},
                   resource_scope |-> Anything, conditions |-> {}]
  <2>3. s \in Statements
    BY <1>1, <2>2 DEF Statements
  <2>4. _parse_header(l) = <<s>>
    BY <1>1, Zenon DEF _parse_header
  <2> HIDE DEF s
  <2> QED BY <2>3, <2>4
<1>2. CASE ~(l.word \in Effects /\ Len(l.arg) = 1)
  <2>1. _parse_header(l) = << >>
    BY <1>2, Zenon DEF _parse_header
  <2> QED BY <2>1
<1> QED BY <1>1, <1>2

LEMMA BodyRead ==
    ASSUME NEW l \in Lines, NEW s \in Statements
    PROVE  _parse_body_line(l, s) \in Seq(Statements)
<1>1. /\ l.word \in STRING /\ l.arg \in Seq(Words)
      /\ s.operations \in SUBSET STRING /\ s.conditions \in SUBSET Conditions
  BY DEF Lines, Statements
<1>2. CASE l.word \notin Conditions
  <2> DEFINE scope == IF l.arg = << >> THEN Anything ELSE l.arg
             new == [s EXCEPT !.operations = @ \cup {l.word}, !.resource_scope = scope]
  <2>1. scope \in (Seq(Words) \ {<< >>}) \cup {Anything}
    BY <1>1
  <2> HIDE DEF scope
  <2>2. new \in Statements
    BY <1>1, <2>1 DEF Statements
  <2>3. _parse_body_line(l, s) = <<new>>
    BY <1>2 DEF _parse_body_line, scope
  <2> HIDE DEF new
  <2> QED BY <2>2, <2>3
<1>3. CASE l.word \in Conditions
  <2> DEFINE new == [s EXCEPT !.conditions = @ \cup {l.word}]
  <2>1. new \in Statements
    BY <1>1, <1>3 DEF Statements
  <2>2. _parse_body_line(l, s) = <<new>> \/ _parse_body_line(l, s) = << >>
    BY <1>3 DEF _parse_body_line
  <2> HIDE DEF new
  <2>3. <<new>> \in Seq(Statements) /\ << >> \in Seq(Statements)
    BY <2>1
  <2> QED BY <2>2, <2>3, Zenon
<1> QED BY <1>2, <1>3

LEMMA StatementClosed ==
    ASSUME NEW st \in Read
    PROVE  _validate_statement(st) \in Read
<1>1. st.statements \in Seq(Finished) /\ st.current \in Seq(Statements) /\ st.error \in BOOLEAN
  BY DEF Read
<1>2. CASE st.current = << >>
  BY <1>2 DEF _validate_statement
<1>3. CASE st.current # << >> /\ st.current[1].operations = {}
  <2>1. _validate_statement(st) = [st EXCEPT !.error = TRUE]
    BY <1>3, Zenon DEF _validate_statement
  <2> QED BY <2>1 DEF Read
<1>4. CASE st.current # << >> /\ st.current[1].operations # {}
  <2>1. _validate_statement(st) = [st EXCEPT !.statements = Append(@, st.current[1]), !.current = << >>]
    BY <1>4, Zenon DEF _validate_statement
  <2>2. 1 \in 1 .. Len(st.current)
    BY <1>1, <1>4, EmptySeq, LenProperties
  <2>3. st.current[1] \in Statements
    BY <1>1, <2>2, ElementOfSeq
  <2>4. st.current[1] \in Finished
    BY <1>4, <2>3 DEF Finished
  <2>5. Append(st.statements, st.current[1]) \in Seq(Finished) /\ << >> \in Seq(Statements)
    BY <1>1, <2>4, AppendProperties
  <2> QED BY <1>1, <2>1, <2>5 DEF Read
<1> QED BY <1>2, <1>3, <1>4

LEMMA LineRead ==
    ASSUME NEW st \in Read, NEW l \in Lines
    PROVE  ReadLine(st, l) \in Read
<1> DEFINE before == IF l.indented THEN st ELSE _validate_statement(st)
           opened == IF ~l.indented THEN _parse_header(l)
                     ELSE IF st.current = << >> THEN << >> ELSE _parse_body_line(l, st.current[1])
<1>1. before \in Read
  BY StatementClosed
<1>2. opened \in Seq(Statements)
  <2>1. st.current \in Seq(Statements)
    BY DEF Read
  <2>2. st.current # << >> => 1 \in 1 .. Len(st.current)
    BY <2>1, EmptySeq, LenProperties
  <2>3. st.current # << >> => st.current[1] \in Statements
    BY <2>1, <2>2, ElementOfSeq
  <2> QED BY <2>3, HeaderRead, BodyRead
<1>3. ReadLine(st, l) = IF Blank(l) THEN st
                        ELSE IF before.error \/ opened = << >> THEN [before EXCEPT !.error = TRUE]
                        ELSE [before EXCEPT !.current = opened]
  BY Zenon DEF ReadLine
<1> HIDE DEF before, opened
<1>4. [before EXCEPT !.error = TRUE] \in Read /\ [before EXCEPT !.current = opened] \in Read
  BY <1>1, <1>2 DEF Read
<1> QED BY <1>3, <1>4, Zenon

\* What is read of a text consists of whole statements.
LEMMA TextParsed ==
    ASSUME NEW text \in Seq(Lines)
    PROVE  parse(text) \in Read
<1> DEFINE n == Len(text)
           step == [p \in (1 .. n) \X Read |-> ReadLine(p[2], text[p[1]])]
           Fits(f) == f = [i \in 0 .. n |-> IF i = 0 THEN NothingRead ELSE ReadLine(f[i - 1], text[i])]
           read == CHOOSE f : Fits(f)
<1>1. n \in Nat /\ \A i \in 1 .. n : text[i] \in Lines
  BY ElementOfSeq, LenProperties
<1>2. NothingRead \in Read
  BY DEF NothingRead, Read
<1>3. step \in [(1 .. n) \X Read -> Read] /\ \A i \in 1 .. n, s \in Read : step[<<i, s>>] = ReadLine(s, text[i])
  BY <1>1, LineRead
<1> HIDE DEF step, n
<1>4. PICK f \in [0 .. n -> Read] : f[0] = NothingRead /\ \A i \in 1 .. n : f[i] = step[<<i, f[i - 1]>>]
  <2>1. Steps(n, Read, NothingRead, OneByOne(n), step)
    BY <1>1, <1>2, <1>3 DEF Steps, OneByOne
  <2> QED BY <2>1, Iteration
<1>5. Fits(f)
  <2>1. ASSUME NEW i \in 1 .. n PROVE f[i] = ReadLine(f[i - 1], text[i])
    <3>1. i - 1 \in 0 .. n
      BY <1>1
    <3> QED BY <1>3, <1>4, <3>1
  <2> QED BY <1>1, <1>4, <2>1
<1>6. Fits(read)
  <2> HIDE DEF Fits
  <2> QED BY <1>5, Zenon
<1>7. \A i \in 0 .. n : read[i] \in Read
  <2> HIDE DEF read
  <2> DEFINE T == {i \in 0 .. n : read[i] \in Read}
  <2>1. ASSUME NEW i \in 0 .. n, \A j \in 0 .. n : j < i => j \in T PROVE i \in T
    <3>1. CASE i = 0
      BY <1>1, <1>2, <1>6, <3>1
    <3>2. CASE i # 0
      <4>1. i - 1 \in 0 .. n /\ i - 1 < i /\ i \in 1 .. n
        BY <1>1, <3>2
      <4>2. read[i - 1] \in Read /\ read[i] = ReadLine(read[i - 1], text[i])
        BY <1>6, <2>1, <3>2, <4>1
      <4> QED BY <1>1, <4>1, <4>2, LineRead
    <3> QED BY <3>1, <3>2
  <2> HIDE DEF T
  <2>2. 0 .. n \subseteq T
    BY <1>1, <2>1, PlaceByPlace
  <2> QED BY <2>2 DEF T
<1>8. readings(text) = read
  BY DEF readings, n
<1>9. readings(text)[n] \in Read
  BY <1>1, <1>7, <1>8
<1> QED BY <1>9, StatementClosed DEF parse, n

\* Rules, and whether they match, with the empty pattern named.
NoWord == ""

RuleOf(s, n, i) ==
    [effect |-> IF s.effect = "ALLOW" THEN "permit" ELSE "deny",
     operations |-> s.operations,
     actor_pattern |-> IF s.subject = "*" THEN NoWord ELSE s.subject,
     resource_scope |-> IF s.resource_scope = Anything THEN << >> ELSE s.resource_scope,
     priority |-> (n - (i - 1)) * 10]

RuleMatches(rule, e, r, op) ==
    /\ rule.operations # {} => op \in rule.operations
    /\ rule.actor_pattern # NoWord => <<e.name, rule.actor_pattern>> \in Matches
    /\ rule.resource_scope # << >> =>
         scope_contains(rule.resource_scope, IF r.scope # << >> THEN r.scope ELSE <<r.name>>)

LEMMA RuleCompiled ==
    ASSUME NEW stmts
    PROVE  /\ to_policy(stmts).default_effect = "deny"
           /\ to_policy(stmts).rules = [i \in DOMAIN stmts |-> RuleOf(stmts[i], Len(stmts), i)]
           /\ \A rule, e, r, op : _rule_matches(rule, e, r, op) <=> RuleMatches(rule, e, r, op)
<1> DEFINE rules == [i \in DOMAIN stmts |-> RuleOf(stmts[i], Len(stmts), i)]
<1>1. to_policy(stmts) = [rules |-> rules, default_effect |-> "deny"]
  BY Zenon DEF to_policy, RuleOf, NoWord
<1>2. \A rule, e, r, op : _rule_matches(rule, e, r, op) <=> RuleMatches(rule, e, r, op)
  BY Zenon DEF _rule_matches, RuleMatches, NoWord
<1> HIDE DEF rules
<1>3. to_policy(stmts).rules = rules /\ to_policy(stmts).default_effect = "deny"
  BY <1>1
<1> QED BY <1>2, <1>3, Zenon DEF rules

\* A rule matches what its statement speaks of.
LEMMA RuleSays ==
    ASSUME NEW s \in Finished, NEW n, NEW i, NEW e, NEW r, NEW op
    PROVE  RuleMatches(RuleOf(s, n, i), e, r, op) <=> Says(s, e, r, op)
<1>1. s.subject # NoWord
  <2>1. s.subject \in Words
    BY DEF Finished, Statements
  <2> QED BY <2>1, Zenon DEF Words, NoWord
<1>2. s.operations # {} /\ (s.resource_scope # Anything => s.resource_scope # << >>)
  BY DEF Finished, Statements
<1> QED BY <1>1, <1>2 DEF RuleMatches, RuleOf, Says

LEMMA TextsAreRead == ASSUME NEW text \in Seq(Lines) PROVE TextIsRead(text)
<1> DEFINE stmts == parse(text).statements
           n == Len(stmts)
<1>1. stmts \in Seq(Finished) /\ n \in Nat /\ DOMAIN stmts = 1 .. n
      /\ \A i \in 1 .. n : stmts[i] \in Finished /\ stmts[i].effect \in Effects
  <2>1. stmts \in Seq(Finished)
    BY TextParsed DEF Read
  <2> HIDE DEF stmts
  <2>2. n \in Nat /\ DOMAIN stmts = 1 .. n /\ \A i \in 1 .. n : stmts[i] \in Finished
    BY <2>1, ElementOfSeq, LenProperties
  <2> QED BY <2>1, <2>2 DEF Finished, Statements
<1> DEFINE policy == to_policy(stmts)
<1> HIDE DEF stmts
<1>3. /\ policy.default_effect = "deny"
      /\ DOMAIN policy.rules = 1 .. n
      /\ \A i \in 1 .. n : policy.rules[i] = RuleOf(stmts[i], n, i)
      /\ \A rule, e, r, op : _rule_matches(rule, e, r, op) <=> RuleMatches(rule, e, r, op)
  BY <1>1, RuleCompiled
<1>4. \A i \in 1 .. n : /\ policy.rules[i].priority = (n - (i - 1)) * 10
                         /\ policy.rules[i].effect = IF stmts[i].effect = "ALLOW" THEN "permit" ELSE "deny"
  <2>1. \A i : /\ RuleOf(stmts[i], n, i).priority = (n - (i - 1)) * 10
               /\ RuleOf(stmts[i], n, i).effect = IF stmts[i].effect = "ALLOW" THEN "permit" ELSE "deny"
    BY DEF RuleOf
  <2> HIDE DEF n
  <2> QED BY <1>3, <2>1, Zenon
<1>5. \A i, j \in 1 .. n : Before(policy.rules, i, j) <=> i <= j
  BY <1>1, <1>4 DEF Before
<1> HIDE DEF policy
<1>6. ASSUME NEW e \in Entities, NEW r \in Resources, NEW op \in Operations
      PROVE  LET speak == {i \in DOMAIN stmts : Says(stmts[i], e, r, op)}
             IN  evaluate(policy, e, r, op) =
                     IF speak # {} /\ stmts[CHOOSE i \in speak : \A j \in speak : i <= j].effect = "ALLOW"
                     THEN "permit" ELSE "deny"
  <2> DEFINE speak == {i \in DOMAIN stmts : Says(stmts[i], e, r, op)}
             firing == {i \in DOMAIN policy.rules : _rule_matches(policy.rules[i], e, r, op)}
             least == CHOOSE i \in speak : \A j \in speak : i <= j
             first == CHOOSE i \in firing : \A j \in firing : Before(policy.rules, i, j)
  <2>1. firing = speak
    BY <1>1, <1>3, RuleSays
  <2>2. evaluate(policy, e, r, op) = IF firing = {} THEN policy.default_effect ELSE policy.rules[first].effect
    BY DEF evaluate
  <2>3. speak \subseteq 1 .. n
    BY <1>1
  <2> HIDE DEF speak, firing
  <2>4. ASSUME speak # {} PROVE first \in 1 .. n /\ least = first
    <3>1. \E i \in speak : \A j \in speak : i <= j
      <4>1. speak \subseteq Nat
        BY <2>3
      <4> QED BY <2>4, <4>1, LeastNatural
    <3>2. least \in speak /\ \A j \in speak : least <= j
      BY <3>1, Zenon
    <3>3. \E i \in firing : \A j \in firing : Before(policy.rules, i, j)
      BY <1>5, <2>1, <2>3, <3>1
    <3>4. first \in firing /\ \A j \in firing : Before(policy.rules, first, j)
      BY <3>3, Zenon
    <3> HIDE DEF least, first
    <3>5. first \in 1 .. n /\ least \in 1 .. n /\ first <= least /\ least <= first
      BY <1>5, <2>1, <2>3, <3>2, <3>4
    <3> QED BY <3>5
  <2> HIDE DEF least, first
  <2>5. evaluate(policy, e, r, op) = IF speak # {} /\ stmts[least].effect = "ALLOW" THEN "permit" ELSE "deny"
    <3>1. CASE speak = {}
      BY <1>3, <2>1, <2>2, <3>1, Zenon
    <3>2. CASE speak # {}
      <4>1. evaluate(policy, e, r, op) = policy.rules[least].effect
        BY <2>1, <2>2, <2>4, <3>2, Zenon
      <4>2. policy.rules[least].effect = IF stmts[least].effect = "ALLOW" THEN "permit" ELSE "deny"
        BY <1>4, <2>4, <3>2, Zenon
      <4> QED BY <3>2, <4>1, <4>2
    <3> QED BY <3>1, <3>2
  <2> QED BY <2>5 DEF speak, least
<1> QED BY <1>6, Zenon DEF TextIsRead, compile, policy, stmts

-------------------------------------------------------------------------------
(* Consents, arguments, claims and purposes *)

LEMMA ReasonsAgree ==
    ASSUME NEW n \in Annotations, NEW t \in Nat
    PROVE  is_consent_valid(n, t) <=> consent_violation_reason(n, t) = "none"
<1>1. n.expires_at # Never => n.expires_at \in Nat
  BY AnnotationsAssumption
<1>2. n.expires_at # Never => (t < n.expires_at <=> ~(t >= n.expires_at))
  BY <1>1
<1>3. CASE ~n.consent_required
  BY <1>3 DEF is_consent_valid, consent_violation_reason
<1>4. CASE n.consent_required /\ n.given_by = NoOne
  BY <1>4 DEF is_consent_valid, consent_violation_reason
<1>5. CASE n.consent_required /\ n.given_by # NoOne /\ n.given_by.kind # "HUMAN"
  BY <1>5 DEF is_consent_valid, consent_violation_reason
<1>6. CASE n.consent_required /\ n.given_by # NoOne /\ n.given_by.kind = "HUMAN"
  <2>1. consent_violation_reason(n, t) =
          IF n.expires_at # Never /\ t >= n.expires_at THEN "expired"
          ELSE IF n.scope # << >> /\ ~scope_contains(n.scope, n.claim.resource.scope) THEN "scope" ELSE "none"
    BY <1>6 DEF consent_violation_reason
  <2> QED BY <1>2, <1>6, <2>1 DEF is_consent_valid
<1> QED BY <1>3, <1>4, <1>5, <1>6

LEMMA ConsentsAlwaysAgree == ASSUME NEW g, now \in Nat PROVE ConsentsAgree(g)
<1>1. ASSUME NEW n \in Annotations, NEW t \in 0 .. MaxTime
      PROVE  is_consent_valid(n, t) <=> consent_violation_reason(n, t) = "none"
  BY ReasonsAgree, BoundsAssumption
<1>2. ASSUME NEW a \in Actions
      PROVE  consent_check(Annotations, a, now) = {} <=>
               \A n \in Annotations : n.claim.holder = a.actor /\ (\E u \in Uses(a) : u[2] = n.claim.resource)
                                      => is_consent_valid(n, now)
  <2>1. \A n \in Annotations : ~is_consent_valid(n, now) =>
          n.consent_required /\ consent_violation_reason(n, now) # "none"
    BY ReasonsAgree DEF is_consent_valid
  <2>2. \A n \in Annotations : consent_violation_reason(n, now) # "none" => ~is_consent_valid(n, now)
    BY ReasonsAgree
  <2>3. ASSUME consent_check(Annotations, a, now) = {}, NEW n \in Annotations, n.claim.holder = a.actor,
               NEW u \in Uses(a), u[2] = n.claim.resource
        PROVE  is_consent_valid(n, now)
    <3> SUFFICES ASSUME ~is_consent_valid(n, now) PROVE <<u[2], n>> \in consent_check(Annotations, a, now)
      BY <2>3
    <3> QED BY <2>1, <2>3 DEF consent_check
  <2>4. ASSUME NEW p \in consent_check(Annotations, a, now)
        PROVE  /\ p[2] \in Annotations /\ p[2].claim.holder = a.actor
               /\ \E u \in Uses(a) : u[2] = p[2].claim.resource
               /\ ~is_consent_valid(p[2], now)
    BY <2>2 DEF consent_check
  <2> QED BY <2>3, <2>4, Zenon
<1> QED BY <1>1, <1>2 DEF ConsentsAgree

\* The heaviest of a set of signals weighs no less than any other of them, and
\* nothing weighs more than 100.
LEMMA HeaviestIs ==
    ASSUME NEW w, NEW K, NEW S \in SUBSET K, w \in [K -> 0 .. 100]
    PROVE  /\ Heaviest(w, S) \in 0 .. 100
           /\ \A s \in S : w[s] <= Heaviest(w, S)
           /\ S # {} => \E s \in S : Heaviest(w, S) = w[s]
<1>1. CASE S = {}
  BY <1>1 DEF Heaviest
<1>2. CASE S # {}
  <2> DEFINE W == {w[s] : s \in S}
             Most(h) == \A s \in S : w[s] <= h
  <2>1. \E h \in W : Most(h)
    <3> DEFINE T == {100 - w[s] : s \in S}
    <3>1. T \subseteq Nat /\ T # {}
      BY <1>2
    <3>2. PICK m \in T : \A j \in T : m <= j
      BY <3>1, LeastNatural
    <3>3. PICK s \in S : m = 100 - w[s]
      BY <3>2
    <3>4. ASSUME NEW r \in S PROVE w[r] <= w[s]
      <4>1. 100 - w[s] <= 100 - w[r]
        BY <3>2, <3>3
      <4>2. w[r] \in 0 .. 100 /\ w[s] \in 0 .. 100
        OBVIOUS
      <4> QED BY <4>1, <4>2
    <3> QED BY <3>4
  <2>2. Heaviest(w, S) = CHOOSE h \in W : Most(h)
    BY <1>2 DEF Heaviest
  <2> HIDE DEF W
  <2>3. Heaviest(w, S) \in W /\ Most(Heaviest(w, S))
    <3> HIDE DEF Most
    <3> QED BY <2>1, <2>2, Zenon
  <2> QED BY <2>3 DEF W
<1> QED BY <1>1, <1>2

LEMMA Layers ==
    ASSUME NEW a \in 0 .. 100, NEW b \in 0 .. 100, NEW c \in 0 .. 100, NEW s \in Nat, NEW t \in Nat,
           a <= b, s <= t
    PROVE  /\ (IF c > a THEN c ELSE a) + s \in Nat /\ (IF c > b THEN c ELSE b) + t \in Nat
           /\ (IF c > a THEN c ELSE a) + s <= (IF c > b THEN c ELSE b) + t
OBVIOUS

LEMMA LayerGrows ==
    ASSUME NEW x \in [blank : BOOLEAN, keywords : SUBSET DOMAIN KEYWORD_SIGNALS,
                      patterns : SUBSET DOMAIN STRUCTURAL_PATTERNS],
           NEW k \in DOMAIN KEYWORD_SIGNALS, NEW y, y = [x EXCEPT !.keywords = @ \cup {k}]
    PROVE  LayerScore(x) \in Nat /\ LayerScore(y) \in Nat /\ LayerScore(x) <= LayerScore(y)
<1> DEFINE K == DOMAIN KEYWORD_SIGNALS
           P == DOMAIN STRUCTURAL_PATTERNS
<1>1. /\ x.keywords \in SUBSET K /\ y.keywords \in SUBSET K /\ y.keywords = x.keywords \cup {k}
      /\ y.patterns = x.patterns /\ x.patterns \in SUBSET P
  OBVIOUS
<1>2. /\ IsFiniteSet(K) /\ IsFiniteSet(P)
      /\ KEYWORD_SIGNALS \in [K -> 0 .. 100] /\ STRUCTURAL_PATTERNS \in [P -> 0 .. 100]
  BY WeightsAssumption
<1>3. IsFiniteSet(x.keywords) /\ IsFiniteSet(y.keywords) /\ IsFiniteSet(x.patterns)
  BY <1>1, <1>2, FS_Subset
<1>4. /\ Cardinality(x.keywords) \in Nat /\ Cardinality(y.keywords) \in Nat /\ Cardinality(x.patterns) \in Nat
      /\ Cardinality(x.keywords) <= Cardinality(y.keywords)
  BY <1>1, <1>3, FS_Subset, FS_CardinalityType
<1>5. Signals(x) \in Nat /\ Signals(y) \in Nat /\ Signals(x) <= Signals(y)
  BY <1>1, <1>4 DEF Signals
<1> DEFINE l3 == Heaviest(KEYWORD_SIGNALS, x.keywords)
           m3 == Heaviest(KEYWORD_SIGNALS, y.keywords)
           l2 == Heaviest(STRUCTURAL_PATTERNS, x.patterns)
<1>6. l3 \in 0 .. 100 /\ m3 \in 0 .. 100 /\ l2 \in 0 .. 100
  BY <1>1, <1>2, HeaviestIs
<1>7. l3 <= m3
  <2>1. CASE x.keywords = {}
    <3>1. l3 = 0
      BY <2>1 DEF Heaviest
    <3> QED BY <1>6, <3>1
  <2>2. CASE x.keywords # {}
    <3>1. PICK s \in x.keywords : l3 = KEYWORD_SIGNALS[s]
      BY <1>1, <1>2, <2>2, HeaviestIs
    <3>2. KEYWORD_SIGNALS[s] <= m3
      BY <1>1, <1>2, HeaviestIs
    <3> QED BY <3>1, <3>2
  <2> QED BY <2>1, <2>2
<1> HIDE DEF l3, m3, l2, K, P
<1>8. /\ LayerScore(x) = (IF l2 > l3 THEN l2 ELSE l3) + AtMost(15, 5 * Signals(x))
      /\ LayerScore(y) = (IF l2 > m3 THEN l2 ELSE m3) + AtMost(15, 5 * Signals(y))
  BY <1>1 DEF LayerScore, l3, m3, l2
<1>9. /\ AtMost(15, 5 * Signals(x)) \in Nat /\ AtMost(15, 5 * Signals(y)) \in Nat
      /\ AtMost(15, 5 * Signals(x)) <= AtMost(15, 5 * Signals(y))
  BY <1>5 DEF AtMost
<1> DEFINE s == AtMost(15, 5 * Signals(x))
           t == AtMost(15, 5 * Signals(y))
<1>10. LayerScore(x) = (IF l2 > l3 THEN l2 ELSE l3) + s /\ LayerScore(y) = (IF l2 > m3 THEN l2 ELSE m3) + t
  BY <1>8
<1>11. s \in Nat /\ t \in Nat /\ s <= t
  BY <1>9
<1> HIDE DEF s, t
<1>12. /\ (IF l2 > l3 THEN l2 ELSE l3) + s \in Nat /\ (IF l2 > m3 THEN l2 ELSE m3) + t \in Nat
       /\ (IF l2 > l3 THEN l2 ELSE l3) + s <= (IF l2 > m3 THEN l2 ELSE m3) + t
  BY ONLY <1>6, <1>7, <1>11, Layers, Zenon
<1> QED BY <1>10, <1>12, Zenon

LEMMA ScoreOf ==
    ASSUME NEW x, NEW threshold, NEW tester
    PROVE  detect(x, threshold, tester).score =
             IF x.blank THEN 0 ELSE IF tester = "yes" THEN 100 ELSE AtMost(100, LayerScore(x))
BY DEF detect

LEMMA DetectionAlwaysGrows ==
    ASSUME NEW x \in [blank : BOOLEAN, keywords : SUBSET DOMAIN KEYWORD_SIGNALS,
                      patterns : SUBSET DOMAIN STRUCTURAL_PATTERNS]
    PROVE  DetectionGrows(x)
<1> SUFFICES ASSUME NEW threshold \in {50, 80}, NEW tester \in {"none", "yes", "no", "raises"}
             PROVE  Grows(x, threshold, tester)
  BY Zenon DEF DetectionGrows
<1> DEFINE found == detect(x, threshold, tester)
           points == IF x.blank THEN 0 ELSE IF tester = "yes" THEN 100 ELSE AtMost(100, LayerScore(x))
<1>1. LayerScore(x) \in Nat
  <2> DEFINE l3 == Heaviest(KEYWORD_SIGNALS, x.keywords)
             l2 == Heaviest(STRUCTURAL_PATTERNS, x.patterns)
  <2>1. l3 \in 0 .. 100 /\ l2 \in 0 .. 100
    BY WeightsAssumption, HeaviestIs
  <2>2. IsFiniteSet(x.keywords) /\ IsFiniteSet(x.patterns)
    BY WeightsAssumption, FS_Subset
  <2>3. Signals(x) \in Nat
    BY <2>2, FS_CardinalityType DEF Signals
  <2> HIDE DEF l3, l2
  <2>4. AtMost(15, 5 * Signals(x)) \in Nat
    BY <2>3 DEF AtMost
  <2>5. LayerScore(x) = (IF l2 > l3 THEN l2 ELSE l3) + AtMost(15, 5 * Signals(x))
    BY DEF LayerScore, l3, l2
  <2> QED BY <2>1, <2>4, <2>5
<1>2. points \in 0 .. 100
  BY <1>1 DEF AtMost
<1>3. found.score = points
  BY ScoreOf
<1>4. found.suspicious <=> ~x.blank /\ points >= threshold
  <2> HIDE DEF points
  <2>1. found.suspicious = (~x.blank /\ points >= threshold)
    BY DEF detect, points
  <2> QED BY <2>1
<1>5. found.recommendation # "clean" <=> ~(x.blank \/ points < threshold)
  <2>1. found.recommendation = IF x.blank \/ points < threshold THEN "clean"
                               ELSE IF points >= 90 \/ tester = "yes" THEN "high"
                               ELSE IF points >= 70 THEN "moderate" ELSE "low"
    BY DEF detect
  <2> HIDE DEF points
  <2> QED BY <2>1
<1>6. tester \in {"raises", "no"} => found = detect(x, threshold, "none")
  BY DEF detect
<1>7. ASSUME ~x.blank, NEW k \in DOMAIN KEYWORD_SIGNALS, NEW y, y = [x EXCEPT !.keywords = @ \cup {k}]
      PROVE  detect(y, threshold, tester).score >= found.score
  <2>1. LayerScore(x) \in Nat /\ LayerScore(y) \in Nat /\ LayerScore(x) <= LayerScore(y)
    BY <1>7, LayerGrows
  <2>2. ~y.blank
    BY <1>7
  <2>3. /\ found.score = IF tester = "yes" THEN 100 ELSE AtMost(100, LayerScore(x))
        /\ detect(y, threshold, tester).score = IF tester = "yes" THEN 100 ELSE AtMost(100, LayerScore(y))
    BY <1>7, <2>2, ScoreOf
  <2> HIDE DEF found
  <2> QED BY <2>1, <2>3 DEF AtMost
<1>8. found.suspicious <=> found.recommendation # "clean"
  <2> HIDE DEF points, found
  <2> QED BY <1>2, <1>4, <1>5
<1> HIDE DEF points
<1>9. found.score <= 100
  BY <1>2, <1>3
<1> QED BY <1>6, <1>7, <1>8, <1>9, Zenon DEF Grows

LEMMA FormalAlwaysAgrees == ASSUME NEW c PROVE FormalAgrees(c)
<1>1. Axioms(c) => check_meta(c)
  BY Zenon DEF Axioms, check_meta, check_a2_maad, check_a3_nubuwwat
<1>2. compose(c) => is_allow(decide_freedom_formal(c))
  BY DEF compose, is_allow, decide_freedom_formal
<1> QED BY <1>1, <1>2 DEF FormalAgrees

LEMMA PurposesAreJudged == ASSUME NEW disclosed, NEW actual PROVE PurposeIsJudged(disclosed, actual)
<1>1. /\ match_judge(disclosed, actual) = "informed_voluntary_competent" => disclosed = actual /\ disclosed # ""
      /\ match_judge(disclosed, actual) = "uncertain" => disclosed = "" \/ actual = ""
  <2>1. CASE disclosed = "" \/ actual = ""
    <3>1. match_judge(disclosed, actual) = "uncertain" /\ "uncertain" # "informed_voluntary_competent"
      BY <2>1, Zenon DEF match_judge
    <3> QED BY <2>1, <3>1, Zenon
  <2>2. CASE ~(disclosed = "" \/ actual = "") /\ disclosed # actual
    <3>1. match_judge(disclosed, actual) = "deceptive_or_coercive"
      BY <2>2, Zenon DEF match_judge
    <3>2. "deceptive_or_coercive" # "informed_voluntary_competent" /\ "deceptive_or_coercive" # "uncertain"
      BY Zenon
    <3> QED BY <3>1, <3>2, Zenon
  <2>3. CASE ~(disclosed = "" \/ actual = "") /\ disclosed = actual
    <3>1. match_judge(disclosed, actual) = "informed_voluntary_competent"
      BY <2>3, Zenon DEF match_judge
    <3>2. "informed_voluntary_competent" # "uncertain"
      BY Zenon
    <3> QED BY <2>3, <3>1, <3>2, Zenon
  <2> QED BY <2>1, <2>2, <2>3, Zenon
<1>2. ASSUME NEW answer, NEW presented, NEW on_uncertain, semantic_consent_veto(presented, answer, on_uncertain)
      PROVE  answer = "informed_voluntary_competent" \/ (answer = "uncertain" /\ on_uncertain = "abstain")
  BY <1>2, Zenon DEF semantic_consent_veto, _parse, JUDGMENTS
<1>3. ~("raises" = "informed_voluntary_competent") /\ ~("raises" = "uncertain")
  OBVIOUS
<1> QED BY <1>1, <1>2, <1>3, Zenon DEF PurposeIsJudged

\* The readers agree with what they read: a text is decided by the first
\* statement that speaks of a use, a consent is valid unless a reason is found,
\* signals never lower a score, the axioms imply the meta axioms and a judge lets
\* pass what was disclosed.
THEOREM ReadingsAlwaysAgree == HostSpec => []ReadingsAgree
<1>1. HostInv => ReadingsAgree
  <2> SUFFICES ASSUME HostInv PROVE ReadingsAgree
    OBVIOUS
  <2>1. job \in Jobs /\ now \in Nat
    BY DEF HostInv, Agreement, TypeOK
  <2>2. /\ job.kind = "text" => job.text \in Seq(Lines)
        /\ job.kind = "argument" =>
              job.argument \in [blank : BOOLEAN, keywords : SUBSET DOMAIN KEYWORD_SIGNALS,
                               patterns : SUBSET DOMAIN STRUCTURAL_PATTERNS]
    BY <2>1, JobsAssumption, Zenon DEF Argument
  <2> QED BY <2>1, <2>2, TextsAreRead, DetectionAlwaysGrows, FormalAlwaysAgrees, PurposesAreJudged,
             ConsentsAlwaysAgree, Zenon DEF ReadingsAgree
<1> QED BY <1>1, HostInvariant, PTL

-------------------------------------------------------------------------------
(* What several agents decide together *)

\* Enough of the votes of these kernels that count are permits, and none a veto.
Enough(votes, P, D) ==
    /\ \A i \in D : votes[i].trust_level < VETO_TRUST_LEVEL
    /\ Cardinality(P) > 0
    /\ 100 * Cardinality(P) >= Threshold * (Cardinality(P) + Cardinality(D))

Valid(votes, decision) == {i \in Cast(votes, decision) : validate_decision(Kernels, votes[i])}

\* A sequence of votes.
Votes(votes) ==
    /\ Len(votes) \in Nat /\ DOMAIN votes = 1 .. Len(votes)
    /\ \A i \in DOMAIN votes : /\ votes[i].decision \in {PERMIT, DENY, ABSTAIN} /\ votes[i].trust_level \in Nat
                              /\ votes[i] = [kernel_id |-> votes[i].kernel_id, trust_level |-> votes[i].trust_level,
                                            decision |-> votes[i].decision, commitment_ok |-> votes[i].commitment_ok,
                                            age |-> votes[i].age]

\* The three groups of the votes, with those that do not count among the
\* abstentions, are the votes.
LEMMA Groups ==
    ASSUME NEW n \in Nat, NEW P, NEW D, NEW A, P \cup D \cup A = 1 .. n,
           P \cap D = {}, P \cap A = {}, D \cap A = {}
    PROVE  /\ Cardinality(P) \in Nat /\ Cardinality(D) \in Nat /\ Cardinality(A) \in Nat
           /\ n - Cardinality(A) = Cardinality(P) + Cardinality(D)
<1>1. IsFiniteSet(1 .. n) /\ Cardinality(1 .. n) = n
  BY FS_Interval
<1>2. IsFiniteSet(P) /\ IsFiniteSet(D) /\ IsFiniteSet(A) /\ IsFiniteSet(P \cup D)
  BY <1>1, FS_Subset
<1>3. Cardinality(P \cap D) = 0 /\ Cardinality((P \cup D) \cap A) = 0
  <2>1. P \cap D = {} /\ (P \cup D) \cap A = {}
    OBVIOUS
  <2> QED BY <2>1, FS_EmptySet, Zenon
<1>4. /\ Cardinality(P \cup D) = Cardinality(P) + Cardinality(D) - Cardinality(P \cap D)
      /\ Cardinality((P \cup D) \cup A) = Cardinality(P \cup D) + Cardinality(A) - Cardinality((P \cup D) \cap A)
  BY <1>2, FS_Union, Zenon
<1>5. Cardinality(P) \in Nat /\ Cardinality(D) \in Nat /\ Cardinality(A) \in Nat
  BY <1>2, FS_CardinalityType, Zenon
<1>6. Cardinality((P \cup D) \cup A) = n
  BY <1>1, Zenon
<1> QED BY <1>3, <1>4, <1>5, <1>6

\* A share of the votes that is reached is not reached by no vote at all.
LEMMA Shares ==
    ASSUME NEW p \in Nat, NEW d \in Nat, NEW s \in Nat, s >= 51, 100 * p >= s * (p + d)
    PROVE  /\ p + d > 0 => p > 0 /\ p > d
           /\ \A e \in Nat : e <= d => 100 * p >= s * (p + e)
<1>1. s * (p + d) >= 51 * (p + d)
  <2>1. PICK k \in Nat : s = 51 + k
    <3>1. s - 51 \in Nat /\ s = 51 + (s - 51)
      OBVIOUS
    <3> QED BY <3>1
  <2>2. p + d \in Nat /\ k * (p + d) \in Nat
    OBVIOUS
  <2>3. (51 + k) * (p + d) = 51 * (p + d) + k * (p + d)
    BY <2>2
  <2> QED BY <2>1, <2>2, <2>3
<1>2. ASSUME NEW e \in Nat, e <= d PROVE 100 * p >= s * (p + e)
  <2>1. d - e \in Nat /\ d = e + (d - e)
    BY <1>2
  <2>2. s * (p + d) = s * (p + e) + s * (d - e)
    BY <1>2
  <2>3. s * (d - e) \in Nat /\ s * (p + e) \in Nat /\ s * (p + d) \in Nat
    BY <2>1
  <2> QED BY <2>2, <2>3
<1>3. s * (p + d) \in Nat
  OBVIOUS
<1>4. p + d > 0 => p > 0 /\ p > d
  BY <1>1, <1>3
<1> QED BY <1>2, <1>4

LEMMA Tallied ==
    ASSUME NEW votes, Votes(votes)
    PROVE  /\ gateway_evaluate(Kernels, votes, Threshold) <=> Enough(votes, Valid(votes, PERMIT), Valid(votes, DENY))
           /\ Cardinality(Valid(votes, PERMIT)) \in Nat /\ Cardinality(Valid(votes, DENY)) \in Nat
           /\ IsFiniteSet(Valid(votes, DENY))
<1> DEFINE W == [i \in DOMAIN votes |-> IF validate_decision(Kernels, votes[i]) THEN votes[i]
                                       ELSE [votes[i] EXCEPT !.decision = ABSTAIN]]
           n == Len(votes)
           P == Valid(votes, PERMIT)
           D == Valid(votes, DENY)
           A == Cast(W, ABSTAIN)
<1>1. n \in Nat /\ DOMAIN votes = 1 .. n /\ DOMAIN W = 1 .. n
  BY DEF Votes
<1>2. ASSUME NEW i \in 1 .. n
      PROVE  /\ W[i].decision = IF validate_decision(Kernels, votes[i]) THEN votes[i].decision ELSE ABSTAIN
             /\ W[i].decision # ABSTAIN => W[i] = votes[i]
             /\ W[i].decision \in {PERMIT, DENY, ABSTAIN}
  <2>1. [votes[i] EXCEPT !.decision = ABSTAIN].decision = ABSTAIN
    <3>1. "decision" \in DOMAIN votes[i]
      BY <1>1 DEF Votes
    <3> QED BY <3>1
  <2> QED BY <1>1, <2>1 DEF Votes
<1>3. PERMIT # DENY /\ PERMIT # ABSTAIN /\ DENY # ABSTAIN
  BY DEF PERMIT, DENY, ABSTAIN
<1> HIDE DEF W, n
<1>4. Cast(W, PERMIT) = P /\ Cast(W, DENY) = D
  BY <1>1, <1>2, <1>3 DEF Cast, Valid
<1>5. /\ P \cup D \cup A = 1 .. n /\ P \cap D = {} /\ P \cap A = {} /\ D \cap A = {}
  BY <1>1, <1>2, <1>3, <1>4 DEF Cast
<1>6. /\ Cardinality(P) \in Nat /\ Cardinality(D) \in Nat /\ Cardinality(A) \in Nat
      /\ n - Cardinality(A) = Cardinality(P) + Cardinality(D)
  <2> HIDE DEF P, D, A
  <2> QED BY <1>1, <1>5, Groups
<1>7. Len(W) = n
  <2> DEFINE V == {W[i] : i \in 1 .. n}
  <2>1. W \in [1 .. n -> V]
    BY <1>1 DEF W
  <2> QED BY <1>1, <2>1
<1>8. Vetoes(W) = {} <=> \A i \in D : votes[i].trust_level < VETO_TRUST_LEVEL
  <2>1. ASSUME NEW i \in D PROVE W[i] = votes[i]
    BY <1>1, <1>2, <1>3, <1>4 DEF Cast
  <2>2. Vetoes(W) = {i \in D : votes[i].trust_level >= VETO_TRUST_LEVEL}
    BY <1>4, <2>1 DEF Vetoes
  <2>3. \A i \in D : votes[i].trust_level \in Nat
    BY <1>1 DEF Valid, Cast, Votes
  <2> QED BY <2>2, <2>3 DEF VETO_TRUST_LEVEL
<1>9. IsFiniteSet(D)
  <2>1. D \subseteq 1 .. n
    BY <1>5
  <2> QED BY <1>1, <2>1, FS_Interval, FS_Subset
<1> DEFINE p == Cardinality(P)
           d == Cardinality(D)
<1>10. gateway_evaluate(Kernels, votes, Threshold) <=>
         /\ \A i \in D : votes[i].trust_level < VETO_TRUST_LEVEL
         /\ p + d > 0 /\ 100 * p >= Threshold * (p + d)
  <2>1. gateway_evaluate(Kernels, votes, Threshold) = consensus(W, Threshold)
    BY DEF gateway_evaluate, W
  <2>2. consensus(W, Threshold) <=>
          Vetoes(W) = {} /\ Len(W) - Cardinality(A) > 0
          /\ 100 * Cardinality(Cast(W, PERMIT)) >= Threshold * (Len(W) - Cardinality(A))
    BY Zenon DEF consensus
  <2> HIDE DEF P, D, A
  <2> QED BY <1>4, <1>6, <1>7, <1>8, <2>1, <2>2
<1>11. p \in Nat /\ d \in Nat /\ Threshold \in Nat /\ Threshold >= 51
  BY <1>6, ThresholdAssumption
<1> HIDE DEF P, D, p, d
<1>12. 100 * p >= Threshold * (p + d) => (p + d > 0 <=> p > 0)
  BY <1>11, Shares
<1> QED BY <1>6, <1>9, <1>10, <1>12, Zenon DEF Enough, p, d, P, D

LEMMA VotesAlwaysCounted ==
    ASSUME NEW votes, votes \in Seq([kernel_id : STRING, trust_level : 1 .. 5, decision : {PERMIT, DENY, ABSTAIN},
                                     commitment_ok : BOOLEAN, age : Nat])
    PROVE  VotesAreCounted(votes)
<1> DEFINE V == [kernel_id : STRING, trust_level : 1 .. 5, decision : {PERMIT, DENY, ABSTAIN},
                 commitment_ok : BOOLEAN, age : Nat]
           n == Len(votes)
           P == Valid(votes, PERMIT)
           D == Valid(votes, DENY)
<1>1. n \in Nat /\ DOMAIN votes = 1 .. n /\ \A i \in 1 .. n : votes[i] \in V
  <2> HIDE DEF V
  <2> QED BY LenProperties, ElementOfSeq DEF V
<1>2. \A v \in V : /\ v.decision \in {PERMIT, DENY, ABSTAIN} /\ v.trust_level \in Nat
                    /\ v = [kernel_id |-> v.kernel_id, trust_level |-> v.trust_level, decision |-> v.decision,
                            commitment_ok |-> v.commitment_ok, age |-> v.age]
  OBVIOUS
<1> HIDE DEF V
<1>3. Votes(votes)
  BY <1>1, <1>2 DEF Votes
<1>4. /\ gateway_evaluate(Kernels, votes, Threshold) <=> Enough(votes, P, D)
      /\ Cardinality(P) \in Nat /\ Cardinality(D) \in Nat /\ IsFiniteSet(D)
  BY <1>3, Tallied
<1>5. Enough(votes, P, D) => Cardinality(P) > Cardinality(D)
  <2> HIDE DEF P, D
  <2>1. ASSUME 100 * Cardinality(P) >= Threshold * (Cardinality(P) + Cardinality(D)), Cardinality(P) > 0
        PROVE  Cardinality(P) > Cardinality(D)
    BY <1>4, <2>1, ThresholdAssumption, Shares
  <2> QED BY <2>1 DEF Enough
<1>6. ASSUME votes # << >>, votes[n].decision # PERMIT, Enough(votes, P, D)
      PROVE  gateway_evaluate(Kernels, SubSeq(votes, 1, n - 1), Threshold)
  <2> DEFINE s == SubSeq(votes, 1, n - 1)
             E == Valid(s, DENY)
  <2>1. n # 0
    BY <1>1, <1>6
  <2>2. s \in Seq(V) /\ Len(s) = n - 1 /\ \A i \in 1 .. n - 1 : s[i] = votes[i]
    <3>1. \A i \in 1 .. n - 1 : votes[i] \in V
      BY <1>1
    <3>2. n - 1 \in Int /\ 1 \in Int
      BY <1>1
    <3>3. /\ s \in Seq(V) /\ Len(s) = (IF 1 <= n - 1 THEN (n - 1) - 1 + 1 ELSE 0)
          /\ \A i \in 1 .. (n - 1) - 1 + 1 : s[i] = votes[1 + i - 1]
      <4> HIDE DEF n
      <4> QED BY <3>1, <3>2, SubSeqProperties
    <3> HIDE DEF s, n
    <3>4. (n - 1) - 1 + 1 = n - 1 /\ (IF 1 <= n - 1 THEN (n - 1) - 1 + 1 ELSE 0) = n - 1
      BY <1>1, <2>1
    <3>5. \A i \in 1 .. n - 1 : 1 + i - 1 = i
      BY <1>1
    <3> QED BY <3>3, <3>4, <3>5
  <2> HIDE DEF s
  <2>3. DOMAIN s = 1 .. n - 1
    BY <2>2, LenProperties
  <2>4. Votes(s)
    BY <1>1, <1>2, <2>1, <2>2, <2>3 DEF Votes
  <2>5. Valid(s, PERMIT) = P
    BY <1>1, <1>6, <2>2, <2>3 DEF Valid, Cast
  <2>6. E \subseteq D /\ \A i \in E : s[i] = votes[i]
    BY <1>1, <2>2, <2>3 DEF Valid, Cast
  <2>7. Cardinality(E) \in Nat /\ Cardinality(E) <= Cardinality(D)
    <3> HIDE DEF E, D
    <3> QED BY <1>4, <2>6, FS_Subset, FS_CardinalityType
  <2>8. gateway_evaluate(Kernels, s, Threshold) <=> Enough(s, P, E)
    BY <2>4, <2>5, Tallied
  <2>9. 100 * Cardinality(P) >= Threshold * (Cardinality(P) + Cardinality(E))
    <3> HIDE DEF P, D, E
    <3>1. 100 * Cardinality(P) >= Threshold * (Cardinality(P) + Cardinality(D))
      BY <1>6 DEF Enough
    <3> DEFINE p == Cardinality(P)
               d == Cardinality(D)
               e == Cardinality(E)
    <3>2. p \in Nat /\ d \in Nat /\ e \in Nat /\ e <= d /\ Threshold \in Nat /\ Threshold >= 51
      BY <1>4, <2>7, ThresholdAssumption
    <3> HIDE DEF p, d, e
    <3>3. 100 * p >= Threshold * (p + d)
      BY <3>1 DEF p, d
    <3>4. 100 * p >= Threshold * (p + e)
      BY <3>2, <3>3, Shares
    <3> QED BY <3>4 DEF p, e
  <2>10. Enough(s, P, E)
    <3> HIDE DEF P, D, E
    <3> QED BY <1>6, <2>6, <2>9 DEF Enough
  <2> QED BY <2>8, <2>10 DEF s
<1> QED BY <1>4, <1>5, <1>6, Zenon DEF VotesAreCounted, Enough, Valid

LEMMA ConflictsSettled ==
    ASSUME NEW a, NEW b, a.resource \in Resources, b.resource \in Resources,
           a.confidence \in 0 .. FullConfidence, b.confidence \in 0 .. FullConfidence
    PROVE  ConflictIsSettled(a, b)
<1> DEFINE ca == Characters[a.resource.scope]
           cb == Characters[b.resource.scope]
<1>1. ca \in Nat /\ cb \in Nat
  BY CharactersAssumption
<1>2. /\ a.confidence \in Int /\ b.confidence \in Int /\ FullConfidence \in Nat
  BY BoundsAssumption
<1>3. CASE ca # cb
  <2>1. /\ resolve(a, b) = IF ca > cb THEN "A" ELSE "B"
        /\ resolve(b, a) = IF cb > ca THEN "A" ELSE "B"
    BY <1>3 DEF resolve
  <2> HIDE DEF ca, cb
  <2>2. resolve(a, b) = "A" <=> resolve(b, a) = "B"
    BY <1>1, <1>3, <2>1
  <2>3. ca < cb => resolve(a, b) = "B"
    BY <1>1, <2>1
  <2>4. a.resource.scope # b.resource.scope /\ scope_contains(a.resource.scope, b.resource.scope) => ca < cb
    BY CharactersAssumption DEF ca, cb
  <2> QED BY <2>2, <2>3, <2>4 DEF ConflictIsSettled
<1>4. CASE ca = cb
  <2> DEFINE over == 10 * (a.confidence - b.confidence) > FullConfidence
             under == 10 * (b.confidence - a.confidence) > FullConfidence
             wa == "write" \in a.rights
             wb == "write" \in b.rights
  <2>1. ~(over /\ under)
    BY <1>2
  <2>2. /\ resolve(a, b) = IF over \/ under THEN (IF over THEN "A" ELSE "B")
                           ELSE IF wa # wb THEN (IF wb THEN "A" ELSE "B") ELSE "DEADLOCK"
        /\ resolve(b, a) = IF over \/ under THEN (IF under THEN "A" ELSE "B")
                           ELSE IF wb # wa THEN (IF wa THEN "A" ELSE "B") ELSE "DEADLOCK"
    <3> HIDE DEF over, under
    <3> QED BY <1>4 DEF resolve, over, under
  <2>3. ~(a.resource.scope # b.resource.scope /\ scope_contains(a.resource.scope, b.resource.scope))
    BY <1>1, <1>4, CharactersAssumption
  <2> HIDE DEF over, under
  <2>4. resolve(a, b) = "A" <=> resolve(b, a) = "B"
    <3>1. CASE over \/ under
      BY <2>1, <2>2, <3>1
    <3>2. CASE ~(over \/ under)
      BY <2>2, <3>2
    <3> QED BY <3>1, <3>2
  <2> QED BY <2>3, <2>4 DEF ConflictIsSettled
<1> QED BY <1>3, <1>4

LEMMA CompassesAddUp ==
    ASSUME NEW w, \A i \in {1, 2, 3} :
              w[i] \in [rights_violations : Int, voluntary_agreements : Int, coercive_acts : Int,
                        ownership_ambiguities : Int, machine_sovereignty_incidents : Int]
    PROVE  CompassAddsUp(w)
<1>1. \A i \in {1, 2, 3} :
         /\ w[i].rights_violations \in Int /\ w[i].voluntary_agreements \in Int /\ w[i].coercive_acts \in Int
         /\ w[i].ownership_ambiguities \in Int /\ w[i].machine_sovereignty_incidents \in Int
  OBVIOUS
<1> QED BY <1>1 DEF CompassAddsUp, Vetoed, score

\* What a recursion over places carries, from one place to the next.
LEMMA Carried ==
    ASSUME NEW n \in Nat, NEW S, NEW f, f[0] \in S,
           \A i \in 1 .. n : f[i - 1] \in S => f[i] \in S
    PROVE  \A i \in 0 .. n : f[i] \in S
<1> DEFINE T == {i \in 0 .. n : f[i] \in S}
<1>1. ASSUME NEW i \in 0 .. n, \A j \in 0 .. n : j < i => j \in T PROVE i \in T
  <2>1. CASE i = 0
    BY <2>1
  <2>2. CASE i # 0
    <3>1. i - 1 \in 0 .. n /\ i - 1 < i /\ i \in 1 .. n
      BY <2>2
    <3> QED BY <1>1, <3>1
  <2> QED BY <2>1, <2>2
<1> HIDE DEF T
<1>2. 0 .. n \subseteq T
  BY <1>1, PlaceByPlace
<1> QED BY <1>2 DEF T

Admissible(U) == {r \in U : is_admissible(r)}

LEMMA SynthesisFits ==
    ASSUME NEW U, NEW candidates \in Seq(U)
    PROVE  synthesize(candidates) \in Seq(Admissible(U))
<1> DEFINE n == Len(candidates)
           S == Seq(Admissible(U))
           step == [p \in (1 .. n) \X S |-> Fitting(p[2], candidates[p[1]])]
           Fits(f) == f = [i \in 0 .. n |-> IF i = 0 THEN << >> ELSE Fitting(f[i - 1], candidates[i])]
           fit == CHOOSE f : Fits(f)
<1>1. n \in Nat /\ \A i \in 1 .. n : candidates[i] \in U
  BY ElementOfSeq, LenProperties
<1>2. << >> \in S
  OBVIOUS
<1>3. ASSUME NEW i \in 1 .. n, NEW s \in S PROVE Fitting(s, candidates[i]) \in S
  <2>1. CASE is_admissible(candidates[i])
    <3>1. candidates[i] \in Admissible(U)
      BY <1>1, <2>1 DEF Admissible
    <3> QED BY <2>1, <3>1, AppendProperties DEF Fitting
  <2> QED BY <2>1 DEF Fitting
<1>4. step \in [(1 .. n) \X S -> S] /\ \A i \in 1 .. n, s \in S : step[<<i, s>>] = Fitting(s, candidates[i])
  <2> HIDE DEF S, n
  <2> QED BY <1>3
<1> HIDE DEF step, n, S
<1>5. PICK f \in [0 .. n -> S] : f[0] = << >> /\ \A i \in 1 .. n : f[i] = step[<<i, f[i - 1]>>]
  <2>1. Steps(n, S, << >>, OneByOne(n), step)
    BY <1>1, <1>2, <1>4 DEF Steps, OneByOne
  <2> QED BY <2>1, Iteration
<1>6. Fits(f)
  <2>1. ASSUME NEW i \in 1 .. n PROVE f[i] = Fitting(f[i - 1], candidates[i])
    <3>1. i - 1 \in 0 .. n
      BY <1>1
    <3> QED BY <1>4, <1>5, <3>1
  <2> QED BY <1>1, <1>5, <2>1
<1>7. Fits(fit)
  <2> HIDE DEF Fits
  <2> QED BY <1>6, Zenon
<1>8. \A i \in 0 .. n : fit[i] \in S
  <2> HIDE DEF fit
  <2>1. fit[0] \in S
    BY <1>1, <1>2, <1>7
  <2>2. ASSUME NEW i \in 1 .. n, fit[i - 1] \in S PROVE fit[i] \in S
    <3>1. fit[i] = Fitting(fit[i - 1], candidates[i])
      BY <1>1, <1>7
    <3> QED BY <1>3, <2>2, <3>1
  <2> QED BY <1>1, <2>1, <2>2, Carried
<1>9. synthesize(candidates) = fit[n]
  BY DEF synthesize, n
<1> HIDE DEF fit
<1> QED BY <1>1, <1>8, <1>9 DEF S

LEMMA SeqsGrow ==
    ASSUME NEW A, NEW B, A \subseteq B, NEW s \in Seq(A)
    PROVE  s \in Seq(B)
OBVIOUS

Engines(U) == [admitted : Seq(Admissible(U)), rejected : Seq(U)]

LEMMA RuleAdmitted ==
    ASSUME NEW U, NEW engine \in Engines(U), NEW rule \in U
    PROVE  admit_rule(engine, rule) \in Engines(U)
<1>1. engine.admitted \in Seq(Admissible(U)) /\ engine.rejected \in Seq(U)
  BY DEF Engines
<1>2. engine = [admitted |-> engine.admitted, rejected |-> engine.rejected]
  BY DEF Engines
<1>3. CASE is_admissible(rule)
  <2>1. rule \in Admissible(U)
    BY <1>3 DEF Admissible
  <2>2. Append(engine.admitted, rule) \in Seq(Admissible(U))
    BY <1>1, <2>1, AppendProperties
  <2> QED BY <1>1, <1>2, <1>3, <2>2 DEF admit_rule, Engines
<1>4. CASE ~is_admissible(rule)
  <2>1. Append(engine.rejected, rule) \in Seq(U)
    BY <1>1, AppendProperties
  <2> QED BY <1>1, <1>2, <1>4, <2>1 DEF admit_rule, Engines
<1> QED BY <1>3, <1>4

LEMMA AdmissionsFit ==
    ASSUME NEW U, NEW rules \in Seq(U)
    PROVE  admissions(rules) \in Engines(U)
<1> DEFINE n == Len(rules)
           S == Engines(U)
           none == [admitted |-> << >>, rejected |-> << >>]
           step == [p \in (1 .. n) \X S |-> admit_rule(p[2], rules[p[1]])]
           Fits(f) == f = [i \in 0 .. n |-> IF i = 0 THEN [admitted |-> << >>, rejected |-> << >>]
                                           ELSE admit_rule(f[i - 1], rules[i])]
           engines == CHOOSE f : Fits(f)
<1>1. n \in Nat /\ \A i \in 1 .. n : rules[i] \in U
  BY ElementOfSeq, LenProperties
<1>2. none \in S
  BY DEF Engines
<1>3. ASSUME NEW i \in 1 .. n, NEW s \in S PROVE admit_rule(s, rules[i]) \in S
  BY <1>1, RuleAdmitted
<1>4. step \in [(1 .. n) \X S -> S] /\ \A i \in 1 .. n, s \in S : step[<<i, s>>] = admit_rule(s, rules[i])
  <2> HIDE DEF S, n
  <2> QED BY <1>3
<1> HIDE DEF step, n, S
<1>5. PICK f \in [0 .. n -> S] : f[0] = none /\ \A i \in 1 .. n : f[i] = step[<<i, f[i - 1]>>]
  <2> HIDE DEF none
  <2>1. Steps(n, S, none, OneByOne(n), step)
    BY <1>1, <1>2, <1>4 DEF Steps, OneByOne
  <2> QED BY <2>1, Iteration
<1>6. Fits(f)
  <2>1. ASSUME NEW i \in 1 .. n PROVE f[i] = admit_rule(f[i - 1], rules[i])
    <3>1. i - 1 \in 0 .. n
      BY <1>1
    <3> QED BY <1>4, <1>5, <3>1
  <2> QED BY <1>1, <1>5, <2>1
<1>7. Fits(engines)
  <2> HIDE DEF Fits
  <2> QED BY <1>6, Zenon
<1>8. \A i \in 0 .. n : engines[i] \in S
  <2> HIDE DEF engines
  <2>1. engines[0] \in S
    BY <1>1, <1>2, <1>7
  <2>2. ASSUME NEW i \in 1 .. n, engines[i - 1] \in S PROVE engines[i] \in S
    <3>1. engines[i] = admit_rule(engines[i - 1], rules[i])
      BY <1>1, <1>7
    <3> QED BY <1>3, <2>2, <3>1
  <2> QED BY <1>1, <2>1, <2>2, Carried
<1>9. admissions(rules) = engines[n]
  BY DEF admissions, n
<1> HIDE DEF engines
<1> QED BY <1>1, <1>8, <1>9 DEF S

LEMMA InductionFits ==
    ASSUME NEW U, NEW engine \in Engines(U), NEW hooks, Len(hooks) \in Nat,
           \A i \in 1 .. Len(hooks), k \in Nat : Proposals(hooks[i], k) \in Seq(U)
    PROVE  run_induction(engine, hooks).admitted \in Seq(Admissible(U))
<1> DEFINE n == Len(hooks)
           S == Seq(Admissible(U))
           step == [p \in (1 .. n) \X S |-> Induced(p[2], hooks[p[1]])]
           Fits(f) == f = [i \in 0 .. n |-> IF i = 0 THEN engine.admitted ELSE Induced(f[i - 1], hooks[i])]
           after == CHOOSE f : Fits(f)
<1>1. n \in Nat
  OBVIOUS
<1>2. engine.admitted \in S
  BY DEF Engines
<1>3. ASSUME NEW i \in 1 .. n, NEW s \in S PROVE Induced(s, hooks[i]) \in S
  <2>1. Len(s) \in Nat
    BY LenProperties
  <2>2. Proposals(hooks[i], Len(s)) \in Seq(U)
    BY <2>1
  <2>3. synthesize(Proposals(hooks[i], Len(s))) \in S
    BY <2>2, SynthesisFits
  <2> QED BY <2>3, ConcatProperties DEF Induced
<1>4. step \in [(1 .. n) \X S -> S]
      /\ \A i \in 1 .. n, s \in S : step[<<i, s>>] = Induced(s, hooks[i])
  <2> HIDE DEF S, n
  <2> QED BY <1>3
<1> HIDE DEF step, n, S
<1>5. PICK f \in [0 .. n -> S] : f[0] = engine.admitted /\ \A i \in 1 .. n : f[i] = step[<<i, f[i - 1]>>]
  <2>1. Steps(n, S, engine.admitted, OneByOne(n), step)
    BY <1>1, <1>2, <1>4 DEF Steps, OneByOne
  <2> QED BY <2>1, Iteration
<1>6. Fits(f)
  <2>1. ASSUME NEW i \in 1 .. n PROVE f[i] = Induced(f[i - 1], hooks[i])
    <3>1. i - 1 \in 0 .. n
      BY <1>1
    <3>2. f[i - 1] \in S
      BY <1>5, <3>1
    <3> QED BY <1>4, <1>5, <3>2, Zenon
  <2> QED BY <1>1, <1>5, <2>1
<1>7. Fits(after)
  <2> HIDE DEF Fits
  <2> QED BY <1>6, Zenon
<1>8. \A i \in 0 .. n : after[i] \in S
  <2> HIDE DEF after
  <2>1. after[0] \in S
    BY <1>1, <1>2, <1>7
  <2>2. ASSUME NEW i \in 1 .. n, after[i - 1] \in S PROVE after[i] \in S
    <3>1. after[i] = Induced(after[i - 1], hooks[i])
      BY <1>1, <1>7
    <3> QED BY <1>3, <2>2, <3>1
  <2> QED BY <1>1, <2>1, <2>2, Carried
<1>9. run_induction(engine, hooks) = [engine EXCEPT !.admitted = after[n]]
  BY DEF run_induction, n
<1> HIDE DEF after
<1>10. run_induction(engine, hooks).admitted = after[n]
  BY <1>9 DEF Engines
<1> QED BY <1>1, <1>8, <1>10 DEF S

LEMMA RulesAlwaysAdmissible ==
    ASSUME NEW rules, NEW hooks, rules \in Seq(ToSet(rules)), hooks \in Seq(ToSet(hooks)),
           \A h \in ToSet(hooks) : \A k \in DOMAIN h : h[k] \in Seq(ToSet(h[k]))
    PROVE  RulesAreAdmissible(rules, hooks)
<1> DEFINE U == ToSet(rules) \cup UNION {UNION {ToSet(h[k]) : k \in DOMAIN h} : h \in ToSet(hooks)}
           engine == run_induction(admissions(rules), hooks)
<1>1. rules \in Seq(U)
  BY SeqsGrow
<1>2. Len(hooks) \in Nat /\ \A i \in 1 .. Len(hooks) : hooks[i] \in ToSet(hooks)
  BY ElementOfSeq, LenProperties
<1>3. ASSUME NEW i \in 1 .. Len(hooks), NEW k \in Nat
      PROVE  Proposals(hooks[i], k) \in Seq(U)
  <2>1. CASE k \in DOMAIN hooks[i]
    <3>1. ToSet(hooks[i][k]) \subseteq U /\ hooks[i][k] \in Seq(ToSet(hooks[i][k]))
      BY <1>2, <2>1
    <3>2. hooks[i][k] \in Seq(U)
      BY <3>1, SeqsGrow
    <3> QED BY <2>1, <3>2 DEF Proposals
  <2>2. CASE k \notin DOMAIN hooks[i]
    BY <2>2 DEF Proposals
  <2> QED BY <2>1, <2>2
<1> HIDE DEF U
<1>4. engine.admitted \in Seq(Admissible(U))
  BY <1>1, <1>2, <1>3, AdmissionsFit, InductionFits
<1>5. \A i \in DOMAIN engine.admitted : violates_invariants(engine.admitted[i]) = {}
  <2> HIDE DEF engine
  <2>1. \A i \in DOMAIN engine.admitted : engine.admitted[i] \in Admissible(U)
    BY <1>4, LenProperties, ElementOfSeq
  <2> QED BY <2>1 DEF Admissible, is_admissible
<1> QED BY <1>5, Zenon DEF RulesAreAdmissible

LEMMA DisclosuresOwn ==
    ASSUME NEW offered, NEW expiries, offered \in Seq(ToSet(offered)),
           expiries \in [DOMAIN offered -> Nat \cup {Never}]
    PROVE  DisclosureIsOwn(offered, expiries)
<1> DEFINE n == Len(offered)
           commitments == [i \in DOMAIN offered |-> create(offered[i], i, expiries[i])]
<1>1. n \in Nat /\ DOMAIN offered = 1 .. n
  BY LenProperties
<1>2. /\ DOMAIN commitments = 1 .. n
      /\ \A i \in 1 .. n : /\ commitments[i].claim_hash = offered[i] /\ commitments[i].nonce = i
                           /\ commitments[i].commitment = <<offered[i], i>>
                           /\ commitments[i].expires_at = expiries[i]
  BY <1>1 DEF create, Hash
<1> HIDE DEF commitments, n
<1>3. ASSUME NEW S, NEW f, f = [i \in 1 .. n |-> f[i]], \A i \in 1 .. n : f[i] \in S
      PROVE  Len(f) = n
  <2>1. f \in [1 .. n -> S]
    BY <1>3
  <2> QED BY <1>1, <2>1
<1>4. ASSUME NEW c \in ToSet(offered), NEW t \in 0 .. MaxTime
      PROVE  LET disclosed == disclose_for(commitments, c, t)
                 checked == batch_verify([i \in DOMAIN commitments |-> disclosed[1]],
                                         [i \in DOMAIN commitments |-> commitments[i].commitment])
             IN  disclosed = << >> \/ Cardinality({i \in DOMAIN checked : checked[i] /\ offered[i] = c
                                                     /\ (expiries[i] = Never \/ t <= expiries[i])}) = 1
  <2> DEFINE fit == {i \in active_commitments(commitments, t) : commitments[i].claim_hash = c}
             m == CHOOSE i \in fit : \A j \in fit : i <= j
             disclosed == disclose_for(commitments, c, t)
             ones == [i \in DOMAIN commitments |-> disclosed[1]]
             known == [i \in DOMAIN commitments |-> commitments[i].commitment]
             checked == batch_verify(ones, known)
             own == {i \in DOMAIN checked : checked[i] /\ offered[i] = c
                                           /\ (expiries[i] = Never \/ t <= expiries[i])}
  <2>1. disclosed = IF fit = {} THEN << >> ELSE <<commitments[m]>>
    BY DEF disclose_for
  <2>2. CASE fit = {}
    BY <2>1, <2>2
  <2>3. CASE fit # {}
    <3>1. m \in fit
      <4>1. fit \subseteq Nat
        BY <1>1, <1>2 DEF active_commitments
      <4>2. PICK k \in fit : \A j \in fit : k <= j
        <5> HIDE DEF fit
        <5> QED BY <2>3, <4>1, LeastNatural
      <4> HIDE DEF fit
      <4> QED BY <4>2
    <3>2. /\ m \in 1 .. n /\ offered[m] = c
          /\ ~(expiries[m] # Never /\ t > expiries[m])
      BY <1>2, <3>1 DEF active_commitments
    <3>3. expiries[m] = Never \/ t <= expiries[m]
      <4>1. expiries[m] \in Nat \cup {Never} /\ t \in Nat
        BY <1>1, <3>2, BoundsAssumption
      <4> QED BY <3>2, <4>1
    <3> HIDE DEF fit, m
    <3>4. disclosed[1] = commitments[m]
      BY <2>1, <2>3
    <3> HIDE DEF disclosed
    <3>5. Len(ones) = n /\ Len(known) = n
      <4>1. ones = [i \in 1 .. n |-> ones[i]] /\ \A i \in 1 .. n : ones[i] \in {disclosed[1]}
        BY <1>2
      <4>2. known = [i \in 1 .. n |-> known[i]] /\ \A i \in 1 .. n : known[i] \in {known[j] : j \in 1 .. n}
        BY <1>2
      <4> HIDE DEF ones, known
      <4> QED BY <1>3, <4>1, <4>2
    <3>6. \A i \in 1 .. n : ones[i] = commitments[m] /\ known[i] = <<offered[i], i>>
      BY <1>2, <3>4
    <3> HIDE DEF ones, known
    <3>7. DOMAIN checked = 1 .. n /\ \A i \in 1 .. n : checked[i] = verify_disclosure(ones[i], known[i])
      BY <1>1, <3>5 DEF batch_verify
    <3>8. \A i \in 1 .. n : verify_disclosure(ones[i], known[i]) <=> i = m
      BY <1>2, <3>2, <3>6 DEF verify_disclosure, Hash
    <3>9. own = {m}
      BY <3>2, <3>3, <3>7, <3>8
    <3> HIDE DEF own
    <3>10. Cardinality(own) = 1
      BY <3>9, FS_Singleton, Zenon
    <3> QED BY <3>10 DEF own, checked, ones, known, disclosed
  <2> QED BY <2>2, <2>3
<1> QED BY <1>4, Zenon DEF DisclosureIsOwn, commitments

LEMMA VotesAlone ==
    ASSUME NEW k \in Kernels, NEW level \in 1 .. 5, NEW result, result.permitted \in BOOLEAN,
           result.permitted <=> result.violations = {}
    PROVE  LET vote == [kernel_id |-> k, trust_level |-> level, commitment_ok |-> TRUE, age |-> 0,
                        decision |-> from_result(result.permitted, result.violations)]
           IN  gateway_evaluate(Kernels, <<vote>>, Threshold) = result.permitted
<1> DEFINE decision == from_result(result.permitted, result.violations)
           vote == [kernel_id |-> k, trust_level |-> level, commitment_ok |-> TRUE, age |-> 0, decision |-> decision]
           votes == <<vote>>
<1>1. decision = IF result.permitted THEN PERMIT ELSE DENY
  BY Zenon DEF from_result
<1> HIDE DEF decision
<1>2. /\ Len(votes) = 1 /\ DOMAIN votes = 1 .. 1 /\ votes[1] = vote
  OBVIOUS
<1>3. /\ vote.decision = decision /\ vote.trust_level \in Nat
      /\ vote = [kernel_id |-> vote.kernel_id, trust_level |-> vote.trust_level, decision |-> vote.decision,
                 commitment_ok |-> vote.commitment_ok, age |-> vote.age]
      /\ validate_decision(Kernels, vote)
  BY DEF validate_decision
<1> HIDE DEF votes, vote
<1>4. Votes(votes)
  BY <1>1, <1>2, <1>3 DEF Votes
<1>5. PERMIT # DENY
  BY DEF PERMIT, DENY
<1>6. gateway_evaluate(Kernels, votes, Threshold) <=> Enough(votes, Valid(votes, PERMIT), Valid(votes, DENY))
  BY <1>4, Tallied
<1>7. CASE result.permitted
  <2>1. Valid(votes, PERMIT) = {1} /\ Valid(votes, DENY) = {}
    BY <1>1, <1>2, <1>3, <1>5, <1>7 DEF Valid, Cast
  <2>2. Cardinality({1}) = 1 /\ Cardinality({}) = 0
    BY FS_Singleton, FS_EmptySet, Zenon
  <2>3. Enough(votes, {1}, {})
    BY <2>2, ThresholdAssumption DEF Enough
  <2>4. gateway_evaluate(Kernels, votes, Threshold) \in BOOLEAN
    BY Zenon DEF gateway_evaluate, consensus
  <2>5. gateway_evaluate(Kernels, votes, Threshold)
    BY <1>6, <2>1, <2>3, Zenon
  <2>6. gateway_evaluate(Kernels, votes, Threshold) = result.permitted
    BY <1>7, <2>4, <2>5, Zenon
  <2> QED BY <2>6, Zenon DEF votes, vote, decision
<1>8. CASE ~result.permitted
  <2>1. Valid(votes, PERMIT) = {}
    BY <1>1, <1>2, <1>3, <1>5, <1>8 DEF Valid, Cast
  <2>2. Cardinality({}) = 0
    BY FS_EmptySet, Zenon
  <2>3. ~Enough(votes, {}, Valid(votes, DENY))
    BY <2>2 DEF Enough
  <2>4. gateway_evaluate(Kernels, votes, Threshold) \in BOOLEAN
    BY Zenon DEF gateway_evaluate, consensus
  <2>5. ~gateway_evaluate(Kernels, votes, Threshold)
    BY <1>6, <2>1, <2>3, Zenon
  <2>6. gateway_evaluate(Kernels, votes, Threshold) = result.permitted
    BY <1>8, <2>4, <2>5, Zenon
  <2> QED BY <2>6, Zenon DEF votes, vote, decision
<1> QED BY <1>7, <1>8

\* What a machine acts as for a step of a plan.
StepAction(e, uses) == [actor |-> e, uses |-> uses, governs |-> {}, flags |-> {}, min_epoch |-> 0]

\* A machine whose step is permitted is owned, and a machine holds a claim on
\* each resource of that step.
LEMMA StepsAreHeld ==
    ASSUME NEW g, Held(g), NEW e, Machine(e), NEW uses, uses \in [Operations -> SUBSET Resources], NEW t,
           verify(g, StepAction(e, uses), t).permitted,
           \A op \in {"read", "write"} : \A r \in uses[op] : Located(r) /\ ~r.is_public
    PROVE  /\ e \in DOMAIN g.owners
           /\ \A op \in {"read", "write"} : \A r \in uses[op] :
                 r.scope \in MachineScopes(g) /\ scope_contains(r.scope, r.scope)
<1> DEFINE a == StepAction(e, uses)
<1>1. a.actor = e /\ a.uses = uses /\ a.min_epoch = 0
  BY DEF StepAction
<1> HIDE DEF a
<1>2. e \in DOMAIN g.owners
  <2>1. Violations(g, a, t) = {}
    BY DEF verify, a
  <2>2. {x \in {e} : Unowned(g, x)} = {}
    BY <1>1, <2>1, Zenon DEF Violations
  <2>3. ~Unowned(g, e)
    BY <2>2
  <2> QED BY <2>3, Zenon DEF Unowned, owner_of
<1>3. ASSUME NEW op \in {"read", "write"}, NEW r \in uses[op]
      PROVE  r.scope \in MachineScopes(g) /\ scope_contains(r.scope, r.scope)
  <2>1. <<op, r>> \in Uses(a)
    <3>1. op \in Operations /\ r \in Resources
      BY <1>3 DEF Operations
    <3> QED BY <1>1, <1>3, <3>1 DEF Uses
  <2>2. Acts(g, e, r, op, 0, t)
    <3>1. \A u \in Uses(a) : Acts(g, e, u[2], u[1], 0, t)
      <4>1. verify(g, a, t).permitted
        BY DEF a
      <4> QED BY <1>1, <4>1, PermittedActs
    <3> QED BY <2>1, <3>1
  <2> DEFINE U == UsableClaims(g.claims, g.index, g.tokens, e, r, op, t)
  <2>3. PICK c \in U : TRUE
    <3>1. U # {}
      BY <1>3, <2>2, PrivateUse
    <3> QED BY <3>1
  <2>4. c \in g.index /\ KeyOf(c) = _claim_key(e, r)
    <3>1. c \in claims_for(g.index, g.tokens, e, r, t)
      BY <2>3 DEF UsableClaims
    <3> QED BY <3>1 DEF claims_for
  <2>5. c \in g.claims /\ c.holder.kind = e.kind /\ c.resource.name = r.name /\ c.resource \in Resources
    BY <2>4 DEF Held, KeyOf, _claim_key
  <2>6. Machine(c.holder) /\ c.resource = r /\ scope_contains(r.scope, r.scope)
    BY <1>3, <2>5 DEF Machine, Located
  <2> QED BY <2>5, <2>6 DEF MachineScopes
<1> QED BY <1>2, <1>3

\* Whether a machine of that name may take every step of a plan, without public
\* resources.
Takes(g, plan, i, t) ==
    \E e \in Entities :
        /\ Machine(e) /\ e.name = plan[i].actor_name
        /\ \A op \in {"read", "write"} : \A r \in plan[i].uses[op] : Located(r) /\ ~r.is_public
        /\ verify(g, StepAction(e, plan[i].uses), t).permitted

LEMMA PlansAreCovered ==
    ASSUME NEW g, Held(g), NEW plan \in AgentPlans, NEW t, \A i \in DOMAIN plan : Takes(g, plan, i, t)
    PROVE  /\ coalition_check(g, plan) \cap {"AUTHORITY_AGGREGATION", "SCOPE_ESCALATION"} = {}
           /\ find_orphaned_steps(g, plan) = {}
<1>1. ASSUME NEW i \in DOMAIN plan
      PROVE  /\ \E m \in DOMAIN g.owners : m.name = plan[i].actor_name
             /\ \A op \in {"read", "write"} : \A r \in plan[i].uses[op] :
                   r.scope \in MachineScopes(g) /\ scope_contains(r.scope, r.scope)
  <2>1. plan[i].uses \in [Operations -> SUBSET Resources]
    BY <1>1, SubmittedAssumption
  <2> DEFINE uses == plan[i].uses
  <2>2. PICK e \in Entities :
           /\ Machine(e) /\ e.name = plan[i].actor_name
           /\ \A op \in {"read", "write"} : \A r \in uses[op] : Located(r) /\ ~r.is_public
           /\ verify(g, StepAction(e, uses), t).permitted
    BY <1>1, Zenon DEF Takes
  <2> HIDE DEF uses
  <2>3. /\ e \in DOMAIN g.owners
        /\ \A op \in {"read", "write"} : \A r \in uses[op] :
              r.scope \in MachineScopes(g) /\ scope_contains(r.scope, r.scope)
    <3>1. uses \in [Operations -> SUBSET Resources]
      BY <2>1 DEF uses
    <3> QED BY <2>2, <3>1, StepsAreHeld, Zenon
  <2> QED BY <2>2, <2>3, Zenon DEF uses
<1>2. ASSUME NEW op \in {"read", "write"}, NEW r \in UsesOfPlan(plan, op)
      PROVE  r.scope \in MachineScopes(g) /\ scope_contains(r.scope, r.scope)
  <2>1. PICK i \in DOMAIN plan : r \in plan[i].uses[op]
    BY <1>2 DEF UsesOfPlan
  <2> QED BY <1>1, <2>1
<1>3. ~_check_authority_aggregation(g, plan)
  BY <1>2 DEF _check_authority_aggregation
<1>4. ~_check_scope_escalation(g, plan)
  <2>1. \A r \in UsesOfPlan(plan, "read") \cup UsesOfPlan(plan, "write") :
          r.scope \in MachineScopes(g) /\ scope_contains(r.scope, r.scope)
    BY <1>2
  <2> QED BY <2>1, Zenon DEF _check_scope_escalation
<1>5. coalition_check(g, plan) \cap {"AUTHORITY_AGGREGATION", "SCOPE_ESCALATION"} = {}
  BY <1>3, <1>4 DEF coalition_check
<1>6. ASSUME NEW id \in StepIds(plan)
      PROVE  ~ \A m \in DOMAIN g.owners : m.name # StepOf(plan, id).actor_name
  <2> DEFINE i == CHOOSE j \in DOMAIN plan : plan[j].step_id = id
  <2>1. i \in DOMAIN plan /\ StepOf(plan, id) = plan[i]
    BY <1>6, Zenon DEF StepIds, StepOf
  <2> HIDE DEF i
  <2> QED BY <1>1, <2>1
<1>7. find_orphaned_steps(g, plan) = {}
  BY <1>6, Zenon DEF find_orphaned_steps
<1> QED BY <1>5, <1>7

LEMMA CoalitionAlwaysAgrees == ASSUME NEW g, Held(g) PROVE CoalitionAgrees(g)
<1>1. ASSUME NEW a \in Actions, NEW k \in Kernels, NEW level \in 1 .. 5
      PROVE  LET result == verify(g, a, now)
                 vote == [kernel_id |-> k, trust_level |-> level, commitment_ok |-> TRUE, age |-> 0,
                          decision |-> from_result(result.permitted, result.violations)]
             IN  gateway_evaluate(Kernels, <<vote>>, Threshold) = result.permitted
  <2> DEFINE result == verify(g, a, now)
  <2>1. result.permitted \in BOOLEAN /\ (result.permitted <=> result.violations = {})
    BY DEF verify
  <2> HIDE DEF result
  <2>2. LET vote == [kernel_id |-> k, trust_level |-> level, commitment_ok |-> TRUE, age |-> 0,
                     decision |-> from_result(result.permitted, result.violations)]
        IN  gateway_evaluate(Kernels, <<vote>>, Threshold) = result.permitted
    BY <2>1, VotesAlone
  <2> QED BY <2>2, Zenon DEF result
<1>2. ASSUME NEW plan \in AgentPlans, \A i \in DOMAIN plan : Takes(g, plan, i, now)
      PROVE  /\ coalition_check(g, plan) \cap {"AUTHORITY_AGGREGATION", "SCOPE_ESCALATION"} = {}
             /\ find_orphaned_steps(g, plan) = {}
  BY <1>2, PlansAreCovered
<1> QED BY <1>1, <1>2, Zenon DEF CoalitionAgrees, Takes, StepAction

\* Agents decide together as the rules say, for any votes, conflicts, worlds,
\* rules and commitments, and on every view of a registry that can come about.
THEOREM GroupDecisionsAlwaysSound == HostSpec => []GroupDecisionsSound
<1>1. HostInv => GroupDecisionsSound
  <2> SUFFICES ASSUME HostInv PROVE GroupDecisionsSound
    OBVIOUS
  <2>1. job \in Jobs /\ Held(LiveView)
    BY AgreementHeld DEF HostInv
  <2>2. job.kind = "votes" => VotesAreCounted(job.votes)
    BY <2>1, JobsAssumption, VotesAlwaysCounted, Zenon DEF FederatedDecision
  <2>3. ASSUME job.kind = "conflict" PROVE ConflictIsSettled(job.rivals[1], job.rivals[2])
    <3>1. \A i \in {1, 2} : job.rivals[i].resource \in Resources /\ job.rivals[i].confidence \in 0 .. FullConfidence
      BY <2>1, <2>3, JobsAssumption, Zenon
    <3>2. 1 \in {1, 2} /\ 2 \in {1, 2}
      OBVIOUS
    <3> QED BY <3>1, <3>2, ConflictsSettled, Zenon
  <2>4. job.kind = "worlds" => CompassAddsUp(job.worlds)
    BY <2>1, JobsAssumption, CompassesAddUp, Zenon DEF WorldState
  <2>5. job.kind = "rules" => RulesAreAdmissible(job.rules, job.hooks)
    BY <2>1, JobsAssumption, RulesAlwaysAdmissible, Zenon
  <2>6. job.kind = "commitments" => DisclosureIsOwn(job.offered, job.expiries)
    BY <2>1, JobsAssumption, DisclosuresOwn, Zenon
  <2>7. CoalitionAgrees(LiveView)
    BY <2>1, CoalitionAlwaysAgrees
  <2> QED BY <2>2, <2>3, <2>4, <2>5, <2>6, <2>7, Zenon DEF GroupDecisionsSound
<1> QED BY <1>1, HostInvariant, PTL

===============================================================================
