--------------------------- MODULE ServiceApiProofs ----------------------------
(***************************************************************************)
(* For any number of threads, clients and requests of the service: what    *)
(* machines hold was given them by their owners, no figure runs ahead of   *)
(* the audit log, whatever updates the unlocked counter loses, and a       *)
(* verdict is the one the registry had for it when the request arrived.    *)
(***************************************************************************)
EXTENDS ServiceApi, OwnershipRegistryProofs

-------------------------------------------------------------------------------
(* Figures *)

\* Threads whose verdict is in the audit log and not yet counted, by outcome.
Uncounted(k) ==
    {t \in Threads : at[t] \in {"recorded", "emitting", "emitted", "counting"} /\ Outcome(t) = k}

\* Threads whose verdict is in the audit log and that have yet to meet the hooks.
Unhooked(k) == {t \in Threads : at[t] \in {"recorded", "emitting"} /\ Outcome(t) = k}

\* What the handlers keep of the threads' records.
Records ==
    /\ DOMAIN at = Threads /\ DOMAIN view = Threads /\ DOMAIN verdict = Threads
    /\ DOMAIN reply = Threads /\ DOMAIN req = Threads
    /\ \A t \in Threads : req[t] = NoRequest => at[t] = "idle"
    /\ recorded \in [Outcomes -> Nat]
    /\ collected \in [Outcomes -> Nat]
    /\ _metrics \in [Outcomes -> Nat]

\* Each figure, and each figure a thread has read, leaves room for the threads
\* that may still add to it.
Room(k) ==
    /\ _metrics[k] + Cardinality(Uncounted(k)) <= recorded[k]
    /\ collected[k] + Cardinality(Unhooked(k)) <= recorded[k]
    /\ \A t \in Uncounted(k) :
          at[t] = "counting" => view[t] \in Nat /\ view[t] + Cardinality(Uncounted(k)) <= recorded[k]
    /\ \A t \in Threads : reply[t] = k => recorded[k] > 0

FInv == Records /\ \A k \in Outcomes : Room(k)

\* Sets of threads are finite.
LEMMA FinitePart ==
    ASSUME NEW S \in SUBSET Threads
    PROVE  IsFiniteSet(S) /\ Cardinality(S) \in Nat
BY ThreadsAssumption, FS_Subset, FS_CardinalityType

LEMMA FInvInit == ServiceInit => FInv
<1> SUFFICES ASSUME ServiceInit PROVE FInv
  OBVIOUS
<1>1. Records
  BY DEF ServiceInit, Records
<1>2. \A k : Uncounted(k) = {} /\ Unhooked(k) = {}
  BY DEF ServiceInit, Uncounted, Unhooked
<1>3. \A k : Cardinality(Uncounted(k)) = 0 /\ Cardinality(Unhooked(k)) = 0
  BY <1>2, FS_EmptySet
<1>4. ASSUME NEW k \in Outcomes
      PROVE  recorded[k] = 0 /\ collected[k] = 0 /\ _metrics[k] = 0 /\ \A t \in Threads : reply[t] # k
  BY DEF ServiceInit, Outcomes
<1> QED BY <1>1, <1>2, <1>3, <1>4 DEF FInv, Room

\* An outcome whose figures stand still, and for which no thread comes or goes.
LEMMA SameRoom ==
    ASSUME FInv, NEW k \in Outcomes,
           recorded'[k] = recorded[k], collected'[k] = collected[k], _metrics'[k] = _metrics[k],
           Uncounted(k)' = Uncounted(k), Unhooked(k)' = Unhooked(k),
           \A t \in Uncounted(k) : at'[t] = "counting" => at[t] = "counting" /\ view'[t] = view[t],
           \A t \in Threads : reply'[t] = k => reply[t] = k
    PROVE  Room(k)'
BY DEF FInv, Room

\* A thread that is in neither set and enters neither.
LEMMA Aside ==
    ASSUME FInv, Records', NEW t \in Threads,
           at[t] \notin {"recorded", "emitting", "emitted", "counting"},
           at'[t] \notin {"recorded", "emitting", "emitted", "counting"},
           \A u \in Threads : u # t => /\ at'[u] = at[u] /\ view'[u] = view[u]
                                      /\ verdict'[u] = verdict[u] /\ reply'[u] = reply[u],
           reply'[t] \in Outcomes => reply'[t] = reply[t],
           UNCHANGED <<recorded, collected, _metrics>>
    PROVE  FInv'
<1>1. ASSUME NEW k \in Outcomes PROVE Room(k)'
  <2>1. Uncounted(k)' = Uncounted(k) /\ Unhooked(k)' = Unhooked(k)
    BY DEF Uncounted, Unhooked, Outcome
  <2>2. \A u \in Uncounted(k) : u # t
    BY DEF Uncounted
  <2>3. \A u \in Uncounted(k) : u \in Threads
    BY DEF Uncounted
  <2> QED BY <1>1, <2>1, <2>2, <2>3, SameRoom
<1> QED BY <1>1 DEF FInv

\* What Respond and Go do to the records of the threads.
LEMMA RespondEffect ==
    ASSUME Records, NEW t \in Threads, NEW status, Respond(t, status)
    PROVE  /\ at'[t] = "idle" /\ reply'[t] = status
           /\ \A u \in Threads : u # t => /\ at'[u] = at[u] /\ view'[u] = view[u]
                                          /\ verdict'[u] = verdict[u] /\ reply'[u] = reply[u]
           /\ DOMAIN at' = Threads /\ DOMAIN view' = Threads /\ DOMAIN verdict' = Threads
           /\ DOMAIN reply' = Threads /\ DOMAIN req' = Threads
           /\ \A u \in Threads : req'[u] = NoRequest => at'[u] = "idle"
BY DEF Records, Respond, Go

LEMMA GoEffect ==
    ASSUME Records, NEW t \in Threads, NEW s, Go(t, s)
    PROVE  at'[t] = s /\ (\A u \in Threads : u # t => at'[u] = at[u]) /\ DOMAIN at' = Threads
BY DEF Records, Go

LEMMA RespondAside ==
    ASSUME FInv, NEW t \in Threads, NEW status, Respond(t, status), status \notin Outcomes,
           at[t] \notin {"recorded", "emitting", "emitted", "counting"},
           UNCHANGED <<recorded, collected, _metrics>>
    PROVE  FInv'
<1>1. Records'
  BY RespondEffect DEF FInv, Records
<1> QED BY <1>1, RespondEffect, Aside DEF FInv

\* Record: the verdict is in the log, and one more thread may add to the figures.
LEMMA RecordKeeps ==
    ASSUME FInv, NEW t \in Threads, Record(t)
    PROVE  FInv'
<1>0. PICK k0 \in Outcomes : k0 = Outcome(t)
  BY DEF Outcome, Outcomes
<1>1. /\ at[t] = "decided" /\ recorded' = OneMore(recorded, k0) /\ UNCHANGED <<collected, _metrics>>
  BY <1>0 DEF Record, In
<1>2. /\ recorded' \in [Outcomes -> Nat] /\ recorded'[k0] = recorded[k0] + 1
      /\ \A k \in Outcomes : k # k0 => recorded'[k] = recorded[k]
      /\ recorded[k0] \in Nat /\ collected[k0] \in Nat /\ _metrics[k0] \in Nat
  BY <1>1 DEF OneMore, FInv, Records
<1>3. \A k : \A u \in Uncounted(k) : u \in Threads /\ u # t
  BY <1>1 DEF Uncounted
<1>4. CASE Go(t, "recorded") /\ UNCHANGED <<req, view, verdict, reply>>
  <2>1. at'[t] = "recorded" /\ \A u \in Threads : u # t => at'[u] = at[u]
    BY <1>4, GoEffect DEF FInv
  <2>2. Records'
    BY <1>1, <1>2, <1>4, <2>1, GoEffect DEF FInv, Records
  <2>3. ASSUME NEW k \in Outcomes, k # k0 PROVE Room(k)'
    <3>1. Uncounted(k)' = Uncounted(k) /\ Unhooked(k)' = Unhooked(k)
      BY <1>0, <1>1, <1>4, <2>1, <2>3 DEF Uncounted, Unhooked, Outcome
    <3> QED BY <1>1, <1>2, <1>3, <1>4, <2>1, <2>3, <3>1, SameRoom
  <2>4. Room(k0)'
    <3>1. PICK U, H : U = Uncounted(k0) /\ H = Unhooked(k0)
      OBVIOUS
    <3>2. /\ Uncounted(k0)' = U \cup {t} /\ Unhooked(k0)' = H \cup {t} /\ t \notin U /\ t \notin H
          /\ U \in SUBSET Threads /\ H \in SUBSET Threads
      BY <1>0, <1>1, <1>4, <2>1, <3>1 DEF Uncounted, Unhooked, Outcome
    <3>3. PICK n, m \in Nat : /\ n = Cardinality(U) /\ m = Cardinality(H)
                              /\ Cardinality(U \cup {t}) = n + 1 /\ Cardinality(H \cup {t}) = m + 1
      BY <3>2, FinitePart, FS_AddElement
    <3>4. /\ _metrics[k0] + n <= recorded[k0] /\ collected[k0] + m <= recorded[k0]
          /\ \A u \in U : at[u] = "counting" => view[u] \in Nat /\ view[u] + n <= recorded[k0]
          /\ \A u \in Threads : reply[u] = k0 => recorded[k0] > 0
      BY <3>1, <3>3 DEF FInv, Room
    <3>5. \A u \in U \cup {t} : at'[u] = "counting" =>
              view'[u] \in Nat /\ view'[u] + (n + 1) <= recorded'[k0]
      BY <1>2, <1>3, <1>4, <2>1, <3>1, <3>4
    <3>6. _metrics'[k0] + (n + 1) <= recorded'[k0] /\ collected'[k0] + (m + 1) <= recorded'[k0]
      BY <1>1, <1>2, <3>3, <3>4
    <3>7. \A u \in Threads : reply'[u] = k0 => recorded'[k0] > 0
      BY <1>2, <1>4, <3>4
    <3>8. /\ Uncounted(k0)' = U \cup {t} /\ Cardinality(Uncounted(k0)') = n + 1
          /\ Cardinality(Unhooked(k0)') = m + 1
      BY <3>2, <3>3, Zenon
    <3> QED BY <3>5, <3>6, <3>7, <3>8, Zenon DEF Room
  <2> QED BY <2>2, <2>3, <2>4 DEF FInv
<1>5. CASE Respond(t, "500")
  <2>1. Records'
    BY <1>1, <1>2, <1>5, RespondEffect DEF FInv, Records
  <2>2. ASSUME NEW k \in Outcomes PROVE Room(k)'
    <3>0. k # "500"
      BY DEF Outcomes
    <3>1. Uncounted(k)' = Uncounted(k) /\ Unhooked(k)' = Unhooked(k)
      BY <1>1, <1>5, RespondEffect DEF Uncounted, Unhooked, Outcome, FInv
    <3>2. PICK n, m \in Nat : n = Cardinality(Uncounted(k)) /\ m = Cardinality(Unhooked(k))
      BY FinitePart DEF Uncounted, Unhooked
    <3>3. /\ recorded[k] \in Nat /\ recorded'[k] \in Nat /\ recorded[k] <= recorded'[k]
          /\ collected[k] \in Nat /\ _metrics[k] \in Nat
      BY <1>2 DEF FInv, Records
    <3>4. \A u \in Uncounted(k) : at'[u] = at[u] /\ view'[u] = view[u]
      BY <1>3, <1>5, RespondEffect DEF FInv
    <3>5. \A u \in Threads : reply'[u] = k => reply[u] = k
      BY <1>5, <3>0, RespondEffect DEF FInv
    <3>6. /\ _metrics[k] + n <= recorded[k] /\ collected[k] + m <= recorded[k]
          /\ \A u \in Uncounted(k) : at[u] = "counting" => view[u] \in Nat /\ view[u] + n <= recorded[k]
          /\ \A u \in Threads : reply[u] = k => recorded[k] > 0
      BY <3>2 DEF FInv, Room
    <3> QED BY <1>1, <3>1, <3>2, <3>3, <3>4, <3>5, <3>6 DEF Room
  <2> QED BY <2>1, <2>2 DEF FInv
<1> QED BY <1>4, <1>5 DEF Record
\* CopyHooks and on_event: one thread fewer may add to what is collected, and it
\* adds at most one.
LEMMA LeaveUnhooked ==
    ASSUME FInv, Records', NEW t \in Threads, at[t] \in {"recorded", "emitting"}, at'[t] = "emitted",
           \A u \in Threads : u # t => at'[u] = at[u],
           UNCHANGED <<recorded, _metrics, view, verdict, reply>>,
           \/ collected' = collected
           \/ collected' = OneMore(collected, Outcome(t))
    PROVE  FInv'
<1>0. PICK k0 \in Outcomes : k0 = Outcome(t)
  BY DEF Outcome, Outcomes
<1>1. ASSUME NEW k \in Outcomes PROVE Uncounted(k)' = Uncounted(k)
  BY DEF Uncounted, Outcome
<1>2. \A k \in Outcomes : \A u \in Uncounted(k) : u \in Threads /\ (at'[u] = "counting" => at[u] = "counting")
  BY DEF Uncounted
<1>3. \A k \in Outcomes : k # k0 => collected'[k] = collected[k]
  BY <1>0 DEF OneMore, FInv, Records
<1>4. ASSUME NEW k \in Outcomes, k # k0 PROVE Room(k)'
  <2>1. Unhooked(k)' = Unhooked(k)
    BY <1>0, <1>4 DEF Unhooked, Outcome
  <2> QED BY <1>1, <1>2, <1>3, <1>4, <2>1, SameRoom
<1>5. Room(k0)'
  <2>1. PICK U, H : U = Uncounted(k0) /\ H = Unhooked(k0)
    OBVIOUS
  <2>2. /\ Uncounted(k0)' = U /\ Unhooked(k0)' = H \ {t} /\ t \in H
        /\ U \in SUBSET Threads /\ H \in SUBSET Threads
    BY <1>0, <1>1, <2>1 DEF Uncounted, Unhooked, Outcome
  <2>3. PICK n, m \in Nat : n = Cardinality(U) /\ m = Cardinality(H) /\ Cardinality(H \ {t}) = m - 1
    BY <2>2, FinitePart, FS_RemoveElement
  <2>4. collected[k0] + m <= recorded[k0] /\ collected[k0] \in Nat /\ recorded[k0] \in Nat
    BY <2>1, <2>3 DEF FInv, Room, Records
  <2>5. collected'[k0] \in {collected[k0], collected[k0] + 1}
    BY <1>0 DEF OneMore, FInv, Records
  <2>6. collected'[k0] + (m - 1) <= recorded[k0]
    BY <2>3, <2>4, <2>5
  <2>7. /\ _metrics[k0] + n <= recorded[k0]
        /\ \A u \in U : at[u] = "counting" => view[u] \in Nat /\ view[u] + n <= recorded[k0]
        /\ \A u \in Threads : reply[u] = k0 => recorded[k0] > 0
    BY <2>1, <2>3 DEF FInv, Room
  <2> QED BY <1>2, <2>1, <2>2, <2>3, <2>6, <2>7 DEF Room
<1> QED BY <1>4, <1>5 DEF FInv

LEMMA CopyHooksKeeps ==
    ASSUME FInv, NEW t \in Threads, CopyHooks(t)
    PROVE  FInv'
<1>1. /\ at[t] = "recorded" /\ Go(t, IF hooked THEN "emitting" ELSE "emitted")
      /\ UNCHANGED <<req, view, verdict, reply, recorded, collected, _metrics>>
  BY DEF CopyHooks, In
<1>2. Records'
  BY <1>1, GoEffect DEF FInv, Records
<1>3. \A u \in Threads : u # t => at'[u] = at[u]
  BY <1>1, GoEffect DEF FInv
<1>4. CASE hooked
  <2>1. at'[t] = "emitting"
    BY <1>1, <1>4, GoEffect DEF FInv
  <2>2. ASSUME NEW k \in Outcomes PROVE Room(k)'
    <3>1. Uncounted(k)' = Uncounted(k) /\ Unhooked(k)' = Unhooked(k)
      BY <1>1, <1>3, <2>1 DEF Uncounted, Unhooked, Outcome
    <3>2. \A u \in Uncounted(k) : at'[u] = "counting" => at[u] = "counting"
      BY <1>3, <2>1 DEF Uncounted
    <3> QED BY <1>1, <3>1, <3>2, SameRoom
  <2> QED BY <1>2, <2>2 DEF FInv
<1>5. CASE ~hooked
  BY <1>1, <1>2, <1>3, <1>5, GoEffect, LeaveUnhooked DEF FInv
<1> QED BY <1>4, <1>5

LEMMA OnEventKeeps ==
    ASSUME FInv, NEW t \in Threads, on_event(t)
    PROVE  FInv'
<1>1. /\ at[t] = "emitting" /\ Go(t, "emitted") /\ collected' = OneMore(collected, Outcome(t))
      /\ UNCHANGED <<req, view, verdict, reply, recorded, _metrics>>
  BY DEF on_event, In
<1>2. collected' \in [Outcomes -> Nat]
  <2>1. Outcome(t) \in Outcomes
    BY DEF Outcome, Outcomes
  <2> QED BY <1>1, <2>1 DEF OneMore, FInv, Records
<1>3. Records'
  BY <1>1, <1>2, GoEffect DEF FInv, Records
<1> QED BY <1>1, <1>3, GoEffect, LeaveUnhooked DEF FInv

\* ReadCounter: what is read leaves as much room as the counter itself.
LEMMA ReadKeeps ==
    ASSUME FInv, NEW t \in Threads, ReadCounter(t)
    PROVE  FInv'
<1>0. PICK k0 \in Outcomes : k0 = Outcome(t)
  BY DEF Outcome, Outcomes
<1>1. /\ at[t] = "emitted" /\ Go(t, "counting") /\ view' = [view EXCEPT ![t] = _metrics[k0]]
      /\ UNCHANGED <<req, verdict, reply, recorded, collected, _metrics>>
  BY <1>0 DEF ReadCounter, In
<1>2. at'[t] = "counting" /\ view'[t] = _metrics[k0]
      /\ \A u \in Threads : u # t => at'[u] = at[u] /\ view'[u] = view[u]
  BY <1>1, GoEffect DEF FInv, Records
<1>3. Records'
  BY <1>1, <1>2, GoEffect DEF FInv, Records
<1>4. ASSUME NEW k \in Outcomes PROVE Room(k)'
  <2>1. Uncounted(k)' = Uncounted(k) /\ Unhooked(k)' = Unhooked(k)
    BY <1>1, <1>2 DEF Uncounted, Unhooked, Outcome
  <2>2. \A u \in Uncounted(k) : u \in Threads /\ (u = t => k = k0)
    BY <1>0 DEF Uncounted
  <2>3. _metrics[k] \in Nat
    BY DEF FInv, Records
  <2> QED BY <1>1, <1>2, <2>1, <2>2, <2>3 DEF FInv, Room
<1> QED BY <1>3, <1>4 DEF FInv

\* WriteCounter: the thread leaves, and the counter is what it read and one.
LEMMA WriteKeeps ==
    ASSUME FInv, NEW t \in Threads, WriteCounter(t)
    PROVE  FInv'
<1>0. PICK k0 \in Outcomes : k0 = Outcome(t)
  BY DEF Outcome, Outcomes
<1>1. /\ at[t] = "counting" /\ _metrics' = [_metrics EXCEPT ![k0] = view[t] + 1] /\ Respond(t, k0)
      /\ UNCHANGED <<recorded, collected>>
  BY <1>0 DEF WriteCounter, In
<1>2. /\ at'[t] = "idle" /\ reply'[t] = k0
      /\ \A u \in Threads : u # t => /\ at'[u] = at[u] /\ view'[u] = view[u]
                                     /\ verdict'[u] = verdict[u] /\ reply'[u] = reply[u]
  BY <1>1, RespondEffect DEF FInv
<1>3. PICK U, H : U = Uncounted(k0) /\ H = Unhooked(k0)
  OBVIOUS
<1>4. t \in U /\ U \in SUBSET Threads /\ H \in SUBSET Threads
  BY <1>0, <1>1, <1>3 DEF Uncounted, Unhooked
<1>5. Uncounted(k0)' = U \ {t} /\ Unhooked(k0)' = H
  BY <1>0, <1>1, <1>2, <1>3 DEF Uncounted, Unhooked, Outcome
<1>6. PICK n, m \in Nat : n = Cardinality(U) /\ m = Cardinality(H) /\ Cardinality(U \ {t}) = n - 1
  BY <1>4, FinitePart, FS_RemoveElement
<1>7. /\ _metrics[k0] + n <= recorded[k0] /\ collected[k0] + m <= recorded[k0]
      /\ \A u \in U : at[u] = "counting" => view[u] \in Nat /\ view[u] + n <= recorded[k0]
      /\ recorded[k0] \in Nat /\ collected[k0] \in Nat /\ _metrics[k0] \in Nat
  BY <1>3, <1>6 DEF FInv, Room, Records
<1>8. view[t] \in Nat /\ view[t] + n <= recorded[k0] /\ n # 0
  <2>1. n # 0
    BY <1>4, <1>6, FinitePart, FS_EmptySet
  <2> QED BY <1>1, <1>4, <1>7, <2>1
<1>9. _metrics'[k0] = view[t] + 1 /\ _metrics' \in [Outcomes -> Nat]
      /\ \A k \in Outcomes : k # k0 => _metrics'[k] = _metrics[k]
  BY <1>1, <1>8 DEF FInv, Records
<1>10. Records'
  BY <1>1, <1>9, RespondEffect DEF FInv, Records
<1>11. Room(k0)'
  <2>1. _metrics'[k0] + (n - 1) <= recorded[k0] /\ recorded[k0] > 0
    BY <1>7, <1>8, <1>9
  <2>2. \A u \in U \ {t} : at'[u] = "counting" => view'[u] \in Nat /\ view'[u] + (n - 1) <= recorded[k0]
    BY <1>2, <1>4, <1>7
  <2> QED BY <1>1, <1>5, <1>6, <1>7, <2>1, <2>2 DEF Room
<1>12. ASSUME NEW k \in Outcomes, k # k0 PROVE Room(k)'
  <2>1. Uncounted(k)' = Uncounted(k) /\ Unhooked(k)' = Unhooked(k)
    BY <1>0, <1>1, <1>2, <1>12 DEF Uncounted, Unhooked, Outcome
  <2>2. \A u \in Uncounted(k) : u \in Threads /\ u # t
    BY <1>0, <1>12 DEF Uncounted
  <2> QED BY <1>1, <1>2, <1>9, <1>12, <2>1, <2>2, SameRoom
<1> QED BY <1>10, <1>11, <1>12 DEF FInv

\* Handlers that decide nothing, and the steps before a verdict is in the log.
LEMMA OthersKeep ==
    ASSUME FInv, NEW t \in Threads,
           \/ register_machine_handler(t) \/ add_claim_handler(t) \/ LookUpOwner(t)
           \/ Delegate(t) \/ resolve_conflict(t) \/ Decide(t)
    PROVE  FInv'
<1>1. /\ at[t] \in {"handler", "owner known"} /\ UNCHANGED <<recorded, collected, _metrics>>
  BY DEF register_machine_handler, add_claim_handler, LookUpOwner, Delegate, resolve_conflict, Decide, In
<1>2. CASE \E status \in {"ok", "422", "500", "404", "403"} : Respond(t, status)
  BY <1>1, <1>2, RespondAside DEF Outcomes
<1>3. CASE /\ \E s \in {"owner known", "decided"} : Go(t, s)
           /\ \E v : \/ view' = [view EXCEPT ![t] = v] /\ verdict' = verdict
                     \/ verdict' = [verdict EXCEPT ![t] = v] /\ view' = view
           /\ UNCHANGED <<req, reply>>
  <2>1. PICK s \in {"owner known", "decided"} : Go(t, s)
    BY <1>3
  <2>2. /\ at'[t] \in {"owner known", "decided"} /\ DOMAIN at' = Threads
        /\ \A u \in Threads : u # t => at'[u] = at[u]
    BY <2>1, GoEffect DEF FInv
  <2>3. /\ DOMAIN view' = Threads /\ DOMAIN verdict' = Threads
        /\ \A u \in Threads : u # t => view'[u] = view[u] /\ verdict'[u] = verdict[u]
    <3>1. PICK v : \/ view' = [view EXCEPT ![t] = v] /\ verdict' = verdict
                   \/ verdict' = [verdict EXCEPT ![t] = v] /\ view' = view
      BY <1>3
    <3> QED BY <1>3, <3>1 DEF FInv, Records
  <2>4. Records'
    BY <1>1, <1>3, <2>2, <2>3 DEF FInv, Records
  <2> QED BY <1>1, <1>3, <2>2, <2>3, <2>4, Aside
<1> QED BY <1>2, <1>3 DEF register_machine_handler, add_claim_handler, LookUpOwner, Delegate,
                          resolve_conflict, Decide

LEMMA ArriveKeeps ==
    ASSUME FInv, NEW t \in Threads, NEW q \in Requests, Arrive(t, q)
    PROVE  FInv'
<1>1. /\ at[t] = "idle" /\ Go(t, "handler") /\ q # NoRequest
      /\ UNCHANGED <<verdict, recorded, collected, _metrics>>
  BY RequestsAssumption DEF Arrive, FInv, Records
<1>2. /\ req' = [req EXCEPT ![t] = q] /\ view' = [view EXCEPT ![t] = get_verifier]
      /\ reply' = [reply EXCEPT ![t] = "none"]
  BY DEF Arrive
<1>3. /\ at'[t] = "handler" /\ DOMAIN at' = Threads
      /\ \A u \in Threads : u # t => at'[u] = at[u]
  BY <1>1, GoEffect DEF FInv
<1>4. Records'
  BY <1>1, <1>2, <1>3 DEF FInv, Records
<1>5. /\ reply'[t] \notin Outcomes
      /\ \A u \in Threads : u # t => view'[u] = view[u] /\ reply'[u] = reply[u]
  BY <1>2 DEF FInv, Records, Outcomes
<1> QED BY <1>1, <1>3, <1>4, <1>5, Aside

\* A step that touches neither the threads nor the figures.
LEMMA FInvStutters ==
    ASSUME FInv, UNCHANGED <<req, at, view, verdict, reply, recorded, collected, _metrics>>
    PROVE  FInv'
BY DEF FInv, Records, Room, Uncounted, Unhooked, Outcome

LEMMA FInvNext == FInv /\ [ServiceNext]_allVars => FInv'
<1> SUFFICES ASSUME FInv, [ServiceNext]_allVars PROVE FInv'
  OBVIOUS
<1>1. CASE \E t \in Threads, q \in Requests : Arrive(t, q)
  BY <1>1, ArriveKeeps
<1>2. CASE \E t \in Threads : Handle(t)
  BY <1>2, OthersKeep, RecordKeeps, CopyHooksKeeps, OnEventKeeps, ReadKeeps, WriteKeeps DEF Handle
<1>3. CASE ToggleHook
  BY <1>3, FInvStutters DEF ToggleHook
<1>4. CASE UNCHANGED allVars
  BY <1>4, FInvStutters DEF allVars, service
<1> QED BY <1>1, <1>2, <1>3, <1>4 DEF ServiceNext, ServiceStep

\* No counter and no collector is ahead of the audit log, and every verdict that
\* was sent is in it: whichever updates of the unlocked counter are lost and
\* whichever appends to the log's file fail.
THEOREM AlwaysAccounted == ServiceSpec => []Accounted
<1>1. FInv => Accounted
  <2> SUFFICES ASSUME FInv, NEW k \in Outcomes
               PROVE  /\ _metrics[k] <= recorded[k] /\ collected[k] <= recorded[k]
                      /\ (\E t \in Threads : reply[t] = k) => recorded[k] > 0
    BY DEF Accounted
  <2>1. PICK n, m \in Nat : n = Cardinality(Uncounted(k)) /\ m = Cardinality(Unhooked(k))
    BY FinitePart DEF Uncounted, Unhooked
  <2>2. _metrics[k] \in Nat /\ collected[k] \in Nat /\ recorded[k] \in Nat
    BY DEF FInv, Records
  <2> QED BY <2>1, <2>2 DEF FInv, Room
<1> QED BY <1>1, FInvInit, FInvNext, PTL DEF ServiceSpec

-------------------------------------------------------------------------------
(* Rights of machines *)

\* e bears the token its identity was enrolled with.
Bears(e) == _identity_key(e) \in DOMAIN tokens /\ tokens[_identity_key(e)] = e.identity_token

\* What a delegation has found out in its first call, and what stays true of it
\* until the second: owners on record may change, and who was one does not.
Promised(t) ==
    /\ req[t].kind = "delegate" /\ Machine(req[t].offer.holder)
    /\ view[t] \in Entities /\ ~Machine(view[t]) /\ Bears(view[t])
    /\ <<req[t].offer.holder, view[t]>> \in owned[t]

HumansHold == \A c \in claims : ~Machine(c.holder) => Bears(c.holder) /\ c.delegated_by = NoOne

OwnersKnown ==
    /\ OwnersAreEnrolled
    /\ \A m \in DOMAIN owners : owners[m] \in Entities /\ ~Machine(owners[m])

ThreadsPromised ==
    \A t \in Threads : /\ req[t] \in Requests \cup {NoRequest}
                       /\ at[t] = "owner known" => req[t] # NoRequest /\ Promised(t)

RInv == Agreement /\ HumansHold /\ OwnersKnown /\ ThreadsPromised

\* What comes in, if anything, is in order.
Granted == \A c \in claims' \ claims : FromOwner(c)

\* No token on record changes.
Grows == DOMAIN tokens \subseteq DOMAIN tokens' /\ \A k \in DOMAIN tokens : tokens'[k] = tokens[k]

LEMMA RInvInit == ServiceInit => RInv
<1> SUFFICES ASSUME ServiceInit PROVE RInv
  OBVIOUS
<1>1. Agreement
  BY InitAgreement DEF ServiceInit
<1>2. claims = {} /\ owners = << >>
  BY DEF ServiceInit, Init
<1>3. HumansHold /\ OwnersKnown
  BY <1>2 DEF HumansHold, OwnersKnown, OwnersAreEnrolled
<1>4. ThreadsPromised
  BY DEF ServiceInit, ThreadsPromised
<1> QED BY <1>1, <1>3, <1>4 DEF RInv

\* At most one claim comes in, and it is in order.
LEMMA RightsKept ==
    ASSUME RInv, Grows, NEW c, claims \subseteq claims', claims' \subseteq claims \cup {c},
           c \in claims' => FromOwner(c) /\ (~Machine(c.holder) => Bears(c.holder)')
    PROVE  Granted /\ HumansHold'
<1>1. Granted
  BY DEF Granted
<1>2. \A e : Bears(e) => Bears(e)'
  BY DEF Bears, Grows
<1>3. HumansHold'
  BY <1>2 DEF HumansHold, RInv, FromOwner
<1> QED BY <1>1, <1>3

\* A thread that does not move keeps its promise.
LEMMA PromiseKept ==
    ASSUME RInv, Grows, SeeOwners, NEW u \in Threads, Promised(u), req[u] # NoRequest,
           view'[u] = view[u], req'[u] = req[u]
    PROVE  Promised(u)'
<1>1. \A e : Bears(e) => Bears(e)'
  BY DEF Bears, Grows
<1>2. req[u].kind = "delegate"
  BY DEF Promised
<1>3. owned[u] \subseteq owned'[u]
  BY <1>2 DEF SeeOwners
<1> QED BY <1>1, <1>3 DEF Promised

\* Only thread t has moved.
LEMMA PromisesKept ==
    ASSUME RInv, Grows, SeeOwners, NEW t \in Threads,
           \A u \in Threads : u # t => /\ at'[u] = at[u] /\ view'[u] = view[u] /\ req'[u] = req[u],
           req'[t] \in Requests \cup {NoRequest},
           at'[t] = "owner known" => req'[t] # NoRequest /\ Promised(t)'
    PROVE  ThreadsPromised'
BY PromiseKept DEF ThreadsPromised, RInv

\* A thread that has answered owes nothing.
LEMMA AnsweredKept ==
    ASSUME Records, RInv, Grows, SeeOwners, NEW t \in Threads, NEW status, Respond(t, status)
    PROVE  ThreadsPromised'
<1>1. /\ at'[t] = "idle" /\ req'[t] = NoRequest
      /\ \A u \in Threads : u # t => /\ at'[u] = at[u] /\ view'[u] = view[u] /\ req'[u] = req[u]
  BY DEF Records, Respond, Go
<1> QED BY <1>1, PromisesKept

\* Steps that leave the registry alone.
LEMMA RegistryAside ==
    ASSUME RInv, UNCHANGED vars, ThreadsPromised'
    PROVE  RInv' /\ Granted
<1>1. Grows
  BY DEF Grows, vars
<1>2. Agreement'
  BY DEF RInv, Agreement, TypeOK, IndexConsistent, vars
<1>3. claims' = claims /\ tokens' = tokens /\ owners' = owners
  BY DEF vars
<1>4. Granted
  BY <1>3 DEF Granted
<1>5. HumansHold' /\ OwnersKnown'
  BY <1>1, <1>3 DEF HumansHold, Bears, OwnersKnown, OwnersAreEnrolled, RInv, Grows
<1> QED BY <1>2, <1>4, <1>5 DEF RInv

\* delegate_claim, second call: the claim it attenuates is the owner's own, since
\* no two humans bear one name and the enrolled token of that name.
LEMMA DelegateGrants ==
    ASSUME RInv, Records, NEW t \in Threads, Delegate(t), SeeOwners
    PROVE  RInv' /\ Granted
<1>1. /\ at[t] = "owner known" /\ req[t] # NoRequest /\ req[t] \in Requests
      /\ req[t].kind = "delegate" /\ Promised(t)
  BY DEF Delegate, In, RInv, ThreadsPromised
<1>2. CASE UNCHANGED vars /\ Respond(t, "403")
  <2>1. Grows
    BY <1>2 DEF Grows, vars
  <2> QED BY <1>2, <2>1, AnsweredKept, RegistryAside
<1>3. CASE delegate(req[t].offer, view[t]) /\ Respond(t, "ok")
  <2>1. PICK o, by : o = req[t].offer /\ by = view[t]
    OBVIOUS
  <2>2. o \in Offers /\ by \in Entities /\ ~Machine(by) /\ Bears(by) /\ Machine(o.holder)
        /\ <<o.holder, by>> \in owned[t] /\ delegate(o, by)
    BY <1>1, <1>3, <2>1, RequestsAssumption DEF Promised
  <2>3. PICK c, best : c = Claim(o, by) /\ best = Best(Delegatable(by, o.resource))
    OBVIOUS
  <2>4. /\ Delegatable(by, o.resource) # {} /\ Attenuates(o, best) /\ Insert(c)
        /\ UNCHANGED <<tokens, owners, now>> /\ inserted < MaxClaims
    BY <2>2, <2>3 DEF delegate
  <2>5. \A d \in Delegatable(by, o.resource) : d \in claims
    BY DEF Delegatable, RInv, Agreement, IndexConsistent
  <2>6. best \in Delegatable(by, o.resource)
    <3>1. \A d \in Delegatable(by, o.resource) :
              d.obj \in Nat /\ d.confidence \in 0 .. FullConfidence
      BY <2>5, BoundsAssumption DEF RInv, Agreement, TypeOK
    <3> QED BY <2>3, <2>4, <3>1, BestIsMember, BoundsAssumption
  <2>7. best \in claims /\ KeyOf(best) = _claim_key(by, o.resource) /\ best.holder \in Entities
    BY <2>5, <2>6 DEF Delegatable, RInv, Agreement, TypeOK
  <2>8. best.holder.name = by.name /\ best.holder.kind = by.kind
    BY <2>7 DEF KeyOf, _claim_key
  <2>9. ~Machine(best.holder)
    BY <2>2, <2>8 DEF Machine
  <2>10. best.delegated_by = NoOne /\ Bears(best.holder)
    BY <2>7, <2>9 DEF RInv, HumansHold
  <2>11. best.holder.identity_token = by.identity_token
    BY <2>2, <2>8, <2>10 DEF Bears, _identity_key
  <2>12. best.holder = by
    BY <2>2, <2>7, <2>8, <2>11, EntitiesAssumption
  <2>13. c.holder = o.holder /\ c.delegated_by = by /\ c.rights = o.rights /\ c.confidence = o.confidence
    BY <2>3 DEF Claim
  <2>14. Attenuates(c, best)
    BY <2>4, <2>13 DEF Attenuates
  <2>15. claims \subseteq claims' /\ claims' \subseteq claims \cup {c}
    BY <2>4 DEF Insert
  <2>16. Grows
    BY <2>4 DEF Grows
  <2>17. Granted /\ HumansHold'
    <3>1. req'[t] # req[t]
      BY <1>1, <1>3 DEF Respond, Records
    <3>2. FromOwner(c)
      BY <2>2, <2>7, <2>10, <2>12, <2>13, <2>14, <3>1 DEF FromOwner
    <3> QED BY <2>2, <2>13, <2>15, <2>16, <3>2, RightsKept
  <2>18. Agreement'
    BY <2>2, <2>3, <2>4, InsertAgrees DEF RInv
  <2>19. ThreadsPromised'
    BY <1>3, <2>16, AnsweredKept
  <2>20. OwnersKnown'
    BY <2>4, <2>16 DEF OwnersKnown, OwnersAreEnrolled, RInv, Grows
  <2> QED BY <2>17, <2>18, <2>19, <2>20 DEF RInv
<1> QED BY <1>2, <1>3 DEF Delegate

\* add_claim: a root claim is a human's, who is enrolled by it.
LEMMA ClaimGrants ==
    ASSUME RInv, Records, NEW t \in Threads, add_claim_handler(t), SeeOwners
    PROVE  RInv' /\ Granted
<1>1. req[t] \in Requests /\ req[t].kind = "claim"
  BY DEF add_claim_handler, In, RInv, ThreadsPromised
<1>2. CASE \E s : Respond(t, s) /\ UNCHANGED vars
  <2>1. Grows
    BY <1>2 DEF Grows, vars
  <2> QED BY <1>2, <2>1, AnsweredKept, RegistryAside
<1>3. CASE /\ ~Machine(req[t].offer.holder) /\ _identity_matches(tokens, req[t].offer.holder)
           /\ add_claim(req[t].offer) /\ Respond(t, "ok")
  <2>1. PICK o, c : o = req[t].offer /\ c = Claim(o, NoOne)
    OBVIOUS
  <2>2. /\ o \in Offers /\ ~Machine(o.holder) /\ _identity_matches(tokens, o.holder)
        /\ Insert(c) /\ tokens' = Enrolled(tokens, o.holder) /\ inserted < MaxClaims
        /\ UNCHANGED <<owners, now>>
    BY <1>1, <1>3, <2>1, RequestsAssumption DEF add_claim
  <2>3. Grows /\ Bears(o.holder)'
    BY <2>2, EnrolKeeps DEF Grows, Bears
  <2>4. c.holder = o.holder /\ c.delegated_by = NoOne
    BY <2>1 DEF Claim
  <2>5. claims \subseteq claims' /\ claims' \subseteq claims \cup {c}
    BY <2>2 DEF Insert
  <2>6. Granted /\ HumansHold'
    BY <2>2, <2>3, <2>4, <2>5, RightsKept DEF FromOwner
  <2>7. Agreement'
    BY <2>1, <2>2, InsertAgrees DEF RInv
  <2>8. ThreadsPromised'
    BY <1>3, <2>3, AnsweredKept
  <2>9. OwnersKnown'
    BY <2>2, <2>3, SameOwners DEF OwnersKnown, RInv, Grows
  <2> QED BY <2>6, <2>7, <2>8, <2>9 DEF RInv
<1> QED BY <1>2, <1>3 DEF add_claim_handler

\* register_machine: whoever is put on record is a human, and enters the history.
LEMMA RegistrationGrants ==
    ASSUME RInv, Records, NEW t \in Threads, register_machine_handler(t), SeeOwners
    PROVE  RInv' /\ Granted
<1>1. req[t] \in Requests /\ req[t].kind = "machine"
  BY DEF register_machine_handler, In, RInv, ThreadsPromised
<1>2. CASE \E s : Respond(t, s) /\ UNCHANGED vars
  <2>1. Grows
    BY <1>2 DEF Grows, vars
  <2> QED BY <1>2, <2>1, AnsweredKept, RegistryAside
<1>3. CASE register_machine(req[t].machine, req[t].owner) /\ \E s : Respond(t, s)
  <2>1. PICK m, o : /\ m = req[t].machine /\ o = req[t].owner
    OBVIOUS
  <2>2. /\ m \in Entities /\ o \in Entities /\ register_machine(m, o) /\ ~Machine(o)
        /\ UNCHANGED <<claims, index, heap, inserted, now>>
    BY <1>1, <1>3, <2>1, RequestsAssumption DEF register_machine, Machine
  <2>3. /\ DOMAIN tokens \subseteq DOMAIN tokens' /\ \A k \in DOMAIN tokens : tokens'[k] = tokens[k]
    <3>1. PICK tk : tk = Enrolled(tokens, m)
      OBVIOUS
    <3>2. tokens' = Enrolled(tk, o) \/ tokens' = tk
      BY <2>2, <3>1 DEF register_machine
    <3> QED BY <3>1, <3>2, EnrolKeeps
  <2>4. Grows
    BY <2>3 DEF Grows
  <2>5. owners' = owners \/ owners' = [x \in DOMAIN owners \cup {m} |-> IF x = m THEN o ELSE owners[x]]
    BY <2>2 DEF register_machine
  <2>6. ASSUME NEW x \in DOMAIN owners' PROVE owners'[x] \in Entities /\ ~Machine(owners'[x])
    <3>1. CASE owners'[x] = o
      BY <2>2, <3>1
    <3>2. CASE owners'[x] = owners[x] /\ x \in DOMAIN owners
      BY <3>2 DEF RInv, OwnersKnown
    <3> QED BY <2>5, <3>1, <3>2
  <2>7. OwnersKnown'
    <3>1. OwnersAreEnrolled'
      BY <2>2, RegisterEnrols DEF RInv, OwnersKnown
    <3> QED BY <2>6, <3>1 DEF OwnersKnown
  <2>8. Agreement'
    BY <2>2 DEF RInv, Agreement, TypeOK, IndexConsistent
  <2>9. Granted /\ HumansHold'
    <3>1. \A e : Bears(e) => Bears(e)'
      BY <2>3 DEF Bears
    <3> QED BY <2>2, <3>1 DEF Granted, HumansHold, RInv
  <2>10. ThreadsPromised'
    BY <1>3, <2>4, AnsweredKept
  <2> QED BY <2>7, <2>8, <2>9, <2>10 DEF RInv
<1> QED BY <1>2, <1>3 DEF register_machine_handler

\* delegate_claim, first call.
LEMMA LookUpGrants ==
    ASSUME RInv, Records, NEW t \in Threads, LookUpOwner(t), SeeOwners
    PROVE  RInv' /\ Granted
<1>1. /\ req[t] \in Requests /\ req[t] # NoRequest /\ req[t].kind = "delegate" /\ UNCHANGED vars
  BY DEF LookUpOwner, In, RInv, ThreadsPromised
<1>2. Grows
  BY <1>1 DEF Grows, vars
<1>3. PICK m, o : /\ m = req[t].offer.holder
                  /\ o = (IF Machine(m) THEN owner_of(tokens, owners, m) ELSE NoOne)
  OBVIOUS
<1>4. CASE o = NoOne
  BY <1>1, <1>2, <1>3, <1>4, AnsweredKept, RegistryAside DEF LookUpOwner
<1>5. CASE o # NoOne
  <2>1. view' = [view EXCEPT ![t] = o] /\ Go(t, "owner known") /\ UNCHANGED req
    BY <1>3, <1>5 DEF LookUpOwner
  <2>2. Machine(m) /\ m \in DOMAIN owners /\ o = owners[m]
    BY <1>3, <1>5 DEF owner_of
  <2>3. o \in Entities /\ ~Machine(o) /\ Bears(o)
    BY <2>2 DEF RInv, OwnersKnown, OwnersAreEnrolled, Bears
  <2>4. req'[t] = req[t] /\ view'[t] = o
    BY <2>1 DEF Records
  <2>5. Bears(o)'
    BY <1>2, <2>3 DEF Bears, Grows
  <2>6. Promised(t)'
    <3>1. owners' = owners
      BY <1>1 DEF vars
    <3>2. <<m, o>> \in owned'[t]
      BY <1>1, <2>2, <2>4, <3>1 DEF SeeOwners
    <3> QED BY <1>1, <1>3, <2>2, <2>3, <2>4, <2>5, <3>2 DEF Promised
  <2>7. \A u \in Threads : u # t => /\ at'[u] = at[u] /\ view'[u] = view[u] /\ req'[u] = req[u]
    BY <2>1 DEF Records, Go
  <2>8. ThreadsPromised'
    BY <1>1, <1>2, <2>4, <2>6, <2>7, PromisesKept
  <2> QED BY <1>1, <2>8, RegistryAside
<1> QED BY <1>4, <1>5

\* Steps that neither touch the registry nor leave a thread between the calls.
LEMMA OthersGrant ==
    ASSUME RInv, Records, NEW t \in Threads, SeeOwners, UNCHANGED vars,
           \/ \E s : Respond(t, s)
           \/ /\ at'[t] # "owner known" /\ req'[t] \in Requests \cup {NoRequest}
              /\ \A u \in Threads : u # t => /\ at'[u] = at[u] /\ view'[u] = view[u]
                                            /\ req'[u] = req[u]
    PROVE  RInv' /\ Granted
<1>1. Grows
  BY DEF Grows, vars
<1> QED BY <1>1, AnsweredKept, PromisesKept, RegistryAside

LEMMA RInvNext == RInv /\ Records /\ [ServiceNext]_allVars => RInv' /\ Granted
<1> SUFFICES ASSUME RInv, Records, [ServiceNext]_allVars PROVE RInv' /\ Granted
  OBVIOUS
<1>1. CASE UNCHANGED allVars
  <2>1. ThreadsPromised'
    BY <1>1 DEF allVars, service, vars, ThreadsPromised, Promised, Bears, RInv
  <2> QED BY <1>1, <2>1, RegistryAside DEF allVars
<1>2. CASE ServiceNext
  <2>2. SeeOwners
    BY <1>2 DEF ServiceNext, Observe
  <2>3. ASSUME NEW t \in Threads, NEW q \in Requests, Arrive(t, q) PROVE RInv' /\ Granted
    <3>1. /\ at'[t] = "handler" /\ req'[t] = q
          /\ \A u \in Threads : u # t => /\ at'[u] = at[u] /\ view'[u] = view[u] /\ req'[u] = req[u]
      BY <2>3 DEF Arrive, Go, Records
    <3> QED BY <2>2, <2>3, <3>1, OthersGrant DEF Arrive
  <2>4. ASSUME NEW t \in Threads, Go(t, "decided") \/ Go(t, "recorded") \/ Go(t, "emitting")
                                  \/ Go(t, "emitted") \/ Go(t, "counting"),
               UNCHANGED vars, UNCHANGED req,
               view' = view \/ view' = [view EXCEPT ![t] = _metrics[Outcome(t)]]
        PROVE  RInv' /\ Granted
    <3>1. /\ at'[t] # "owner known" /\ req'[t] = req[t]
          /\ \A u \in Threads : u # t => /\ at'[u] = at[u] /\ view'[u] = view[u] /\ req'[u] = req[u]
      BY <2>4 DEF Go, Records
    <3>2. req'[t] \in Requests \cup {NoRequest}
      BY <3>1 DEF RInv, ThreadsPromised
    <3> QED BY <2>2, <2>4, <3>1, <3>2, OthersGrant
  <2>5. ASSUME NEW t \in Threads, NEW s, Respond(t, s), UNCHANGED vars PROVE RInv' /\ Granted
    BY <2>2, <2>5, OthersGrant
  <2>6. ASSUME NEW t \in Threads, resolve_conflict(t) PROVE RInv' /\ Granted
    BY <2>5, <2>6 DEF resolve_conflict
  <2>7. ASSUME NEW t \in Threads, Decide(t) \/ CopyHooks(t) PROVE RInv' /\ Granted
    BY <2>4, <2>7 DEF Decide, CopyHooks
  <2>8. ASSUME NEW t \in Threads, Record(t) PROVE RInv' /\ Granted
    BY <2>4, <2>5, <2>8 DEF Record
  <2>9. ASSUME NEW t \in Threads, on_event(t) \/ ReadCounter(t) PROVE RInv' /\ Granted
    BY <2>4, <2>9 DEF on_event, ReadCounter
  <2>10. ASSUME NEW t \in Threads, WriteCounter(t) PROVE RInv' /\ Granted
    BY <2>5, <2>10 DEF WriteCounter
  <2>11. CASE ToggleHook
    <3>1. UNCHANGED <<vars, req, at, view>>
      BY <2>11 DEF ToggleHook
    <3>2. Grows
      BY <3>1 DEF Grows, vars
    <3>3. ThreadsPromised'
      BY <2>2, <3>1, <3>2, PromiseKept DEF ThreadsPromised, RInv
    <3> QED BY <3>1, <3>3, RegistryAside
  <2> QED BY <1>2, <2>2, <2>3, <2>6, <2>7, <2>8, <2>9, <2>10, <2>11, DelegateGrants,
             ClaimGrants, RegistrationGrants, LookUpGrants DEF ServiceNext, ServiceStep, Handle
<1> QED BY <1>1, <1>2

\* Whatever a machine is given was delegated to it by a human who was on record as
\* its owner while the request was handled, out of a root claim of that human, although delegate_claim looks up
\* the owner in one call and delegates in another.
THEOREM MachineRightsAlwaysFromOwner == ServiceSpec => MachineRightsFromOwner
<1>1. FInv => Records
  BY DEF FInv
<1>2. RInv /\ Records /\ [ServiceNext]_allVars => [\A c \in claims' \ claims : FromOwner(c)]_allVars
  BY RInvNext DEF Granted
<1> QED BY <1>1, <1>2, FInvInit, FInvNext, RInvInit, RInvNext, PTL DEF ServiceSpec, MachineRightsFromOwner

-------------------------------------------------------------------------------
(* Verdicts *)

\* What the verifier of a request will decide, and what it has decided, was the
\* live registry's verdict while the request was being handled.
Judged(t) ==
    /\ at[t] = "handler" /\ req[t].kind = "verify" =>
          verify(view[t].gate, req[t].action, now).permitted \in truth[t]
    /\ verdict[t] # NoRequest =>
          /\ req[t] # NoRequest /\ req[t].kind = "verify" /\ verdict[t].permitted \in truth[t]

VInv == DOMAIN truth = Threads /\ \A t \in Threads : Judged(t)

LEMMA VInvInit == ServiceInit => VInv
BY DEF ServiceInit, VInv, Judged

\* No handler lets time pass.
LEMMA TimeStands == [ServiceNext]_allVars => now' = now
<1> SUFFICES ASSUME [ServiceNext]_allVars PROVE now' = now
  OBVIOUS
<1>1. ASSUME NEW t, \/ LookUpOwner(t) \/ resolve_conflict(t) \/ Decide(t) \/ Record(t) \/ CopyHooks(t)
                    \/ on_event(t) \/ ReadCounter(t) \/ WriteCounter(t) \/ ToggleHook
      PROVE  now' = now
  BY <1>1 DEF LookUpOwner, resolve_conflict, Decide, Record, CopyHooks, on_event, ReadCounter,
              WriteCounter, ToggleHook, vars
<1>2. ASSUME NEW t, NEW q, Arrive(t, q) PROVE now' = now
  BY <1>2 DEF Arrive, vars
<1>3. ASSUME NEW t, register_machine_handler(t) PROVE now' = now
  BY <1>3 DEF register_machine_handler, register_machine, vars
<1>4. ASSUME NEW t, add_claim_handler(t) PROVE now' = now
  BY <1>4 DEF add_claim_handler, add_claim, Insert, vars
<1>5. ASSUME NEW t, Delegate(t) PROVE now' = now
  BY <1>5 DEF Delegate, delegate, Insert, vars
<1>6. CASE UNCHANGED allVars
  BY <1>6 DEF allVars, vars
<1> QED BY <1>1, <1>2, <1>3, <1>4, <1>5, <1>6 DEF ServiceNext, ServiceStep, Handle

\* A thread whose request, view and verdict stand.
LEMMA JudgedKept ==
    ASSUME VInv, Records, NEW t \in Threads, Observe, now' = now,
           at'[t] = at[t] \/ at'[t] # "handler",
           req'[t] = req[t], verdict'[t] = verdict[t],
           at'[t] = "handler" => view'[t] = view[t]
    PROVE  Judged(t)'
<1>1. req[t] # NoRequest /\ req[t].kind = "verify" => truth[t] \subseteq truth'[t]
  BY DEF Observe, SeeVerdicts
<1>2. at[t] = "handler" => req[t] # NoRequest
  BY DEF Records
<1> QED BY <1>1, <1>2 DEF VInv, Judged

LEMMA RespondJudged ==
    ASSUME Records, NEW t \in Threads, NEW s, Respond(t, s)
    PROVE  /\ Judged(t)'
           /\ \A u \in Threads : u # t => /\ at'[u] = at[u] /\ view'[u] = view[u]
                                         /\ verdict'[u] = verdict[u] /\ req'[u] = req[u]
BY DEF Respond, Go, Judged, Records

\* The snapshot that a request is given is the registry, whose index is its list.
LEMMA ArriveJudged ==
    ASSUME VInv, Agreement, Records, NEW t \in Threads, NEW q \in Requests, Arrive(t, q), Observe
    PROVE  Judged(t)'
<1>1. /\ req'[t] = q /\ view'[t] = get_verifier /\ verdict'[t] = verdict[t] /\ UNCHANGED vars
      /\ req[t] = NoRequest /\ q # NoRequest
  BY RequestsAssumption DEF Arrive, Records
<1>2. Frozen = LiveView
  BY DEF Frozen, LiveView, Agreement, IndexConsistent
<1>3. LiveView' = LiveView /\ now' = now
  BY <1>1 DEF LiveView, vars
<1>4. q.kind = "verify" => verify(LiveView, q.action, now).permitted \in truth'[t]
  BY <1>1, <1>3 DEF Observe, SeeVerdicts, LiveVerdict
<1>5. view'[t].gate = LiveView
  BY <1>1, <1>2 DEF get_verifier
<1>6. verdict[t] = NoRequest
  BY <1>1 DEF VInv, Judged
<1> QED BY <1>1, <1>3, <1>4, <1>5, <1>6 DEF Judged

LEMMA VInvNext == VInv /\ Agreement /\ Records /\ [ServiceNext]_allVars => VInv'
<1> SUFFICES ASSUME VInv, Agreement, Records, [ServiceNext]_allVars PROVE VInv'
  OBVIOUS
<1>0. now' = now
  BY TimeStands
<1>1. CASE UNCHANGED allVars
  BY <1>0, <1>1 DEF allVars, service, VInv, Judged
<1>2. CASE ServiceNext
  <2>0. Observe /\ DOMAIN truth' = Threads
    BY <1>2 DEF ServiceNext, Observe, SeeVerdicts
  <2> SUFFICES \A t \in Threads : Judged(t)'
    BY <2>0 DEF VInv
  \* A step of t that leaves the records of the others alone.
  <2>1. ASSUME NEW t \in Threads, Judged(t)',
               \A u \in Threads : u # t => /\ at'[u] = at[u] /\ view'[u] = view[u]
                                          /\ verdict'[u] = verdict[u] /\ req'[u] = req[u]
        PROVE  \A u \in Threads : Judged(u)'
    BY <1>0, <2>0, <2>1, JudgedKept
  <2>2. ASSUME NEW t \in Threads, NEW s, Respond(t, s) PROVE \A u \in Threads : Judged(u)'
    BY <2>1, <2>2, RespondJudged
  <2>3. ASSUME NEW t \in Threads, NEW q \in Requests, Arrive(t, q) PROVE \A u \in Threads : Judged(u)'
    <3>1. \A u \in Threads : u # t => /\ at'[u] = at[u] /\ view'[u] = view[u]
                                     /\ verdict'[u] = verdict[u] /\ req'[u] = req[u]
      BY <2>3 DEF Arrive, Go, Records
    <3> QED BY <2>0, <2>1, <2>3, <3>1, ArriveJudged
  <2>4. ASSUME NEW t \in Threads, NEW s, s # "handler", Go(t, s), UNCHANGED <<req, verdict>>,
               \A u \in Threads : u # t => view'[u] = view[u]
        PROVE  \A u \in Threads : Judged(u)'
    <3>1. at'[t] # "handler" /\ \A u \in Threads : u # t => at'[u] = at[u]
      BY <2>4, GoEffect
    <3> QED BY <1>0, <2>0, <2>1, <2>4, <3>1, JudgedKept
  <2>5. ASSUME NEW t \in Threads, Decide(t) PROVE \A u \in Threads : Judged(u)'
    <3>1. /\ at[t] = "handler" /\ req[t] # NoRequest /\ req[t].kind = "verify"
          /\ verdict'[t] = verify(view[t].gate, req[t].action, now) /\ at'[t] = "decided" /\ req'[t] = req[t]
          /\ \A u \in Threads : u # t => /\ at'[u] = at[u] /\ view'[u] = view[u]
                                        /\ verdict'[u] = verdict[u] /\ req'[u] = req[u]
      BY <2>5 DEF Decide, In, Go, Records
    <3>2. truth[t] \subseteq truth'[t]
      BY <2>0, <3>1 DEF Observe, SeeVerdicts
    <3>3. Judged(t)'
      BY <3>1, <3>2 DEF VInv, Judged
    <3> QED BY <2>1, <3>1, <3>3
  <2>6. ASSUME NEW t \in Threads, register_machine_handler(t) \/ add_claim_handler(t) \/ Delegate(t)
                                  \/ resolve_conflict(t) \/ WriteCounter(t)
        PROVE  \A u \in Threads : Judged(u)'
    BY <2>2, <2>6 DEF register_machine_handler, add_claim_handler, Delegate, resolve_conflict, WriteCounter
  <2>7. ASSUME NEW t \in Threads, LookUpOwner(t) PROVE \A u \in Threads : Judged(u)'
    <3>1. PICK o, s : \/ Respond(t, "422")
                      \/ /\ view' = [view EXCEPT ![t] = o] /\ Go(t, s) /\ s # "handler"
                         /\ UNCHANGED <<req, verdict>>
      <4>1. "owner known" # "handler"
        OBVIOUS
      <4> QED BY <2>7, <4>1 DEF LookUpOwner
    <3>2. CASE /\ view' = [view EXCEPT ![t] = o] /\ Go(t, s) /\ s # "handler"
               /\ UNCHANGED <<req, verdict>>
      BY <2>4, <3>2
    <3> QED BY <2>2, <3>1, <3>2
  <2>8. ASSUME NEW t \in Threads, Record(t) \/ CopyHooks(t) \/ on_event(t)
        PROVE  \A u \in Threads : Judged(u)'
    <3>1. \/ \E s : Respond(t, s)
          \/ /\ Go(t, "recorded") \/ Go(t, "emitting") \/ Go(t, "emitted")
             /\ UNCHANGED <<req, view, verdict>>
      BY <2>8 DEF Record, CopyHooks, on_event
    <3> QED BY <2>2, <2>4, <3>1
  <2>9. ASSUME NEW t \in Threads, ReadCounter(t) PROVE \A u \in Threads : Judged(u)'
    BY <2>4, <2>9 DEF ReadCounter
  <2>10. CASE ToggleHook
    BY <1>0, <2>0, <2>10, JudgedKept DEF ToggleHook
  <2> QED BY <1>2, <2>3, <2>5, <2>6, <2>7, <2>8, <2>9, <2>10 DEF ServiceNext, ServiceStep, Handle
<1> QED BY <1>1, <1>2

\* A verdict was the live registry's at some moment between the arrival of the
\* request and its answer, whatever claims, delegations and registrations of
\* other threads came between the snapshot and the decision.
THEOREM VerdictAlwaysCurrent == ServiceSpec => []VerdictWasCurrent
<1>1. FInv => Records
  BY DEF FInv
<1>2. RInv => Agreement
  BY DEF RInv
<1>3. VInv => VerdictWasCurrent
  BY DEF VInv, Judged, VerdictWasCurrent
<1> QED BY <1>1, <1>2, <1>3, FInvInit, FInvNext, RInvInit, RInvNext, VInvInit, VInvNext, PTL DEF ServiceSpec

===============================================================================
