---------------------------- MODULE AuditLogProofs ----------------------------
(***************************************************************************)
(* For any number of threads, results, crashes and any window: until an    *)
(* append raises, or a process that restarts ignores its file, the file is *)
(* one chain from the genesis hash; every decision that was recorded is on *)
(* it once, and what is in memory is its newest part.                      *)
(***************************************************************************)
EXTENDS AuditLog, FiniteSetTheorems, SequenceTheorems, TLAPS

\* An entry that links to tip h.
LinkedTo(e, h) ==
    /\ e.prev_hash = h
    /\ e.entry_hash = _compute_hash(e)

\* What a process that is down, or between two calls, or under the lock, knows
\* of the end of the file.
TipFollowsFile ==
    /\ ~up => _last_hash = GENESIS_HASH
    /\ up /\ _lock = Nobody => _last_hash = head_hash(file)
    /\ \A t \in Threads :
          _lock = t => /\ LinkedTo(entry[t], head_hash(file))
                       /\ _last_hash = entry[t].entry_hash

Shape ==
    /\ entry \in [Threads -> {entry[t] : t \in Threads}]
    /\ _lock \in Threads \cup {Nobody}
    /\ _lock \in Threads => up /\ Recording(_lock)
    /\ faulty \in BOOLEAN
    /\ \E S : file \in Seq(S)

\* The inductive invariant: the chain, and where the tip stands.
IInv == Shape /\ (~faulty => TipFollowsFile) /\ FileChainIntact

\* An entry linked to the head of an intact chain extends it.
LEMMA AppendIntact ==
    ASSUME NEW S, NEW s \in Seq(S), NEW e,
           LinkedTo(e, head_hash(s)), chain_errors(s) = {}
    PROVE  /\ chain_errors(Append(s, e)) = {}
           /\ head_hash(Append(s, e)) = e.entry_hash
<1>1. PICK T : s \in Seq(T) /\ e \in T
  <2>1. s \in Seq(S \cup {e})
    OBVIOUS
  <2> QED BY <2>1
<1>2. /\ Append(s, e) \in Seq(T)
      /\ DOMAIN Append(s, e) = 1 .. Len(s) + 1
      /\ \A i \in 1 .. Len(s) : Append(s, e)[i] = s[i]
      /\ Append(s, e)[Len(s) + 1] = e
      /\ Len(Append(s, e)) = Len(s) + 1
      /\ DOMAIN s = 1 .. Len(s)
      /\ Len(s) \in Nat
  BY <1>1
<1>3. ASSUME NEW i \in DOMAIN Append(s, e)
      PROVE  i \notin chain_errors(Append(s, e))
  <2>1. CASE i \in DOMAIN s
    <3>1. /\ s[i].entry_hash = _compute_hash(s[i])
          /\ s[i].prev_hash = (IF i = 1 THEN GENESIS_HASH ELSE s[i - 1].entry_hash)
      BY <2>1 DEF chain_errors, Broken
    <3>2. i # 1 => i - 1 \in 1 .. Len(s)
      BY <1>2, <2>1
    <3>3. Append(s, e)[i] = s[i] /\ (i # 1 => Append(s, e)[i - 1] = s[i - 1])
      BY <1>2, <2>1, <3>2
    <3> QED BY <3>1, <3>3 DEF chain_errors, Broken
  <2>2. CASE i = Len(s) + 1
    <3>1. e.prev_hash = IF i = 1 THEN GENESIS_HASH ELSE Append(s, e)[i - 1].entry_hash
      <4>1. CASE s = << >>
        <5>1. Len(s) = 0
          BY <4>1
        <5> QED BY <2>2, <4>1, <5>1 DEF LinkedTo, head_hash
      <4>2. CASE s # << >>
        <5>1. Len(s) # 0
          BY <4>2
        <5>2. i # 1 /\ i - 1 = Len(s) /\ i - 1 \in 1 .. Len(s)
          BY <1>2, <2>2, <5>1
        <5> QED BY <1>2, <4>2, <5>2 DEF LinkedTo, head_hash
      <4> QED BY <4>1, <4>2
    <3> QED BY <1>2, <2>2, <3>1 DEF LinkedTo, chain_errors, Broken
  <2> QED BY <1>2, <2>1, <2>2
<1>4. chain_errors(Append(s, e)) \subseteq DOMAIN Append(s, e)
  BY DEF chain_errors, Broken
<1>5. head_hash(Append(s, e)) = e.entry_hash
  <2>1. Len(<< >>) = 0
    OBVIOUS
  <2>2. Append(s, e) # << >>
    BY <1>2, <2>1
  <2> QED BY <1>2, <2>2 DEF head_hash
<1> QED BY <1>2, <1>3, <1>4, <1>5

LEMMA EmptyIntact == chain_errors(<< >>) = {} /\ head_hash(<< >>) = GENESIS_HASH
BY DEF chain_errors, Broken, head_hash

LEMMA IInvInit == Init => IInv
<1> SUFFICES ASSUME Init PROVE IInv
  OBVIOUS
<1>1. file \in Seq({GENESIS_HASH})
  BY DEF Init
<1>2. Shape
  BY <1>1, NobodyAssumption DEF Init, Shape
<1> QED BY <1>2, EmptyIntact, NobodyAssumption DEF Init, IInv, TipFollowsFile, FileChainIntact

LEMMA IInvNext == IInv /\ [Next]_vars => IInv'
<1> SUFFICES ASSUME IInv, [Next]_vars PROVE IInv'
  OBVIOUS
<1> USE NobodyAssumption DEF IInv
<1>1. ASSUME NEW t \in Threads, NEW r \in Results, Build(t, r) PROVE IInv'
  <2>1. _lock # t
    BY <1>1 DEF Build, Shape, TipFollowsFile, Recording
  <2>2. UNCHANGED <<up, _last_hash, _lock, file, faulty>>
    BY <1>1 DEF Build, memory
  <2>3. \A u \in Threads : u # t => entry'[u] = entry[u]
    BY <1>1 DEF Build, Shape
  <2>4. Shape'
    BY <1>1, <2>1, <2>2 DEF Build, Shape, Recording
  <2> QED BY <2>1, <2>2, <2>3, <2>4
      DEF TipFollowsFile, FileChainIntact, LinkedTo, _compute_hash, head_hash, chain_errors, Broken
<1>2. ASSUME NEW t \in Threads, Link(t) PROVE IInv'
  <2>1. PICK linked : linked = [ts |-> entry[t].ts, action_id |-> entry[t].action_id,
                                prev_hash |-> _last_hash]
    OBVIOUS
  <2>2. PICK e : e = [ts |-> linked.ts, action_id |-> linked.action_id,
                      prev_hash |-> linked.prev_hash, entry_hash |-> _compute_hash(linked)]
    OBVIOUS
  <2>3. /\ entry' = [entry EXCEPT ![t] = e] /\ _last_hash' = e.entry_hash
        /\ _lock' = t /\ up /\ _lock = Nobody /\ UNCHANGED <<up, file, faulty>>
    BY <1>2, <2>1, <2>2 DEF Link, history
  <2>4. ~faulty => LinkedTo(e, head_hash(file))
    BY <2>1, <2>2, <2>3 DEF LinkedTo, _compute_hash, TipFollowsFile
  <2>5. entry'[t] = e
    BY <2>3 DEF Shape
  <2>6. Shape'
    <3>1. e # << >>
      BY <2>2
    <3> QED BY <2>3, <2>5, <3>1 DEF Shape, Recording
  <2>7. (~faulty => TipFollowsFile)'
    BY <2>3, <2>4, <2>5 DEF TipFollowsFile, LinkedTo, _compute_hash, head_hash
  <2> QED BY <2>3, <2>6, <2>7 DEF FileChainIntact, chain_errors, Broken, _compute_hash
<1>3. ASSUME NEW t \in Threads, Write(t) PROVE IInv'
  <2>1. /\ _lock = t /\ _lock' = Nobody /\ file' = Append(file, entry[t])
        /\ entry' = [entry EXCEPT ![t] = << >>] /\ UNCHANGED <<up, _last_hash, faulty>>
    BY <1>3 DEF Write, Linked
  <2>2. PICK S : file \in Seq(S)
    BY DEF Shape
  <2>3. PICK s, e : s = file /\ e = entry[t]
    OBVIOUS
  <2>4. file' = Append(s, e)
    BY <2>1, <2>3
  <2>5. Shape'
    <3>1. s \in Seq(S \cup {e}) /\ e \in S \cup {e}
      BY <2>2, <2>3
    <3>2. Append(s, e) \in Seq(S \cup {e})
      BY <3>1
    <3> QED BY <2>1, <2>4, <3>2 DEF Shape
  <2>6. CASE faulty
    BY <2>1, <2>5, <2>6 DEF FileChainIntact
  <2>7. CASE ~faulty
    <3>1. /\ LinkedTo(e, head_hash(s)) /\ _last_hash = e.entry_hash /\ up
          /\ chain_errors(s) = {} /\ s \in Seq(S)
      BY <2>1, <2>2, <2>3, <2>7 DEF TipFollowsFile, FileChainIntact, Shape
    <3>2. /\ chain_errors(Append(s, e)) = {}
          /\ head_hash(Append(s, e)) = e.entry_hash
      BY <3>1, AppendIntact
    <3>3. FileChainIntact'
      BY <2>4, <3>2 DEF FileChainIntact, chain_errors, Broken, _compute_hash
    <3>4. head_hash(file)' = e.entry_hash
      BY <2>4, <3>2 DEF head_hash
    <3>5. TipFollowsFile'
      BY <2>1, <3>1, <3>4 DEF TipFollowsFile
    <3> QED BY <2>5, <3>3, <3>5
  <2> QED BY <2>6, <2>7
<1>4. ASSUME NEW t \in Threads, WriteFails(t) PROVE IInv'
  <2>1. /\ _lock' = Nobody /\ faulty' = TRUE /\ file' = file
        /\ entry' = [entry EXCEPT ![t] = << >>]
    BY <1>4 DEF WriteFails
  <2>2. Shape'
    BY <2>1 DEF Shape
  <2> QED BY <2>1, <2>2 DEF FileChainIntact
<1>5. CASE Crash
  <2>1. /\ ~up' /\ _last_hash' = GENESIS_HASH /\ _lock' = Nobody /\ file' = file /\ faulty' = faulty
        /\ entry' = [t \in Threads |-> << >>]
    BY <1>5 DEF Crash
  <2>2. Shape'
    BY <2>1 DEF Shape
  <2> QED BY <2>1, <2>2 DEF TipFollowsFile, FileChainIntact, chain_errors, Broken, _compute_hash
<1>6. CASE load_from_file
  <2>1. /\ ~up /\ up' /\ _last_hash' = head_hash(file) /\ UNCHANGED <<_lock, entry, file, faulty>>
    BY <1>6 DEF load_from_file, history
  <2>2. _lock = Nobody
    BY <2>1 DEF Shape
  <2>3. Shape'
    BY <2>1, <2>2 DEF Shape
  <2> QED BY <2>1, <2>2, <2>3
      DEF TipFollowsFile, FileChainIntact, chain_errors, Broken, _compute_hash, head_hash
<1>7. CASE NewLog
  <2>1. /\ ~up /\ up' /\ faulty' = (faulty \/ file # << >>)
        /\ UNCHANGED <<_last_hash, _lock, entry, file>>
    BY <1>7 DEF NewLog
  <2>2. _lock = Nobody
    BY <2>1 DEF Shape
  <2>3. Shape'
    BY <2>1, <2>2 DEF Shape
  <2> QED BY <2>1, <2>2, <2>3
      DEF TipFollowsFile, FileChainIntact, chain_errors, Broken, _compute_hash, head_hash
<1>8. ASSUME UNCHANGED <<up, _last_hash, _lock, entry, file, faulty>> PROVE IInv'
  <2>1. Shape'
    BY <1>8 DEF Shape, Recording
  <2>2. (~faulty => TipFollowsFile)'
    BY <1>8 DEF TipFollowsFile, LinkedTo, _compute_hash, head_hash
  <2> QED BY <1>8, <2>1, <2>2 DEF FileChainIntact, chain_errors, Broken, _compute_hash
<1>9. Tick \/ UNCHANGED vars => UNCHANGED <<up, _last_hash, _lock, entry, file, faulty>>
  BY DEF Tick, vars, memory, history
<1> QED BY <1>1, <1>2, <1>3, <1>4, <1>5, <1>6, <1>7, <1>8, <1>9 DEF Next, Step

\* audit.py:8-9: concurrent appends, rotations, crashes and reloads leave one
\* chain from the genesis hash, whatever the number of threads and entries.
THEOREM FileChainAlwaysIntact == Spec => []FileChainIntact
<1>1. IInv => FileChainIntact
  BY DEF IInv
<1>2. IInv /\ [Next]_vars => IInv'
  BY IInvNext
<1> QED BY <1>1, <1>2, IInvInit, PTL DEF Spec

-------------------------------------------------------------------------------
(* What is on the file *)

\* A result that is being recorded is on no line and recorded by one thread;
\* one that was recorded is on one line.
Ids ==
    /\ \A i \in DOMAIN file : file[i].action_id \in started
    /\ \A i, j \in DOMAIN file : file[i].action_id = file[j].action_id => i = j
    /\ \A r \in returned : \E i \in DOMAIN file : file[i].action_id = r
    /\ \A t \in Threads : Recording(t) =>
          /\ entry[t].action_id \in started
          /\ \A i \in DOMAIN file : file[i].action_id # entry[t].action_id
          /\ \A u \in Threads : Recording(u) /\ entry[u].action_id = entry[t].action_id => u = t

LEMMA IdsInit == Init => Ids
BY DEF Init, Ids, Recording

LEMMA IdsNext == IInv /\ Ids /\ [Next]_vars => Ids'
<1> SUFFICES ASSUME IInv, Ids, [Next]_vars PROVE Ids'
  OBVIOUS
<1>0. DOMAIN entry = Threads
  BY DEF IInv, Shape
<1>1. ASSUME NEW t \in Threads, NEW r \in Results, Build(t, r) PROVE Ids'
  <2>1. PICK e : e = [ts |-> now, action_id |-> r]
    OBVIOUS
  <2>2. /\ ~Recording(t) /\ r \notin started /\ started' = started \cup {r} /\ UNCHANGED <<file, returned>>
        /\ entry' = [entry EXCEPT ![t] = e]
    BY <1>1, <2>1 DEF Build
  <2>3. entry'[t] = e /\ e.action_id = r /\ \A u \in Threads : u # t => entry'[u] = entry[u]
    BY <1>0, <2>1, <2>2
  <2> QED BY <2>2, <2>3 DEF Ids, Recording
<1>2. ASSUME NEW t \in Threads, Link(t) PROVE Ids'
  <2>1. PICK linked : linked = [ts |-> entry[t].ts, action_id |-> entry[t].action_id,
                                prev_hash |-> _last_hash]
    OBVIOUS
  <2>2. PICK e : e = [ts |-> linked.ts, action_id |-> linked.action_id,
                      prev_hash |-> linked.prev_hash, entry_hash |-> _compute_hash(linked)]
    OBVIOUS
  <2>3. /\ Recording(t) /\ UNCHANGED <<file, started, returned>> /\ entry' = [entry EXCEPT ![t] = e]
    BY <1>2, <2>1, <2>2 DEF Link, history
  <2>4. entry'[t] = e /\ e.action_id = entry[t].action_id /\ \A u \in Threads : u # t => entry'[u] = entry[u]
    BY <1>0, <2>1, <2>2, <2>3
  <2> QED BY <2>3, <2>4 DEF Ids, Recording
<1>3. ASSUME NEW t \in Threads, Write(t) PROVE Ids'
  <2>1. /\ _lock = t /\ file' = Append(file, entry[t]) /\ entry' = [entry EXCEPT ![t] = << >>]
        /\ returned' = returned \cup {entry[t].action_id} /\ UNCHANGED started
    BY <1>3 DEF Write, Linked
  <2>2. PICK e, n : e = entry[t] /\ n = Len(file)
    OBVIOUS
  <2>3. Recording(t)
    BY <2>1 DEF IInv, Shape
  <2>4. /\ DOMAIN file = 1 .. n /\ n \in Nat /\ DOMAIN file' = 1 .. n + 1
        /\ file'[n + 1] = e /\ \A i \in 1 .. n : file'[i] = file[i]
    <3>1. PICK S : file \in Seq(S) /\ e \in S
      <4>1. PICK T : file \in Seq(T)
        BY DEF IInv, Shape
      <4>2. file \in Seq(T \cup {e})
        BY <4>1
      <4> QED BY <4>2
    <3> QED BY <2>1, <2>2, <3>1
  <2>5. /\ ~Recording(t)' /\ \A u \in Threads : u # t => entry'[u] = entry[u]
    BY <1>0, <2>1 DEF Recording
  <2>6. /\ e.action_id \in started /\ \A i \in 1 .. n : file[i].action_id # e.action_id
        /\ \A u \in Threads : u # t /\ Recording(u) => entry[u].action_id # e.action_id
    BY <2>2, <2>3, <2>4 DEF Ids
  <2>7. \A i \in DOMAIN file' : i \in 1 .. n \/ i = n + 1
    BY <2>4
  <2>8. n + 1 \in DOMAIN file'
    BY <2>4
  <2>9. \A i \in DOMAIN file' : file'[i].action_id \in started'
    BY <2>1, <2>4, <2>6, <2>7 DEF Ids
  <2>10. \A i, j \in DOMAIN file' : file'[i].action_id = file'[j].action_id => i = j
    BY <2>4, <2>6, <2>7 DEF Ids
  <2>11. \A r \in returned' : \E i \in DOMAIN file' : file'[i].action_id = r
    <3>1. ASSUME NEW r \in returned PROVE \E i \in DOMAIN file' : file'[i].action_id = r
      <4>1. PICK i \in DOMAIN file : file[i].action_id = r
        BY DEF Ids
      <4>2. i \in DOMAIN file' /\ file'[i] = file[i]
        BY <2>4
      <4> QED BY <4>1, <4>2
    <3> QED BY <2>1, <2>2, <2>4, <2>8, <3>1
  <2>12. ASSUME NEW u \in Threads, Recording(u)'
         PROVE  /\ entry'[u].action_id \in started'
                /\ \A i \in DOMAIN file' : file'[i].action_id # entry'[u].action_id
                /\ \A v \in Threads : Recording(v)' /\ entry'[v].action_id = entry'[u].action_id => v = u
    <3>1. u # t /\ Recording(u) /\ entry'[u] = entry[u]
      BY <2>5, <2>12 DEF Recording
    <3>2. \A v \in Threads : Recording(v)' => Recording(v) /\ entry'[v] = entry[v]
      BY <2>5 DEF Recording
    <3> QED BY <2>1, <2>4, <2>6, <2>7, <3>1, <3>2 DEF Ids
  <2> QED BY <2>9, <2>10, <2>11, <2>12 DEF Ids
<1>4. ASSUME NEW t \in Threads, WriteFails(t) PROVE Ids'
  <2>1. UNCHANGED <<file, started, returned>> /\ entry' = [entry EXCEPT ![t] = << >>]
    BY <1>4 DEF WriteFails
  <2>2. ~Recording(t)' /\ \A u \in Threads : u # t => entry'[u] = entry[u]
    BY <1>0, <2>1 DEF Recording
  <2> QED BY <2>1, <2>2 DEF Ids, Recording
<1>5. CASE Crash
  BY <1>5 DEF Crash, Ids, Recording
<1>6. CASE UNCHANGED <<entry, file, started, returned>>
  BY <1>6 DEF Ids, Recording
<1>7. load_from_file \/ NewLog \/ Tick \/ UNCHANGED vars => UNCHANGED <<entry, file, started, returned>>
  BY DEF load_from_file, NewLog, Tick, vars, history
<1> QED BY <1>1, <1>2, <1>3, <1>4, <1>5, <1>6, <1>7 DEF Next, Step

-------------------------------------------------------------------------------
(* The window *)

\* The first n entries of s are the newest n of f, no more than limit and some
\* if there are any.
NewestPart(s, n, f, limit) ==
    /\ n <= Len(f)
    /\ \A i \in 1 .. n : s[i] = f[i + (Len(f) - n)]
    /\ limit # Unbounded => n <= limit
    /\ f # << >> => n > 0

\* Under the lock one entry stands behind the window that the file lacks.
Window ==
    /\ \E S : file \in Seq(S) /\ _records \in Seq(S)
    /\ max_entries = Unbounded \/ max_entries \in Nat \ {0}
    /\ ~up => _records = << >> /\ max_entries = Unbounded
    /\ ~faulty /\ up /\ _lock = Nobody => NewestPart(_records, Len(_records), file, max_entries)
    /\ ~faulty => \A t \in Threads : _lock = t =>
          /\ Len(_records) > 0 /\ _records[Len(_records)] = entry[t]
          /\ NewestPart(_records, Len(_records) - 1, file, max_entries)

LEMMA WindowInit == Init => Window
<1> SUFFICES ASSUME Init PROVE Window
  OBVIOUS
<1>1. file = << >> /\ _records = << >> /\ Len(_records) = 0
  BY DEF Init
<1>2. file \in Seq({Nobody}) /\ _records \in Seq({Nobody})
  BY <1>1
<1> QED BY <1>1, <1>2, NobodyAssumption, LimitAssumption DEF Init, Window, NewestPart

\* A step that leaves the file alone, and entry of the lock's holder, and memory.
LEMMA WindowStands ==
    ASSUME Window, UNCHANGED <<up, max_entries, _records, _lock, file>>, faulty' = faulty,
           \A t \in Threads : _lock = t => entry'[t] = entry[t]
    PROVE  Window'
BY DEF Window, NewestPart

LEMMA LinkWindow ==
    ASSUME IInv, Window, NEW t \in Threads, Link(t)
    PROVE  Window'
<1>1. PICK e : /\ entry' = [entry EXCEPT ![t] = e] /\ _records' = Append(_records, e) /\ _lock' = t
               /\ up /\ _lock = Nobody /\ UNCHANGED <<up, max_entries, file, faulty>>
  BY DEF Link, history
<1>2. PICK S : file \in Seq(S) /\ _records \in Seq(S) /\ e \in S
  <2>1. PICK T : file \in Seq(T) /\ _records \in Seq(T)
    BY DEF Window
  <2>2. file \in Seq(T \cup {e}) /\ _records \in Seq(T \cup {e})
    BY <2>1
  <2> QED BY <2>2
<1>3. /\ _records' \in Seq(S) /\ Len(_records') = Len(_records) + 1 /\ Len(_records) \in Nat
      /\ _records'[Len(_records')] = e /\ \A i \in 1 .. Len(_records) : _records'[i] = _records[i]
      /\ Len(_records') - 1 = Len(_records)
  BY <1>1, <1>2
<1>4. entry'[t] = e
  BY <1>1 DEF IInv, Shape
<1>5. ~faulty => NewestPart(_records', Len(_records') - 1, file', max_entries')
  BY <1>1, <1>3 DEF Window, NewestPart
<1>6. \E T : file' \in Seq(T) /\ _records' \in Seq(T)
  BY <1>1, <1>2, <1>3
<1>7. t # Nobody /\ \A u \in Threads : _lock' = u => u = t
  BY <1>1, NobodyAssumption
<1> QED BY <1>1, <1>3, <1>4, <1>5, <1>6, <1>7 DEF Window

\* The window after the line is written: what was in memory, or all but its
\* oldest entry.
LEMMA RotatedIsNewest ==
    ASSUME NEW S, _records \in Seq(S), max_entries = Unbounded \/ max_entries \in Nat \ {0}
    PROVE  /\ Rotated(_records) \in Seq(S)
           /\ max_entries # Unbounded /\ Len(_records) = max_entries + 1 =>
                /\ Len(Rotated(_records)) = max_entries
                /\ \A i \in 1 .. max_entries : Rotated(_records)[i] = _records[i + 1]
           /\ max_entries # Unbounded => Len(_records) <= max_entries \/ Len(_records) > max_entries
           /\ max_entries = Unbounded \/ Len(_records) <= max_entries => Rotated(_records) = _records
<1>1. CASE max_entries # Unbounded /\ Len(_records) > max_entries
  <2>1. PICK L, m, n : /\ L = Len(_records) /\ m = L - max_entries + 1 /\ n = L
                       /\ L \in Nat /\ m \in Int /\ n \in Int /\ m >= 1 /\ m <= n
                       /\ max_entries \in Nat \ {0}
    BY <1>1
  <2>2. \A i \in m .. n : _records[i] \in S
    BY <2>1
  <2>3. /\ SubSeq(_records, m, n) \in Seq(S)
        /\ Len(SubSeq(_records, m, n)) = n - m + 1
        /\ \A i \in 1 .. n - m + 1 : SubSeq(_records, m, n)[i] = _records[m + i - 1]
    BY <2>1, <2>2, SubSeqProperties
  <2>4. Rotated(_records) = SubSeq(_records, m, n)
    BY <1>1, <2>1 DEF Rotated
  <2>5. n - m + 1 = max_entries /\ (L = max_entries + 1 => \A i \in 1 .. max_entries : m + i - 1 = i + 1)
    BY <2>1
  <2> QED BY <1>1, <2>1, <2>3, <2>4, <2>5
<1>2. CASE max_entries # Unbounded /\ Len(_records) <= max_entries
  BY <1>2 DEF Rotated
<1>3. CASE max_entries = Unbounded
  BY <1>3 DEF Rotated
<1>4. max_entries # Unbounded => Len(_records) <= max_entries \/ Len(_records) > max_entries
  OBVIOUS
<1> QED BY <1>1, <1>2, <1>3, <1>4

LEMMA WriteWindow ==
    ASSUME IInv, Window, NEW t \in Threads, Write(t)
    PROVE  Window'
<1>1. PICK e : /\ e = entry[t] /\ _lock = t /\ _lock' = Nobody /\ file' = Append(file, e)
               /\ _records' = Rotated(_records) /\ UNCHANGED <<up, max_entries, faulty>>
  BY DEF Write, Linked
<1>2. PICK S : file \in Seq(S) /\ _records \in Seq(S) /\ e \in S
  <2>1. PICK T : file \in Seq(T) /\ _records \in Seq(T)
    BY DEF Window
  <2>2. file \in Seq(T \cup {e}) /\ _records \in Seq(T \cup {e})
    BY <2>1
  <2> QED BY <2>2
<1>3. PICK F, L : F = Len(file) /\ L = Len(_records) /\ F \in Nat /\ L \in Nat
  <2>1. Len(file) \in Nat /\ Len(_records) \in Nat
    BY <1>2
  <2> QED BY <2>1
<1>4. /\ file' \in Seq(S) /\ Len(file') = F + 1 /\ file'[F + 1] = e /\ \A i \in 1 .. F : file'[i] = file[i]
  BY <1>1, <1>2, <1>3
<1>5. _records' \in Seq(S) /\ (max_entries = Unbounded \/ max_entries \in Nat \ {0})
  BY <1>1, <1>2, RotatedIsNewest DEF Window
<1>6. up /\ \A u \in Threads : u # _lock'
  BY <1>1, NobodyAssumption DEF IInv, Shape
<1>7. ASSUME ~faulty PROVE NewestPart(_records', Len(_records'), file', max_entries')
  <2>1. /\ L > 0 /\ _records[L] = e /\ L - 1 <= F
        /\ \A i \in 1 .. L - 1 : _records[i] = file[i + (F - (L - 1))]
        /\ max_entries # Unbounded => L - 1 <= max_entries
    BY <1>1, <1>3, <1>7 DEF Window, NewestPart
  <2>2. \A i \in 1 .. L : _records[i] = file'[i + (F + 1 - L)]
    <3> SUFFICES ASSUME NEW i \in 1 .. L PROVE _records[i] = file'[i + (F + 1 - L)]
      OBVIOUS
    <3>1. CASE i = L
      <4>1. i + (F + 1 - L) = F + 1
        BY <1>3, <3>1
      <4> QED BY <1>4, <2>1, <3>1, <4>1
    <3>2. CASE i \in 1 .. L - 1
      <4>1. i + (F - (L - 1)) = i + (F + 1 - L) /\ i + (F + 1 - L) \in 1 .. F
        BY <1>3, <2>1, <3>2
      <4> QED BY <1>4, <2>1, <3>2, <4>1
    <3> QED BY <1>3, <3>1, <3>2
  <2>3. CASE max_entries # Unbounded /\ L = max_entries + 1
    <3>1. /\ Len(_records') = max_entries /\ \A i \in 1 .. max_entries : _records'[i] = _records[i + 1]
      BY <1>1, <1>2, <1>3, <1>5, <2>3, RotatedIsNewest
    <3>2. \A i \in 1 .. max_entries : i + 1 \in 1 .. L /\ (i + 1) + (F + 1 - L) = i + (F + 1 - max_entries)
      BY <1>3, <1>5, <2>3
    <3>3. \A i \in 1 .. max_entries : _records'[i] = file'[i + (F + 1 - max_entries)]
      BY <2>2, <3>1, <3>2
    <3>4. max_entries <= F + 1 /\ max_entries > 0
      BY <1>3, <1>5, <2>1, <2>3
    <3>5. NewestPart(_records', max_entries, file', max_entries)
      <4>1. Len(file') - max_entries = F + 1 - max_entries /\ max_entries \in Nat
        BY <1>3, <1>4, <1>5, <2>3
      <4> QED BY <1>4, <3>3, <3>4, <4>1 DEF NewestPart
    <3> QED BY <1>1, <3>1, <3>5
  <2>4. CASE max_entries = Unbounded \/ L <= max_entries
    <3>1. _records' = _records
      BY <1>1, <1>2, <1>3, <1>5, <2>4, RotatedIsNewest
    <3>2. L <= F + 1 /\ L > 0
      BY <1>3, <2>1
    <3>3. NewestPart(_records, L, file', max_entries)
      <4>1. Len(file') - L = F + 1 - L
        BY <1>3, <1>4
      <4> QED BY <1>3, <1>4, <2>2, <2>4, <3>2, <4>1 DEF NewestPart
    <3> QED BY <1>1, <1>3, <3>1, <3>3
  <2> QED BY <1>3, <1>5, <2>1, <2>3, <2>4
<1>8. \E T : file' \in Seq(T) /\ _records' \in Seq(T)
  BY <1>4, <1>5
<1> QED BY <1>1, <1>5, <1>6, <1>7, <1>8 DEF Window

LEMMA WindowNext == IInv /\ Window /\ [Next]_vars => Window'
<1> SUFFICES ASSUME IInv, Window, [Next]_vars PROVE Window'
  OBVIOUS
<1>1. ASSUME NEW t \in Threads, NEW r \in Results, Build(t, r) PROVE Window'
  <2>1. /\ ~Recording(t) /\ UNCHANGED <<up, max_entries, _records, _lock, file, faulty>>
        /\ \A u \in Threads : u # t => entry'[u] = entry[u]
    BY <1>1 DEF Build, memory, IInv, Shape
  <2>2. _lock # t
    BY <2>1 DEF IInv, Shape
  <2> QED BY <2>1, <2>2, WindowStands
<1>2. ASSUME NEW t \in Threads, WriteFails(t) PROVE Window'
  <2>1. /\ _lock = t /\ faulty' /\ UNCHANGED <<up, max_entries, _records, file>>
    BY <1>2 DEF WriteFails, Linked, memory
  <2> QED BY <2>1 DEF Window, IInv, Shape
<1>3. CASE Crash
  <2>1. /\ ~up' /\ max_entries' = Unbounded /\ _records' = << >> /\ _lock' = Nobody /\ file' = file
    BY <1>3 DEF Crash
  <2>2. \E S : file' \in Seq(S) /\ _records' \in Seq(S)
    BY <2>1 DEF Window
  <2> QED BY <2>1, <2>2, NobodyAssumption DEF Window
<1>4. CASE load_from_file
  <2>1. /\ ~up /\ up' /\ _records' = file /\ file # << >>
        /\ UNCHANGED <<max_entries, _lock, file, faulty>>
    BY <1>4 DEF load_from_file, history
  <2>2. _lock = Nobody /\ max_entries = Unbounded
    BY <2>1 DEF IInv, Shape, Window
  <2>3. PICK S : file \in Seq(S)
    BY DEF Window
  <2>4. NewestPart(file, Len(file), file, Unbounded)
    <3>1. Len(file) \in Nat /\ Len(file) > 0
      BY <2>1, <2>3
    <3> QED BY <3>1 DEF NewestPart
  <2> QED BY <2>1, <2>2, <2>3, <2>4, NobodyAssumption DEF Window
<1>5. CASE NewLog
  <2>1. /\ ~up /\ up' /\ max_entries' = InitialLimit /\ faulty' = (faulty \/ file # << >>)
        /\ UNCHANGED <<_records, _lock, file>>
    BY <1>5 DEF NewLog
  <2>2. _lock = Nobody /\ _records = << >> /\ Len(_records) = 0
    BY <2>1 DEF IInv, Shape, Window
  <2>3. file = << >> => NewestPart(_records, Len(_records), file, InitialLimit)
    BY <2>2, LimitAssumption DEF NewestPart
  <2> QED BY <2>1, <2>2, <2>3, LimitAssumption, NobodyAssumption DEF Window
<1>6. Tick \/ UNCHANGED vars => UNCHANGED <<up, max_entries, _records, _lock, entry, file, faulty>>
  BY DEF Tick, vars, memory, history
<1>7. UNCHANGED <<up, max_entries, _records, _lock, entry, file, faulty>> => Window'
  BY WindowStands
<1> QED BY <1>1, <1>2, <1>3, <1>4, <1>5, <1>6, <1>7, LinkWindow, WriteWindow DEF Next, Step

\* A part of an intact chain is a chain.
LEMMA PartVerifies ==
    ASSUME NEW S, NEW f \in Seq(S), NEW s \in Seq(S), Len(s) <= Len(f), chain_errors(f) = {},
           \A i \in 1 .. Len(s) : s[i] = f[i + (Len(f) - Len(s))]
    PROVE  verify_chain(s)
<1>1. PICK k \in Nat, n \in Nat : n = Len(s) /\ k = Len(f) - n /\ Len(f) = k + n
  <2>1. Len(s) \in Nat /\ Len(f) \in Nat /\ Len(f) - Len(s) \in Nat
    OBVIOUS
  <2>2. Len(f) = (Len(f) - Len(s)) + Len(s)
    BY <2>1
  <2> QED BY <2>1, <2>2
<1>2. \A i \in 1 .. n : s[i] = f[i + k]
  BY <1>1
<1>3. ASSUME NEW i \in 1 .. n
      PROVE  /\ s[i].entry_hash = _compute_hash(s[i])
             /\ i # 1 => s[i].prev_hash = s[i - 1].entry_hash
  <2>1. i + k \in DOMAIN f
    BY <1>1
  <2>2. /\ f[i + k].entry_hash = _compute_hash(f[i + k])
        /\ f[i + k].prev_hash = (IF i + k = 1 THEN GENESIS_HASH ELSE f[i + k - 1].entry_hash)
    BY <2>1 DEF chain_errors, Broken
  <2>3. i # 1 => i + k # 1 /\ i - 1 \in 1 .. n /\ (i - 1) + k = i + k - 1
    BY <1>1
  <2> QED BY <1>2, <2>2, <2>3
<1>4. DOMAIN s = 1 .. n
  BY <1>1
<1> QED BY <1>3, <1>4 DEF verify_chain, Broken

LEMMA CompleteFromParts == IInv /\ Ids /\ Window => FileIsComplete
<1> SUFFICES ASSUME IInv, Ids, Window PROVE FileIsComplete
  OBVIOUS
<1>1. ASSUME NEW r \in returned
      PROVE  Cardinality({i \in DOMAIN file : file[i].action_id = r}) = 1
  <2>1. PICK i \in DOMAIN file : file[i].action_id = r
    BY DEF Ids
  <2>2. {j \in DOMAIN file : file[j].action_id = r} = {i}
    BY <2>1 DEF Ids
  <2> QED BY <2>2, FS_Singleton
<1>2. ASSUME up, _lock = Nobody, ~faulty
      PROVE  /\ Len(_records) <= Len(file)
             /\ _records = SubSeq(file, Len(file) - Len(_records) + 1, Len(file))
             /\ _last_hash = head_hash(file)
             /\ max_entries # Unbounded => Len(_records) <= max_entries
             /\ file # << >> => _records # << >>
             /\ verify_chain(_records)
  <2>1. PICK S : file \in Seq(S) /\ _records \in Seq(S)
    BY DEF Window
  <2>2. NewestPart(_records, Len(_records), file, max_entries)
    BY <1>2 DEF Window
  <2>3. PICK m \in Nat, n \in Nat : m = Len(file) /\ n = Len(_records) /\ n <= m
    <3>1. Len(file) \in Nat /\ Len(_records) \in Nat
      BY <2>1
    <3> QED BY <2>2, <3>1 DEF NewestPart
  <2>4. _records = SubSeq(file, m - n + 1, m)
    <3>1. \A i \in m - n + 1 .. m : file[i] \in S
      BY <2>1, <2>3
    <3>2. /\ SubSeq(file, m - n + 1, m) \in Seq(S)
          /\ Len(SubSeq(file, m - n + 1, m)) = n
          /\ \A i \in 1 .. n : SubSeq(file, m - n + 1, m)[i] = file[i + (m - n)]
      BY <2>1, <2>3, SubSeqProperties
    <3>3. \A i \in 1 .. n : _records[i] = SubSeq(file, m - n + 1, m)[i]
      BY <2>2, <2>3, <3>2 DEF NewestPart
    <3> QED BY <2>1, <2>3, <3>2, <3>3, SeqEqual
  <2>5. file # << >> => _records # << >>
    BY <2>2 DEF NewestPart
  <2>6. chain_errors(file) = {} /\ _last_hash = head_hash(file)
    BY <1>2 DEF IInv, FileChainIntact, TipFollowsFile
  <2>7. verify_chain(_records)
    BY <2>1, <2>2, <2>6, PartVerifies DEF NewestPart
  <2> QED BY <2>2, <2>3, <2>4, <2>5, <2>6, <2>7 DEF NewestPart
<1> QED BY <1>1, <1>2 DEF FileIsComplete, Ids

\* audit.py record, load_from_file: every decision whose record() returned is on
\* the file once, whatever number of threads race and whenever the process dies;
\* between two calls the window is the newest part of the file, whatever its
\* limit, and verifies on its own.
THEOREM FileAlwaysComplete == Spec => []FileIsComplete
<1>1. Init => IInv /\ Ids /\ Window
  BY IInvInit, IdsInit, WindowInit
<1>2. (IInv /\ Ids /\ Window) /\ [Next]_vars => (IInv /\ Ids /\ Window)'
  BY IInvNext, IdsNext, WindowNext
<1> QED BY <1>1, <1>2, CompleteFromParts, PTL DEF Spec

===============================================================================
