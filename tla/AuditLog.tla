------------------------------- MODULE AuditLog -------------------------------
(***************************************************************************)
(* The hash-chained audit log (kernel/audit.py) with its .jsonl file:      *)
(* threads that call record(), the lock, the window kept in memory, a      *)
(* write that fails, a process that dies and starts again.                 *)
(*                                                                         *)
(* record() reads the clock before it takes the lock; under the lock it    *)
(* first links the entry in memory and then appends one line to the file.  *)
(* The steps below are the points between which another thread, a crash or *)
(* an error can come.  A line reaches the file whole or not at all.        *)
(* SHA-256 is injective: the hash of an entry stands for the entry and,    *)
(* through its prev_hash, for everything before it.                        *)
(***************************************************************************)
EXTENDS Integers, Sequences, FiniteSets

CONSTANTS
    Threads,
    Results,       \* verification results, each recorded once (action ids)
    GENESIS_HASH,
    Nobody,        \* the lock is free
    Unbounded,     \* max_entries = None
    InitialLimit,  \* max_entries of the first AuditLog
    Opens,         \* how a process that starts opens the file: "load", "new"
    WritesFail,    \* whether the append to the file may raise
    MaxTime,       \* bound: the clock
    MaxCrashes     \* bound: crashes

ASSUME LimitAssumption == InitialLimit = Unbounded \/ InitialLimit \in Nat \ {0}
ASSUME OpensAssumption == Opens \subseteq {"load", "new"} /\ WritesFail \in BOOLEAN
ASSUME NobodyAssumption == Nobody \notin Threads
ASSUME BoundsAssumption == MaxTime \in Nat /\ MaxCrashes \in Nat

VARIABLES
    up,           \* whether the process runs
    max_entries, _records, _last_hash, _total_count,
    _lock,        \* the thread that holds it
    entry,        \* entry each thread is recording, << >> when it records none
    file,         \* lines of the file
    now,          \* time.time()
    started,      \* results handed to record()
    returned,     \* results whose record() returned
    faulty,       \* whether an append has raised, or a new log ignored a file
    crashes

vars == <<up, max_entries, _records, _last_hash, _total_count, _lock, entry,
          file, now, started, returned, faulty, crashes>>
memory == <<max_entries, _records, _last_hash, _total_count>>
history == <<started, returned, faulty, crashes>>

-------------------------------------------------------------------------------
(* Entries and chains *)

_compute_hash(e) == <<e.ts, e.action_id, e.prev_hash>>

\* Entries of s whose content or whose link to the entry before, first for the
\* first one, does not check.
Broken(s, first) ==
    {i \in DOMAIN s : \/ s[i].entry_hash # _compute_hash(s[i])
                      \/ s[i].prev_hash # (IF i = 1 THEN first ELSE s[i - 1].entry_hash)}

verify_chain(s) == s = << >> \/ Broken(s, s[1].prev_hash) = {}

chain_errors(s) == Broken(s, GENESIS_HASH)

head_hash(s) == IF s = << >> THEN GENESIS_HASH ELSE s[Len(s)].entry_hash

-------------------------------------------------------------------------------
(* record(result), thread t *)

Recording(t) == entry[t] # << >>

\* The thread is under the lock and has linked its entry.
Linked(t) == _lock = t /\ "prev_hash" \in DOMAIN entry[t]

\* The entry is built and stamped before the lock is taken.
Build(t, r) ==
    /\ up /\ ~Recording(t) /\ r \notin started
    /\ entry' = [entry EXCEPT ![t] = [ts |-> now, action_id |-> r]]
    /\ started' = started \cup {r}
    /\ UNCHANGED <<up, memory, _lock, file, now, returned, faulty, crashes>>

\* The lock is taken, the entry linked and appended in memory.
Link(t) ==
    /\ up /\ Recording(t) /\ _lock = Nobody
    /\ LET linked == [ts |-> entry[t].ts, action_id |-> entry[t].action_id,
                      prev_hash |-> _last_hash]
           e == [ts |-> linked.ts, action_id |-> linked.action_id,
                 prev_hash |-> linked.prev_hash, entry_hash |-> _compute_hash(linked)]
       IN  /\ entry' = [entry EXCEPT ![t] = e]
           /\ _last_hash' = e.entry_hash
           /\ _records' = Append(_records, e)
           /\ _total_count' = _total_count + 1
    /\ _lock' = t
    /\ UNCHANGED <<up, max_entries, file, now, history>>

\* Mutant: the window keeps its oldest entries.
Rotated_oldest(s) ==
    IF max_entries # Unbounded /\ Len(s) > max_entries THEN SubSeq(s, 1, max_entries) ELSE s

\* The window after rotation: its newest max_entries entries.
Rotated(s) ==
    IF max_entries # Unbounded /\ Len(s) > max_entries
    THEN SubSeq(s, Len(s) - max_entries + 1, Len(s)) ELSE s

\* Mutant: the entry leaves memory without having been written.
Write_dropped(t) ==
    /\ Linked(t)
    /\ file' = IF max_entries # Unbounded /\ Len(_records) > max_entries
               THEN file ELSE Append(file, entry[t])
    /\ _records' = Rotated(_records)
    /\ entry' = [entry EXCEPT ![t] = << >>]
    /\ returned' = returned \cup {entry[t].action_id}
    /\ _lock' = Nobody
    /\ UNCHANGED <<up, max_entries, _last_hash, _total_count, now, started, faulty, crashes>>

\* The line is appended, the window rotated, the lock released; record returns.
Write(t) ==
    /\ Linked(t)
    /\ file' = Append(file, entry[t])
    /\ _records' = Rotated(_records)
    /\ entry' = [entry EXCEPT ![t] = << >>]
    /\ returned' = returned \cup {entry[t].action_id}
    /\ _lock' = Nobody
    /\ UNCHANGED <<up, max_entries, _last_hash, _total_count, now, started, faulty, crashes>>

\* Mutant: the lock is taken and released by hand, and the release skipped.
WriteFails_lock_kept(t) ==
    /\ WritesFail /\ Linked(t)
    /\ entry' = [entry EXCEPT ![t] = << >>]
    /\ faulty' = TRUE
    /\ UNCHANGED <<up, memory, _lock, file, now, started, returned, crashes>>

\* The append raises: the lock is released, nothing done in memory is undone.
WriteFails(t) ==
    /\ WritesFail /\ Linked(t)
    /\ entry' = [entry EXCEPT ![t] = << >>]
    /\ _lock' = Nobody
    /\ faulty' = TRUE
    /\ UNCHANGED <<up, memory, file, now, started, returned, crashes>>

-------------------------------------------------------------------------------
(* The process and its file *)

Crash ==
    /\ up /\ crashes < MaxCrashes
    /\ up' = FALSE /\ crashes' = crashes + 1
    /\ max_entries' = Unbounded /\ _records' = << >>
    /\ _last_hash' = GENESIS_HASH /\ _total_count' = 0
    /\ _lock' = Nobody
    /\ entry' = [t \in Threads |-> << >>]
    /\ UNCHANGED <<file, now, started, returned, faulty>>

\* Mutant: the chain tip is not restored.
load_from_file_no_tip ==
    /\ ~up /\ "load" \in Opens /\ file # << >>
    /\ up' = TRUE
    /\ _records' = file
    /\ UNCHANGED <<max_entries, _last_hash, _total_count, _lock, entry, file, now, history>>

\* Every line is read back; the window has no limit and the count starts at
\* nought.  A file that does not exist is refused.
load_from_file ==
    /\ ~up /\ "load" \in Opens /\ file # << >>
    /\ up' = TRUE
    /\ _records' = file
    /\ _last_hash' = head_hash(file)
    /\ UNCHANGED <<max_entries, _total_count, _lock, entry, file, now, history>>

\* AuditLog(path): the file is not read.
NewLog ==
    /\ ~up /\ ("new" \in Opens \/ file = << >>)
    /\ up' = TRUE
    /\ max_entries' = InitialLimit
    /\ faulty' = (faulty \/ file # << >>)
    /\ UNCHANGED <<_records, _last_hash, _total_count, _lock, entry, file, now,
                   started, returned, crashes>>

Tick ==
    /\ now < MaxTime
    /\ now' = now + 1
    /\ UNCHANGED <<up, memory, _lock, entry, file, history>>

-------------------------------------------------------------------------------
Init ==
    /\ up = TRUE
    /\ max_entries = InitialLimit
    /\ _records = << >> /\ _last_hash = GENESIS_HASH /\ _total_count = 0
    /\ _lock = Nobody /\ entry = [t \in Threads |-> << >>]
    /\ file = << >>
    /\ now = 0
    /\ started = {} /\ returned = {} /\ faulty = FALSE /\ crashes = 0

Step(t) == Link(t) \/ Write(t) \/ WriteFails(t)

Next ==
    \/ \E t \in Threads : (\E r \in Results : Build(t, r)) \/ Step(t)
    \/ Crash \/ load_from_file \/ NewLog
    \/ Tick

\* A running thread goes on; a lock that is free long enough is got.
Fairness == \A t \in Threads : WF_vars(Step(t))

Spec == Init /\ [][Next]_vars /\ Fairness

-------------------------------------------------------------------------------
(* Properties *)

\* audit.py:8-9, :79-80: whatever threads, rotations, crashes and reloads do,
\* the file is one chain from the genesis hash, as long as no append raises and
\* no new log is opened on a file that is there.
FileChainIntact == ~faulty => chain_errors(file) = {}

\* A decision whose record() returned is on the file, once, whenever the
\* process dies, and nothing is on the file that no verdict asked for.  Between
\* two calls the window is the newest part of the file and the chain tip is its
\* last hash, so that what is rotated out can be found there; verify_chain
\* accepts it.
FileIsComplete ==
    /\ \A r \in returned : Cardinality({i \in DOMAIN file : file[i].action_id = r}) = 1
    /\ \A i \in DOMAIN file : file[i].action_id \in started
    /\ up /\ _lock = Nobody /\ ~faulty =>
          /\ Len(_records) <= Len(file)
          /\ _records = SubSeq(file, Len(file) - Len(_records) + 1, Len(file))
          /\ _last_hash = head_hash(file)
          /\ max_entries # Unbounded => Len(_records) <= max_entries
          /\ file # << >> => _records # << >>
          /\ verify_chain(_records)

\* record() returns (or its process dies): the lock is always released.
EveryRecordReturns == \A t \in Threads : Recording(t) ~> ~Recording(t)

\* audit.py:5, INFRA.md:37: the file is hash-chained, and load_and_verify finds
\* no error in a file nobody altered.
UnalteredFileVerifies == chain_errors(file) = {}

===============================================================================
