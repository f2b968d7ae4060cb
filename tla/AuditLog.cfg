\* Two threads, three results, a window of one; crashes, reloads, new logs on the
\* old file, appends that raise.
SPECIFICATION Spec
CONSTANTS
    Threads = {t1, t2}
    Results = {r1, r2, r3}
    GENESIS_HASH = GENESIS_HASH
    Nobody = Nobody
    Unbounded = Unbounded
    InitialLimit = 1
    Opens = {"load", "new"}
    WritesFail = TRUE
    MaxTime = 1
    MaxCrashes = 2
INVARIANTS FileChainIntact FileIsComplete
PROPERTIES EveryRecordReturns
CHECK_DEADLOCK FALSE
