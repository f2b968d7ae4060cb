\* The process restarts with AuditLog(path).
SPECIFICATION Spec
CONSTANTS
    Threads = {t1}
    Results = {r1, r2}
    GENESIS_HASH = GENESIS_HASH
    Nobody = Nobody
    Unbounded = Unbounded
    InitialLimit = Unbounded
    Opens = {"new"}
    WritesFail = FALSE
    MaxTime = 0
    MaxCrashes = 1
INVARIANTS UnalteredFileVerifies
CHECK_DEADLOCK FALSE
