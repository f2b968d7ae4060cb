\* Clients register machines, claim, delegate and verify on two threads.
SPECIFICATION ServiceSpec
CONSTANTS
    Entities <- MCEntities
    Resources <- MCResources
    Offers <- MCOffers
    Registrations <- MCRegistrations
    NoOne = NoOne
    Never = Never
    NoSnapshot = NoSnapshot
    FullConfidence = 1
    WarnBelow = 1
    MaxClaims = 3
    MaxTime = 0
    MaxEpoch = 1
    MaxFrozen = 0
    HookRaises = FALSE
    Threads = {t1, t2}
    Requests <- MCRequests
    MaxRequests = 5
    NoRequest = NoRequest
INVARIANTS VerdictWasCurrent Accounted
PROPERTIES MachineRightsFromOwner
CHECK_DEADLOCK FALSE
