\* A context with a child is revoked.
SPECIFICATION TaskSpec
CONSTANTS
    Entities <- MCEntities
    Resources <- MCResources
    Offers = {}
    Registrations = {}
    NoOne = NoOne
    Never = Never
    NoSnapshot = NoSnapshot
    FullConfidence = 1
    WarnBelow = 1
    MaxClaims = 3
    MaxTime = 1
    MaxEpoch = 1
    MaxFrozen = 0
    HookRaises = FALSE
    Workers = {w1, w2}
    Calls <- MCCalls
    NoCall = NoCall
    InitialClaims <- MCClaims
    InitialOwners <- MCOwners
    InitialTokens <- MCTokens
    RootAgent <- MCRootAgent
    SubAgents <- MCSubAgents
    Leases = {Never, 1}
    RootExpiry = 0
    MaxDepth = 1
    Hardened <- MCHardened
    Schemas <- MCSchemas
    Tools = {"save", "fetch"}
    TypeRights <- MCTypeRights
    ConsentOffers <- MCConsents
    LeaseRequests <- MCLeaseRequests
    Ttl = 2
    MaxHostOps = 2
    MaxCalls = 3
PROPERTY CancelledWithChildren
CHECK_DEADLOCK FALSE
