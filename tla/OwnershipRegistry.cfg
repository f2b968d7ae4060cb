\* Delegation, revocation, expiry, owners and a snapshot, among three principals.
SPECIFICATION Spec
CONSTANTS
    Entities <- MCEntities
    Resources <- MCResources
    Offers <- MCOffers
    Registrations <- MCRegistrations
    NoOne = NoOne
    Never = Never
    NoSnapshot = NoSnapshot
    FullConfidence = 2
    MaxClaims = 3
    MaxTime = 1
    MaxEpoch = 2
    MaxFrozen = 2
    HookRaises = TRUE
INVARIANTS IndexConsistent AuthorityConserved ConflictsRecorded OwnersAreEnrolled
PROPERTIES RevocationImmediate CascadeLeavesNoDelegate SnapshotIsolated
CHECK_DEADLOCK FALSE
