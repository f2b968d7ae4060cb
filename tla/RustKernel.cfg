\* The Rust registry, its snapshot, and every answer given over them.
SPECIFICATION Spec
CONSTANTS
    Never = Never
    Unlabelled = Unlabelled
    Full = 3
    Warn = 2
    Offers <- MCOffers
    Owners <- MCOwners
    Requests <- MCRequests
    MaxClaims = 3
    MaxTime = 1
    Plans <- MCPlans
    Trees <- MCTrees
    Inputs <- MCInputs
    Capacities = {0, 1, 2, 3, 4, 5}
    JsonLength <- Length
    ErrorLength = 2
INVARIANTS PermitsAreAsserted PlansStopWhereTheyMust AnswersAgreeWithGate WalksAgreeWithGate
PROPERTY SnapshotNeverGains
