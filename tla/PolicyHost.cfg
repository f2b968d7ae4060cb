\* The layers around the gate on changing registries, and on every input of the
\* readers and of the group decisions.
SPECIFICATION HostSpec
CONSTANTS
    Entities <- MCEntities
    Resources <- MCResources
    Offers <- MCOffers
    Registrations <- MCRegistrations
    NoOne = NoOne
    Never = Never
    NoSnapshot = NoSnapshot
    NoTool = NoTool
    FullConfidence = 2
    WarnBelow = 2
    MaxClaims = 4
    MaxTime = 1
    MaxEpoch = 1
    MaxFrozen = 0
    HookRaises = FALSE
    Matches <- MCMatches
    Numerals = {"30"}
    TypeOf <- MCTypeOf
    Personal <- MCPersonal
    KEYWORD_SIGNALS <- MCKeywords
    STRUCTURAL_PATTERNS <- MCPatterns
    MAX_SAFE_CHAIN_DEPTH = 2
    MAX_EXIT_SAFE_DEPTH = 1
    OverrideHorizon = 1
    Characters <- MCCharacters
    MaxGovernance = 2
    MaxSubordinates = 2
    Jobs <- MCJobs
    Actions <- MCActions
    Policies <- MCPolicies
    GoalTrees <- MCGoalTrees
    Decisions <- MCDecisions
    Arguments <- MCSpoken
    Annotations <- MCAnnotations
    AgentPlans <- MCAgentPlans
    Kernels = {"k1", "k2"}
    Threshold = 66
    MaxLinks = 3
INVARIANTS LayersOnlyRestrict ReadingsAgree GroupDecisionsSound WalksAgree
CHECK_DEADLOCK FALSE
