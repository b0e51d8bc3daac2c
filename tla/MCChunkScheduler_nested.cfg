SPECIFICATION FairSpec
CONSTANTS
    k1 = k1
    k2 = k2
    Free = Free
    Chunks <- MCTwoChunks
    Cuts <- MCBothCut
    Requested = 2
    Rounds = 1
    Interval = 1
    Cooldown = 0
    Outcomes <- MCNestedOutcomes
    Buckets <- MCOneBucket
    ItemTokens <- MCTwoTokens
    MaxBundle = 6
    ChunkSize = 3
    TokenBudget = 7
    MinBudget = 3
    Overhead = 1
    Bundle <- MCSixItems
    Budget = 7
    MergeSmall = FALSE
INVARIANTS
    CallsBounded
PROPERTIES
    ProviderEnds
