SPECIFICATION Spec
CONSTANTS
    k1 = k1
    k2 = k2
    Free = Free
    Chunks <- MCTwoChunks
    Cuts <- MCFirstCut
    Requested = 2
    Rounds = 2
    Interval = 1
    Cooldown = 2
    Outcomes <- MCSomeOutcomes
    Buckets <- MCBuckets
    ItemTokens <- MCItemTokens
    MaxBundle = 4
    ChunkSize = 3
    TokenBudget = 7
    MinBudget = 3
    Overhead = 1
    Bundle <- MCTwoBuckets
    Budget = 7
    MergeSmall = FALSE
INVARIANTS
    SchedulerInv
    SendingInv
PROPERTIES
    StartsArePaced
    SettledIsNotSentAgain
