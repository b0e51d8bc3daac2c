SPECIFICATION FairSpec
CONSTANTS
    shared = shared
    private = private
    r1 = r1
    r2 = r2
    Contracts <- MCContracts
    CrossRun <- MCCrossRun
    Runs <- MCRuns
    Outcomes <- MCOutcomes
    NotRetryable <- MCNoStatus
    ReuseFailed = FALSE
    Rounds = 1
    MaxStarts <- MCMaxStarts
INVARIANTS
    LedgerInv
    NoSilentGiveUp
PROPERTIES
    StoreKeepsItsPromise
    RunsEnd
CHECK_DEADLOCK FALSE
