SPECIFICATION FairSpec
CONSTANTS
    c1 = c1
    c2 = c2
    run = run
    w1 = w1
    w2 = w2
    Nobody = Nobody
    Null = Null
    Contracts <- MCContracts
    CrossRun <- MCCrossRun
    Runners <- MCRunners
    Claimers <- MCClaimers
    Scope <- MCScope
    Outcomes <- MCOutcomes
    LeaseTicks = 1
    MaxDelay = 1
INVARIANTS
    TypeOK
    RowReflectsAttempts
    LeasesExclusive
PROPERTIES
    SuccessIsFinal
    ReadyRowIsServed
