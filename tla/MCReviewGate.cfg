SPECIFICATION Spec
CHECK_DEADLOCK FALSE
CONSTANTS
    a = a
    b = b
    none = none
    t1 = t1
    t2 = t2
    thread1 = thread1
    thread2 = thread2
    human = human
    NoGraph = NoGraph
    Graphs <- MCGraphs
    Targets <- MCTargets
    TargetsOf <- MCTargetsOf
    Rank <- MCRank
    Verdicts <- MCVerdicts
    Resolvers <- MCTwoResolvers
    Reviewers <- MCOneReviewer
    MaxClock = 1
    MaxResolves = 3
    MaxReviews = 1
    MaxFaults = 1
    Providers <- MCProviders
    Evidence <- MCEvidence
    Family <- MCFamily
    ImpactItems <- MCImpactItems
    SharedTraces <- MCSharedTraces
    SeverityTypes <- MCSeverityTypes
    Claims <- MCClaims
    LegacyRows <- MCLegacyRows
    MaxClaims = 3
SYMMETRY MCSymmetry
INVARIANTS
    TypeOK
    DecisionFromHuman
    PersistedIsStored
    StoredIsEarned
PROPERTIES
    ProjectionIsExact
