SPECIFICATION FairSpec
CONSTANTS
    i1 = i1
    r1 = r1
    r2 = r2
    r3 = r3
    alice = alice
    bob = bob
    run1 = run1
    run2 = run2
    None = None
    Instances <- MCInstances
    Requests <- MCThree
    Clients <- MCClients
    Runs <- MCRuns
    InstanceOf <- MCInstanceOf
    ClientOf <- MCClientOf
    RunOf <- MCRunOf
    Forced <- MCForced
    Owners <- MCNobody
    DailyLimit = 2
    ClientLimit = 1
    CacheTtl = 1
    DisableTtl = 1
    MaxClock = 1
    Faulty = TRUE
INVARIANTS
    FastReviewInv
    RunsAreCounted
    DisableIsHeeded
PROPERTIES
    FreshResultIsServed
    RequestsEnd
