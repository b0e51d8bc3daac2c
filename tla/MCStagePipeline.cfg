SPECIFICATION FairSpec
CONSTANTS
    e1 = e1
    Others = Others
    Executions <- MCExecutions
    Alternatives <- MCAlternatives
    MaxRetries = 1
    MaxClock = 1
    MaxFaults = 2
    MaxCalls = 1
INVARIANTS
    StageInv
    DoneHasItsBaseline
    DoneShowsItsRouting
PROPERTIES
    ExecutionsEnd
CONSTRAINT MCBound
