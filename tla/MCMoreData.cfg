SPECIFICATION Spec
CONSTANTS
    Targets = {target1}
    PropsOf <- PropositionLists
    Verdicts = {"confirmed_candidate", "needs_more_data"}
    Requests = {request1, request2}
    Parent = parentBundle
    MaxRequests = 3
    MaxBatches = 1
    MaxFaults = 2
INVARIANTS
    MoreDataInv
    PropositionsFollowTarget
PROPERTY RunsEnd
CONSTRAINT MCBound
CHECK_DEADLOCK FALSE
