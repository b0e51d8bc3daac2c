SPECIFICATION Spec
CONSTANTS
    Targets = {target1}
    PropsOf <- PropositionLists
    Verdicts = {"confirmed_candidate", "needs_more_data"}
    Requests = {request1, request2}
    Parent = parentBundle
    MaxRequests = 2
    MaxBatches = 1
    MaxFaults = 0
INVARIANT HistoryIsLinked
CHECK_DEADLOCK FALSE
