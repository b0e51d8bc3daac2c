SPECIFICATION Spec
CONSTANTS
    f1 = f1
    f2 = f2
    p1 = p1
    p2 = p2
    None = None
    Flows <- MCFlows
    Patches <- MCPatches
    MaxStarts = 3
    MaxDrafts = 2
    MaxReviews = 2
    MaxChanges = 1
    MaxRequests = 2
    MaxDownloads = 1
CONSTRAINT MCBound
SYMMETRY MCSymmetry
CHECK_DEADLOCK FALSE
INVARIANTS
    FlowInv
    ApprovedWasConfirmed
    RecordIsTrue
    PageIsWhole
