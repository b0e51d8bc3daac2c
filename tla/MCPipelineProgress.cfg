SPECIFICATION FairProgress
CONSTANTS
    Providers <- MCProviders
    MaxShared = 2
INVARIANTS
    ProgressInv
    SnapshotIsRebuildable
PROPERTIES
    EndIsShown
