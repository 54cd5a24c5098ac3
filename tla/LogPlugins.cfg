CONSTANTS
    First = 8
    MaxHead = 10
    MaxTrx = 3
    MaxPipe = 3
    MaxDeaths = 2
SPECIFICATION FairSpec
INVARIANTS
    TypeOK
    IInv
    LastSeenNeverAhead
    DrainedMeansCurrent
    NoneLost
    PanicsOnlyOnCut
PROPERTIES
    EveryBlockSeen
    IsStream
