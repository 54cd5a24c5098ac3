CONSTANTS
    MaxFaults = 3
    Entries = 3
    Current = 2
SPECIFICATION FairSpec
INVARIANTS
    TypeOK
    IInv
    CurrentVouches
    GethHasGenesis
PROPERTIES
    LiveChainUntouched
    HalfGenesisIsFinal
    ClosesOnce
    GethComesUp
