CONSTANTS
    p1 = p1
    Self = Self
    NoEnode = NoEnode
    NoAddress = NoAddress
    here = here
    there = there
    Addresses <- TwoAddresses
    MaxKeys = 1
    Peers <- OnePeer
    Hostnames <- TwoNames
    HostPeers <- TwoNamesPeers
    MaxHead = 0
    MaxFaults = 3
    MayHang = TRUE
    ReportsHead = FALSE
SPECIFICATION FairSpec
INVARIANTS
    TypeOK
    IInv
    NeverSlicesShortEnode
    OnlyWantedAdded
    ConnectionsAreOwned
PROPERTIES
    IDNeverWithdrawn
    IDCatchesUp
    WantedEventuallyConnected
