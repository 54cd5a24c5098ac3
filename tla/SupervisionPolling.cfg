CONSTANTS
    p1 = p1
    Self = Self
    NoEnode = NoEnode
    NoAddress = NoAddress
    here = here
    there = there
    Addresses <- OneAddress
    MaxKeys = 0
    Peers <- OnePeer
    Hostnames <- OneName
    HostPeers <- OneNamePeers
    MaxHead = 2
    MaxFaults = 2
    MayHang = FALSE
    ReportsHead = TRUE
SPECIFICATION FairSpec
INVARIANTS
    OnlyFaultsSpoilReports
PROPERTIES
    BothKeepPolling
