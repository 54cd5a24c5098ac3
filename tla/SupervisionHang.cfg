CONSTANTS
    p1 = p1
    Self = Self
    NoEnode = NoEnode
    NoAddress = NoAddress
    here = here
    there = there
    Addresses <- OneAddress
    MaxKeys = 0
    Peers <- OnePeer
    Hostnames <- OneName
    HostPeers <- OneNamePeers
    MaxHead = 1
    MaxFaults = 1
    MayHang = TRUE
    ReportsHead = FALSE
SPECIFICATION FairSpec
PROPERTY EnforcesPeriodically
