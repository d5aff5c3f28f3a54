CONSTANTS
    Tasks = {lwip, app}
    Lens <- MCLens
    RawLens <- MCRawLens
    Filters <- MCFilters
    HdrSize = 2
    EthHdr = 1
    RawMin = 1
    RawHdr = 2
    RawMax = 4
    BufSize = 2
    SendMax = 2
    ConnMax = 2
    SetMax = 3
    RebootMax = 1
SPECIFICATION TxSpec
INVARIANTS
    TxTypeOK
    SessionsFramed
    FramesArrive
    SniffedOnce
SYMMETRY MCSymmetry
CHECK_DEADLOCK FALSE
