CONSTANTS
    HdrSize = 2
    MaxFrame = 2
    Lens <- MCLens
    Others <- MCOthers
    SendMax = 3
    ConnMax = 2
    OtherMax = 1
    RebootMax = 1
SPECIFICATION FairPktSpec
INVARIANTS
    PktTypeOK
    StreamFramed
    MailboxStable
PROPERTIES
    ImplementsLossyFifo
    MailboxDrains
