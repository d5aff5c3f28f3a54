CONSTANTS
    DataMax = 2
    ServerMax = 2
    ConnMax = 2
    OddMax = 2
    UpMax = 1
SPECIFICATION FairRelaySpec
CONSTRAINT MCBound
INVARIANTS
    RelayTypeOK
    ServerInOrder
    AckedIsForwarded
    FirmwareStream
    NothingSurvivesSession
PROPERTIES
    ServerBytesForwarded
    SynAnswered
CHECK_DEADLOCK FALSE
