CONSTANTS
    DataMax = 2
    ServerMax = 2
    ConnMax = 1
    OddMax = 1
    UpMax = 1
SPECIFICATION RelaySpec
INVARIANT ExactlyOnce
CHECK_DEADLOCK FALSE
