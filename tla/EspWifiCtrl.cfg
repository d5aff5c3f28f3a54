CONSTANTS
    c1 = c1
    net1 = net1
    ap1 = ap1
    Creds <- MCCreds
    Subnets <- MCSubnets
    Aps <- MCAps
    NetIds <- MCNetIds
    DumpSizes <- MCDumpSizes
    IrqMasks <- MCIrqMasks
    MaxScan = 1
    MaxTimers = 1
    Nothing = Nothing
SPECIFICATION Spec
INVARIANTS
    TypeOK
    SequencerMatchesStatus
    NoWaitWithoutSocket
    GotIpHasAddress
    IrqMatchesEvent
    JoinInv
PROPERTIES
    ConnectingSelects
    JoinRunsOn
