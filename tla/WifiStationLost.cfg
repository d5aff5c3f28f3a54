CONSTANTS
    c1 = c1
    c2 = c2
    net1 = net1
    ap1 = ap1
    p1 = p1
    Creds <- MCCreds
    Subnets <- MCSubnets
    Aps <- MCAps
    Paths <- MCPaths
    NetIds <- MCNetIds
    DumpSizes <- MCDumpSizes
    IrqMasks <- MCIrqMasks
    MockIp = net1
    MockAp = ap1
    MaxScan = 1
    MaxTimers = 3
    QueueMax = 10
    MaxNets = 3
    MaxDelayed = 2
    GuestMax = 0
    InitMax = 0
    StopMax = 0
    Nothing = Nothing
    MaxRetry = 1
    DisconnectMax = 2
    DisconnectFrom <- MCDisconnectFrom
    Prompt = TRUE
    AppSsid = c1
    AppPass = c2
SPECIFICATION StaSpec
INVARIANT NoEventLost
CHECK_DEADLOCK FALSE
