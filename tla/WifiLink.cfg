CONSTANTS
    c1 = c1
    net1 = net1
    ap1 = ap1
    p1 = p1
    p2 = p2
    Creds <- MCCreds
    Subnets <- MCSubnets
    Aps <- MCAps
    Paths <- MCTwoPaths
    NetIds <- MCNetIds
    DumpSizes <- MCDumpSizes
    IrqMasks <- MCIrqMasks
    MockIp = net1
    MockAp = ap1
    MaxScan = 1
    MaxTimers = 3
    QueueMax = 10
    MaxNets = 4
    MaxDelayed = 4
    GuestMax = 5
    InitMax = 2
    StopMax = 1
    Nothing = Nothing
SPECIFICATION FairLinkSpec
INVARIANTS
    LinkTypeOK
    SubscriptionSurvives
PROPERTIES
    SequencerRests
CHECK_DEADLOCK FALSE
