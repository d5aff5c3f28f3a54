---------------------------- MODULE MCWifiLink ----------------------------
(* The device and the mock daemon under a guest with a budget of writes. *)
EXTENDS WifiLink
CONSTANTS c1, net1, ap1, p1, p2

MCCreds     == {c1}
MCSubnets   == {net1}
MCAps       == {ap1}
MCPaths     == {p1}
MCTwoPaths  == {p1, p2}
MCNetIds    == 0..3
MCDumpSizes == {1}
MCIrqMasks  == {}
=============================================================================
