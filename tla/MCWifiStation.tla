--------------------------- MODULE MCWifiStation ---------------------------
(* The station example, the shim, the device and the mock daemon. *)
EXTENDS WifiStation
CONSTANTS c1, c2, net1, ap1, p1

MCCreds     == {c1, c2}
MCSubnets   == {net1}
MCAps       == {ap1}
MCPaths     == {p1}
MCNetIds    == 0..2
MCDumpSizes == {1}
MCIrqMasks  == {}
MCDisconnectFrom == {"CONNECTED"}
=============================================================================
