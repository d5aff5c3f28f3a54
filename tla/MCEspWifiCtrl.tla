--------------------------- MODULE MCEspWifiCtrl ---------------------------
(* The device alone, with a guest and a daemon that may do anything. *)
EXTENDS EspWifiCtrl
CONSTANTS c1, net1, ap1

MCCreds     == {c1}
MCSubnets   == {net1}
MCAps       == {ap1}
MCNetIds    == {-1, 0}
MCDumpSizes == {0, 2}
MCIrqMasks  == {{"GOT_IP", "CONNECTED"}}
=============================================================================
