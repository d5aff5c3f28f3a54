---------------------------- MODULE MCEspWifiPkt ----------------------------
(* Frames of one and two bytes behind a two-byte prefix, two connections. *)
EXTENDS EspWifiPkt

MCLens   == {1, 2}
MCOthers == {"GOT_IP"}
=============================================================================
