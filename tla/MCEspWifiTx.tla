----------------------------- MODULE MCEspWifiTx -----------------------------
(* Two tasks, two frames of one or two bytes; a raw frame of four bytes holds *)
(* an Ethernet frame that is one byte too long for the buffer.               *)
EXTENDS EspWifiTx, TLC

MCLens    == {2}
MCSymmetry == Permutations(Tasks)
MCRawLens == {2, 4}
MCFilters == {{"other"}}
=============================================================================
