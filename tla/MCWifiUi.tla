------------------------------ MODULE MCWifiUi ------------------------------
(* Two texts, four events, three rounds in each loop. *)
EXTENDS WifiUi
=============================================================================
