----------------------------- MODULE MCFbServer -----------------------------
(* Pictures of three rows in two colours, two lost connections. *)
EXTENDS FbServer
=============================================================================
