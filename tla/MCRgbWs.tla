------------------------------ MODULE MCRgbWs ------------------------------
(* Two connections, two sizes, one finished picture and one in the making. *)
EXTENDS RgbWs
=============================================================================
