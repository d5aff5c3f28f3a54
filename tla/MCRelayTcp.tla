----------------------------- MODULE MCRelayTcp -----------------------------
(***************************************************************************)
(* RelayTcp for TLC.  The module's constants bound every count; a second   *)
(* attempt to connect multiplies what the first one does, so the states    *)
(* that have one are cut further.  The proofs know no such bound.          *)
(***************************************************************************)
EXTENDS RelayTcp

\* With a second attempt there is one byte in all, and of the odd events only the
\* one that repeated the SYN; two server connections carry no bytes.
MCBound ==
    co[2] # "none" =>
        /\ wrote + srv_sent <= 1
        /\ fw = "over" \/ odd >= OddMax - 1
        /\ Sole \/ (wrote = 0 /\ srv_sent = 0)
=============================================================================
