----------------------------- MODULE LossyFifo -----------------------------
(***************************************************************************)
(* What the receive path of the virtual Wi-Fi device promises to lwIP:     *)
(* frames of the relay arrive whole, at most once and in order; any of     *)
(* them may be lost.                                                       *)
(***************************************************************************)
EXTENDS Naturals, Sequences

CONSTANT Frames   \* what can be sent

VARIABLES
    in,     \* the frames sent so far
    out,    \* the frames received so far
    last    \* position in `in' of the frame received last, 0 if none

vars == <<in, out, last>>

Init == in = <<>> /\ out = <<>> /\ last = 0

Send ==
    /\ \E f \in Frames : in' = Append(in, f)
    /\ UNCHANGED <<out, last>>

Receive ==
    /\ \E k \in (last + 1)..Len(in) : out' = Append(out, in[k]) /\ last' = k
    /\ UNCHANGED in

Next == Send \/ Receive

Spec == Init /\ [][Next]_vars
=============================================================================
