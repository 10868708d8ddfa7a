------------------------------ MODULE MCUplink ------------------------------
(* Finite instances of Uplink. *)
EXTENDS Uplink, TLC

CONSTANTS wlo1, eth0

\* The hotspot's own route comes first, or last, or there is none.
BothOrNone == {<<>>, <<wlo1, eth0>>}

Symmetry == Permutations(Handles)
=============================================================================
