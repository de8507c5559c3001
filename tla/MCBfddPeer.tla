----------------------------- MODULE MCBfddPeer -----------------------------
(* The C daemon and one neighbour, for TLC. *)
EXTENDS BfddPeer

CONSTANT a1

MCNeighbour == <<a1, 1>>
MCHash == [k \in Keys |-> 0]
=============================================================================
