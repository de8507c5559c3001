----------------------------- MODULE MCSmmrTree -----------------------------
(* A small instance of the index for TLC. *)
EXTENDS SmmrTree

\* Hashes below, at and above the one that has most items.
MCItems == ({2} \X {0, 1} \X (1 .. 3)) \cup {<<1, 0, 4>>, <<3, 0, 4>>, <<3, 1, 4>>}
=============================================================================
