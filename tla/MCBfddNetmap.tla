--------------------------- MODULE MCBfddNetmap ---------------------------
(* Small instances of the netmap daemon for TLC. *)
EXTENDS BfddNetmap

\* A neighbour that begins, and an ARP frame.
MCArrivals ==
    {[kind |-> "bfd", state |-> Down, my |-> 7, your |-> NoDiscr],
     [kind |-> "other", state |-> Down, my |-> NoDiscr, your |-> NoDiscr]}
=============================================================================
