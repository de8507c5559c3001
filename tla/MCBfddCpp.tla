----------------------------- MODULE MCBfddCpp -----------------------------
(* Small instances of the C++ daemon for TLC. *)
EXTENDS BfddCpp

CONSTANTS k1, k2

MCKeys == {k1, k2}
\* The first neighbour may be in any state, and knows a discriminator of ours,
\* polls and answers polls when it is Up; the other only begins a session.
MCSays == [k \in Keys |->
    {pkt \in Inputs :
        /\ pkt.paced
        /\ pkt.your # NoDiscr <=> pkt.state \in {Init_, Up}
        /\ pkt.poll \/ pkt.final => pkt.state = Up /\ pkt.poll # pkt.final
        /\ k = k2 => pkt.state = Down}]
=============================================================================
