------------------------------- MODULE MCBfdd -------------------------------
(* Small instances of the C daemon for TLC. *)
EXTENDS Bfdd, TLC

CONSTANTS a1, a2

MCAddrs == {a1, a2}
\* With two groups, the keys of each address share one.
MCHash == [k \in Keys |-> IF k[1] = a1 \/ NGroups = 1 THEN 0 ELSE 1]
\* What later steps depend on: neither what was sent nor what was done.
MCView == <<db, incr, wrapped>>
MCViewFailed == <<db, incr, wrapped, failed>>

\* The bound MaxHidden on the hidden copies of an entry.
MaxHidden == 2
FewHidden ==
    /\ \A k \in Keys : Cardinality(db.sessHidden[k]) <= MaxHidden
    /\ Cardinality(db.incntHidden) <= MaxHidden
    /\ \A g \in Groups : Cardinality(db.listHidden[g]) <= MaxHidden

MCSymmetry == Permutations(MCAddrs)
=============================================================================
