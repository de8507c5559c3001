----------------------------- MODULE SmmrIndex -----------------------------
(***************************************************************************)
(* What the index promises its callers: it is a set of items.  Adding an   *)
(* item that is there, or removing one that is not, changes nothing.       *)
(***************************************************************************)
CONSTANT Items

VARIABLE items

IndexInit == items = {}

Insertion(x) == items' = items \cup {x}
Removal(x) == items' = items \ {x}

IndexNext == \E x \in Items : Insertion(x) \/ Removal(x)

IndexSpec == IndexInit /\ [][IndexNext]_items
=============================================================================
