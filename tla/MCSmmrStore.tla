---------------------------- MODULE MCSmmrStore ----------------------------
(* Small instances of the database for TLC, over the B-tree. *)
EXTENDS SmmrStore, SmmrBtree

CONSTANTS p1, p2, stays, fades, short, other, long

\* The trees that insertions and removals of entries lead to.
RECURSIVE Reached(_, _)
Reached(all, new) ==
    LET next == UNION {{AddTree(t, x), RemoveTree(t, x)} : t \in new, x \in Entries}
    IN  IF new = {} THEN all ELSE Reached(all \cup next, next \ all)

MCIndexes == Reached({EmptyTree}, {EmptyTree})

\* A key that lasts, and one of another hash that expires.
MCHash == [k \in Keys |-> IF k = fades THEN 2 ELSE 1]
MCPages == [v \in Values |-> IF v = long THEN 2 ELSE 1]

\* Only lasting items are longer than a page.
MCStores == {s \in Keys \X Values : s[1] = fades => s[2] = short}

MCView == <<root, cell, used, remain, length, overrun, proc>>
MCSymmetry == Permutations({p1, p2})
=============================================================================
