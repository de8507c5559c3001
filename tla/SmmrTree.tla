------------------------------ MODULE SmmrTree ------------------------------
(***************************************************************************)
(* One category's index over its life: items are added and removed in any  *)
(* order.  Every operation runs under the category's mutex, so they do not *)
(* interleave.  The tree is kept in the shared memory of the category; the *)
(* allocation of its nodes is taken to succeed.                            *)
(***************************************************************************)
EXTENDS SmmrBtree

CONSTANT Items  \* the items that occur: <<hash, data file, offset>>

ASSUME ItemsAssumption == Items \subseteq NodeKey

VARIABLE root

Init == root = EmptyTree

\* add_tree_safe, remove_tree_safe and remove_tree_unsafe
Add(x) == root' = AddTree(root, x)
Drop(x) == root' = RemoveTree(root, x)

Next == \E x \in Items : Add(x) \/ Drop(x)

Spec == Init /\ [][Next]_root

-----------------------------------------------------------------------------
(* Properties *)

\* The items in a node and below it.
HeldAbove(below, h) ==
    [n \in Nodes[h] |-> ToSet(n.keys) \cup UNION {below[n.kids[i]] : i \in DOMAIN n.kids}]
HeldBelow[h \in Nat] ==
    IF h = 0 THEN [n \in {NoNode} |-> {}] ELSE HeldAbove(HeldBelow[h - 1], h)

Contents == HeldBelow[root.height][root.top]

\* The keys of a node ascend, and part what is in its children.
Ascending(n, h) ==
    /\ \A i, j \in DOMAIN n.keys : i < j => Before(n.keys[i], n.keys[j])
    /\ \A i \in DOMAIN n.kids : \A y \in HeldBelow[h - 1][n.kids[i]] :
          \A j \in DOMAIN n.keys :
             IF i <= j THEN Before(y, n.keys[j]) ELSE Before(n.keys[j], y)

\* No node is too full, and none below the root too empty.
SoundAbove(below, h) ==
    {n \in Nodes[h] :
        /\ Len(n.keys) <= NodeCount
        /\ \A i \in DOMAIN n.kids :
              n.kids[i] \in below /\ (h > 1 => Len(n.kids[i].keys) >= NodeMin)
        /\ Ascending(n, h)}
Sound[h \in Nat] == IF h = 0 THEN {NoNode} ELSE SoundAbove(Sound[h - 1], h)

(* After any history the tree is a search tree without duplicates, all its  *)
(* leaves at one depth and no node too full or too empty, which splitting   *)
(* (smmr_tree.c:344-388), borrowing and combining (781-936) must keep up.   *)
TreeSound ==
    /\ root.top \in Sound[root.height]
    /\ root.height > 0 => root.top.keys # <<>>

(* A search by hash calls back for every item of that hash, and once,       *)
(* wherever in the tree they are (smmr_tree.c:557-618).                     *)
SearchFindsAll ==
    \A a \in {HashOfItem(x) : x \in Items} :
        LET hits == Hits(root, a, {})
        IN  /\ IsInjective(hits)
            /\ ToSet(hits) = {x \in Contents : HashOfItem(x) = a}

(* Whatever the items are at which the caller stops, it gets to one if there *)
(* is one; and the search for one item finds what is there                   *)
(* (smmr_tree.c:586-605, 484-503).                                           *)
StopIsReached ==
    /\ \A x \in Items : Finds[root.height][root.top][x] <=> x \in Contents
    /\ \A a \in {HashOfItem(x) : x \in Items} :
         \A stops \in SUBSET {x \in Contents : HashOfItem(x) = a} :
            stops # {} => ToSet(Hits(root, a, stops)) \cap stops # {}

(* The tree is the set of items that were added and not removed since.      *)
Index == INSTANCE SmmrIndex WITH items <- Contents

ImplementsIndex == Index!IndexSpec
=============================================================================
