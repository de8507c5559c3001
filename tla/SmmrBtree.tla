----------------------------- MODULE SmmrBtree -----------------------------
(***************************************************************************)
(* The index of the database (deps/smmr/smmr_tree.c) as operators on trees *)
(* of nodes.  An item names a data file and an offset, under the hash of   *)
(* the key stored there; items are ordered by hash, file and offset.  All  *)
(* entries of one hash, of the same key or of others, are in the tree next *)
(* to each other, and a search calls back for each of them until told to   *)
(* stop.                                                                   *)
(*                                                                         *)
(* A node of n keys has n + 1 children; the children of a leaf are NoNode. *)
(* What the code does by recursion into a child is a function of the       *)
(* node's height here: "below" is the same function one level further      *)
(* down.  The code keeps no height, its recursion ends at an empty child.  *)
(***************************************************************************)
EXTENDS Naturals, SequencesExt

CONSTANTS
    NodeCount,  \* TREE_NODECOUNT, the most keys of a node
    NodeMin     \* TREE_NODEMIN, the fewest keys of a node below the root

ASSUME NodeAssumption == NodeMin \in Nat \ {0} /\ NodeCount = 2 * NodeMin

NoNode == [keys |-> <<>>, kids |-> <<>>]
IsNoNode(n) == n.kids = <<>>

\* node_key_t: hash, data file and offset.
NodeKey == Nat \X Nat \X Nat
HashOfItem(x) == x[1]

\* The nodes that all leaves are equally far below.
NodesAbove(below, h) ==
    {n \in [keys : Seq(NodeKey), kids : Seq(below)] : Len(n.kids) = Len(n.keys) + 1}
Nodes[h \in Nat] == IF h = 0 THEN {NoNode} ELSE NodesAbove(Nodes[h - 1], h)

EmptyTree == [height |-> 0, top |-> NoNode]

\* _compare_node_key_unsafe
Before(x, y) ==
    \/ x[1] < y[1]
    \/ x[1] = y[1] /\ x[2] < y[2]
    \/ x[1] = y[1] /\ x[2] = y[2] /\ x[3] < y[3]

(* The number of keys before x, which is the child that x belongs to, from 0. *)
Pos(n, x) == Cardinality({i \in DOMAIN n.keys : Before(n.keys[i], x)})

HasAt(n, pos, x) == pos < Len(n.keys) /\ n.keys[pos + 1] = x

-----------------------------------------------------------------------------
(* Insertion *)

\* _add_item_to_free_node: kid is the part that was split off below.
AddItem(n, pos, x, kid) ==
    [keys |-> InsertAt(n.keys, pos + 1, x), kids |-> InsertAt(n.kids, pos + 2, kid)]

\* _split_node: the middle item goes up between the two halves.
Split(n, pos, x, kid) ==
    LET all == AddItem(n, pos, x, kid)
    IN  [left  |-> [keys |-> SubSeq(all.keys, 1, NodeMin),
                    kids |-> SubSeq(all.kids, 1, NodeMin + 1)],
         item  |-> all.keys[NodeMin + 1],
         right |-> [keys |-> SubSeq(all.keys, NodeMin + 2, NodeCount + 1),
                    kids |-> SubSeq(all.kids, NodeMin + 2, NodeCount + 2)]]

\* _insert_item_recurcive: the node after the insertion, and unless it is
\* done the item and the node that are still to be added above.
InsertInto(below, n, x) ==
    LET pos   == Pos(n, x)
        sub   == below[n.kids[pos + 1]][x]
        m     == [n EXCEPT !.kids[pos + 1] = sub.node]
        split == Split(m, pos, sub.item, sub.kid)
        Done(node) == [done |-> TRUE, node |-> node, item |-> x, kid |-> NoNode]
    IN  IF HasAt(n, pos, x) THEN Done(n)
        ELSE IF sub.done THEN Done(m)
        ELSE IF Len(n.keys) < NodeCount THEN Done(AddItem(m, pos, sub.item, sub.kid))
        ELSE [done |-> FALSE, node |-> split.left, item |-> split.item, kid |-> split.right]

InsertNowhere ==
    [n \in {NoNode} |-> [x \in NodeKey |->
        [done |-> FALSE, node |-> NoNode, item |-> x, kid |-> NoNode]]]
InsertAbove(below, h) == [n \in Nodes[h] |-> [x \in NodeKey |-> InsertInto(below, n, x)]]
InsertItem[h \in Nat] ==
    IF h = 0 THEN InsertNowhere ELSE InsertAbove(InsertItem[h - 1], h)

\* add_tree_safe
AddTree(t, x) ==
    LET r == InsertItem[t.height][t.top][x]
    IN  IF r.done THEN [t EXCEPT !.top = r.node]
        ELSE [height |-> t.height + 1,
              top    |-> [keys |-> <<r.item>>, kids |-> <<r.node, r.kid>>]]

-----------------------------------------------------------------------------
(* Removal: operators return the node and whether it is left too small.    *)

\* _remove_item_trgt
RemoveTrgt(n, pos) ==
    [node  |-> [keys |-> RemoveAt(n.keys, pos + 1), kids |-> RemoveAt(n.kids, pos + 2)],
     under |-> Len(n.keys) - 1 < NodeMin]

\* _remove_item_moveright: child pos gets the last key of its left neighbour.
MoveRight(n, pos) ==
    LET left == n.kids[pos]  right == n.kids[pos + 1]
    IN  [keys |-> [n.keys EXCEPT ![pos] = Last(left.keys)],
         kids |-> [n.kids EXCEPT
            ![pos]     = [keys |-> Front(left.keys), kids |-> Front(left.kids)],
            ![pos + 1] = [keys |-> <<n.keys[pos]>> \o right.keys,
                          kids |-> <<Last(left.kids)>> \o right.kids]]]

\* _remove_item_moveleft: the left neighbour of child pos gets its first key.
MoveLeft(n, pos) ==
    LET left == n.kids[pos]  right == n.kids[pos + 1]
    IN  [keys |-> [n.keys EXCEPT ![pos] = Head(right.keys)],
         kids |-> [n.kids EXCEPT
            ![pos]     = [keys |-> Append(left.keys, n.keys[pos]),
                          kids |-> Append(left.kids, Head(right.kids))],
            ![pos + 1] = [keys |-> Tail(right.keys), kids |-> Tail(right.kids)]]]

\* Slip: the key between the two nodes is forgotten.
CombineDropsKey(n, pos) ==
    LET left == n.kids[pos]  right == n.kids[pos + 1]
    IN  RemoveTrgt([n EXCEPT !.kids[pos] =
                      [keys |-> left.keys \o right.keys,
                       kids |-> Front(left.kids) \o right.kids]], pos - 1)

\* _remove_item_combine: child pos and its left neighbour become one.
Combine(n, pos) ==
    LET left == n.kids[pos]  right == n.kids[pos + 1]
    IN  RemoveTrgt([n EXCEPT !.kids[pos] =
                      [keys |-> Append(left.keys, n.keys[pos]) \o right.keys,
                       kids |-> left.kids \o right.kids]], pos - 1)

\* Slip: nodes are combined without looking whether one could lend a key.
RestoreNeverBorrows(n, pos) == Combine(n, IF pos > 0 THEN pos ELSE 1)

\* _remove_item_restore: child pos is too small; it takes a key from its left
\* neighbour or is combined with it, the first child with its right one.
Restore(n, pos) ==
    LET lender == IF pos > 0 THEN n.kids[pos] ELSE n.kids[2]
        moved  == IF pos > 0 THEN MoveRight(n, pos) ELSE MoveLeft(n, 1)
    IN  IF Len(lender.keys) > NodeMin
        THEN [node |-> moved, under |-> FALSE]
        ELSE Combine(n, IF pos > 0 THEN pos ELSE 1)

\* The first key below a node, which has one.
LeftmostAbove(below, h) ==
    [n \in Nodes[h] |-> IF IsNoNode(n.kids[1]) THEN n.keys[1] ELSE below[n.kids[1]]]
Leftmost[h \in Nat] == IF h = 0 THEN <<>> ELSE LeftmostAbove(Leftmost[h - 1], h)

\* _remove_item_recursive: in an inner node the item is replaced by its
\* successor, which is then removed from the child it was in.
RemoveFrom(below, h, n, x) ==
    LET pos   == Pos(n, x)
        found == HasAt(n, pos, x)
        at    == IF found THEN pos + 1 ELSE pos
        kid   == n.kids[at + 1]
        y     == IF found THEN Leftmost[h - 1][kid] ELSE x
        sub   == below[kid][y]
        m     == [keys |-> IF found THEN [n.keys EXCEPT ![pos + 1] = y] ELSE n.keys,
                  kids |-> [n.kids EXCEPT ![at + 1] = sub.node]]
        after == IF sub.under THEN Restore(m, at) ELSE [node |-> m, under |-> FALSE]
        trgt  == RemoveTrgt(n, pos)
    IN  IF found /\ IsNoNode(kid)
        THEN [node |-> trgt.node, under |-> trgt.under, deleted |-> TRUE]
        ELSE [node |-> after.node, under |-> after.under, deleted |-> found \/ sub.deleted]

RemoveNowhere ==
    [n \in {NoNode} |-> [x \in NodeKey |->
        [node |-> NoNode, under |-> FALSE, deleted |-> FALSE]]]
RemoveAbove(below, h) == [n \in Nodes[h] |-> [x \in NodeKey |-> RemoveFrom(below, h, n, x)]]
RemoveItem[h \in Nat] ==
    IF h = 0 THEN RemoveNowhere ELSE RemoveAbove(RemoveItem[h - 1], h)

\* remove_tree_safe
RemoveTree(t, x) ==
    LET r == RemoveItem[t.height][t.top][x]
    IN  IF r.deleted /\ r.node.keys = <<>>
        THEN [height |-> t.height - 1, top |-> r.node.kids[1]]
        ELSE [t EXCEPT !.top = r.node]

-----------------------------------------------------------------------------
(* Search *)

\* _search_item_recurcive
FindsAbove(below, h) ==
    [n \in Nodes[h] |-> [x \in NodeKey |->
        HasAt(n, Pos(n, x), x) \/ below[n.kids[Pos(n, x) + 1]][x]]]
Finds[h \in Nat] ==
    IF h = 0 THEN [n \in {NoNode} |-> [x \in NodeKey |-> FALSE]]
    ELSE FindsAbove(Finds[h - 1], h)

\* Slip: keys equal to the hash are skipped as well.
FirstPast(n, h) ==
    1 + Cardinality({i \in DOMAIN n.keys : HashOfItem(n.keys[i]) <= h})

\* The first key of a node that is not below hash h.
FirstNotBelow(n, h) ==
    1 + Cardinality({i \in DOMAIN n.keys : HashOfItem(n.keys[i]) < h})

\* _search_item_only_keyhash_recurcive: the items of hash a in the order of the
\* callbacks, when the callback answers "stop" for the items in stops.  A
\* node's keys are gone through from the first one not below a on, each with
\* the child before it.  A stop ends the scan of its own node and what was
\* still to come from there, but not the scans further up.

\* The key at which the scan of a node is stopped, or the place behind the last.
ScanEnd(n, first, a, stops) ==
    LET halts == {i \in first .. Len(n.keys) : HashOfItem(n.keys[i]) = a /\ n.keys[i] \in stops}
    IN  IF halts = {} THEN Len(n.keys) + 1 ELSE Min(halts)

\* Slip: the child after the last key is visited only below a matching key.
OuterHitsCareless(below, n, first, a, stops) ==
    (IF first < Len(n.keys) THEN below[n.kids[Len(n.keys) + 1]][a][stops] ELSE <<>>)
    \o below[n.kids[first]][a][stops]

\* After the keys of a node: its last child, then the child before the first
\* key that is not below a (the same child if all are).
OuterHits(below, n, first, a, stops) ==
    (IF first <= Len(n.keys) THEN below[n.kids[Len(n.keys) + 1]][a][stops] ELSE <<>>)
    \o below[n.kids[first]][a][stops]

\* What key i of a node adds to the hits, with the child before it.
HitsAt(below, n, i, first, end, a, stops) ==
    IF i > Len(n.keys) THEN OuterHits(below, n, first, a, stops)
    ELSE (IF HashOfItem(n.keys[i]) = a THEN <<n.keys[i]>> ELSE <<>>)
         \o (IF first < i /\ i < end THEN below[n.kids[i]][a][stops] ELSE <<>>)

\* A node whose first key is above a has nothing but its first child to offer.
ScanNode(below, n, a, stops) ==
    LET first == FirstNotBelow(n, a)
        end   == ScanEnd(n, first, a, stops)
    IN  IF n.keys # <<>> /\ HashOfItem(n.keys[1]) > a THEN below[n.kids[1]][a][stops]
        ELSE FlattenSeq([j \in 1 .. end - first + 1 |->
                            HitsAt(below, n, first + j - 1, first, end, a, stops)])

ScanAbove(below, h) ==
    [n \in Nodes[h] |-> [a \in Nat |-> [stops \in SUBSET NodeKey |->
        ScanNode(below, n, a, stops)]]]
Scan[h \in Nat] ==
    IF h = 0 THEN [n \in {NoNode} |-> [a \in Nat |-> [stops \in SUBSET NodeKey |-> <<>>]]]
    ELSE ScanAbove(Scan[h - 1], h)

Hits(t, a, stops) == Scan[t.height][t.top][a][stops]
=============================================================================
