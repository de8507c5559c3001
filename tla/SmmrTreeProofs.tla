-------------------------- MODULE SmmrTreeProofs --------------------------
(***************************************************************************)
(* Proofs about the index tree (SmmrBtree, SmmrTree), for nodes and trees  *)
(* of any size.                                                            *)
(*                                                                         *)
(* What the code does by recursion into a child is proved by induction     *)
(* over the height of the node.  Each recursive function of the model has  *)
(* an instance of Recursion, which says that the function is what its      *)
(* equation says, and with P the statement to prove about it.              *)
(*                                                                         *)
(* An operation on a node is taken apart into steps that keep the order of *)
(* the items whatever the numbers of keys are: a child is replaced         *)
(* (Replaced), becomes two with an item between them (Opened, read         *)
(* backwards: two become one), and two nodes and an item become one        *)
(* (Joined, read backwards: a node is parted).  The numbers of keys are    *)
(* then counted for each operation.                                        *)
(***************************************************************************)
EXTENDS SmmrTree, Integers, FiniteSetTheorems, SequenceTheorems, TLAPS

-----------------------------------------------------------------------------
(* Nodes and what is below them *)

NodesLevel == INSTANCE Recursion WITH
    Base <- {NoNode}, Step <- NodesAbove, P <- LAMBDA n : TRUE

HeldLevel == INSTANCE Recursion WITH
    Base <- [n \in {NoNode} |-> {}], Step <- HeldAbove,
    P <- LAMBDA h : HeldBelow[h] \in [Nodes[h] -> SUBSET NodeKey]

SoundLevel == INSTANCE Recursion WITH
    Base <- {NoNode}, Step <- SoundAbove, P <- LAMBDA n : TRUE

\* The recursive definitions of the model, unfolded by one level.
LEMMA NodesIs ==
    /\ Nodes[0] = {NoNode}
    /\ \A h \in Nat \ {0} : Nodes[h] = NodesAbove(Nodes[h - 1], h)
<1>1. \E f : f = [h \in Nat |-> IF h = 0 THEN {NoNode} ELSE NodesAbove(f[h - 1], h)]
  BY NodesLevel!Defined
<1>2. Nodes = [h \in Nat |-> IF h = 0 THEN {NoNode} ELSE NodesAbove(Nodes[h - 1], h)]
  BY <1>1 DEF Nodes
<1> QED BY <1>2

\* The items below a node, unfolded by one level.
LEMMA HeldIs ==
    /\ HeldBelow[0] = [n \in {NoNode} |-> {}]
    /\ \A h \in Nat \ {0} : HeldBelow[h] = HeldAbove(HeldBelow[h - 1], h)
<1>1. \E f : f = [h \in Nat |->
        IF h = 0 THEN [n \in {NoNode} |-> {}] ELSE HeldAbove(f[h - 1], h)]
  BY HeldLevel!Defined
<1>2. HeldBelow = [h \in Nat |->
        IF h = 0 THEN [n \in {NoNode} |-> {}] ELSE HeldAbove(HeldBelow[h - 1], h)]
  BY <1>1 DEF HeldBelow
<1> QED BY <1>2

\* The sound nodes, unfolded by one level.
LEMMA SoundIs ==
    /\ Sound[0] = {NoNode}
    /\ \A h \in Nat \ {0} : Sound[h] = SoundAbove(Sound[h - 1], h)
<1>1. \E f : f = [h \in Nat |-> IF h = 0 THEN {NoNode} ELSE SoundAbove(f[h - 1], h)]
  BY SoundLevel!Defined
<1>2. Sound = [h \in Nat |-> IF h = 0 THEN {NoNode} ELSE SoundAbove(Sound[h - 1], h)]
  BY <1>1 DEF Sound
<1> QED BY <1>2

\* The order of the items (_compare_node_key_unsafe) is total.
LEMMA BeforeOrder ==
    /\ \A x \in NodeKey : ~Before(x, x)
    /\ \A x, y \in NodeKey : x = y \/ Before(x, y) \/ Before(y, x)
    /\ \A x, y \in NodeKey : ~(Before(x, y) /\ Before(y, x))
    /\ \A x, y, z \in NodeKey : Before(x, y) /\ Before(y, z) => Before(x, z)
<1>1. \A x \in NodeKey : x[1] \in Nat /\ x[2] \in Nat /\ x[3] \in Nat
  BY DEF NodeKey
<1>2. \A x, y \in NodeKey : x[1] = y[1] /\ x[2] = y[2] /\ x[3] = y[3] => x = y
  BY DEF NodeKey
<1> QED BY <1>1, <1>2 DEF Before

\* What a node is made of.
LEMMA NodeIs ==
    ASSUME NEW h \in Nat \ {0}, NEW n \in Nodes[h]
    PROVE  /\ n = [keys |-> n.keys, kids |-> n.kids]
           /\ n.keys \in Seq(NodeKey) /\ n.kids \in Seq(Nodes[h - 1])
           /\ Len(n.keys) \in Nat /\ Len(n.kids) = Len(n.keys) + 1
           /\ DOMAIN n.keys = 1 .. Len(n.keys) /\ DOMAIN n.kids = 1 .. Len(n.keys) + 1
           /\ \A i \in 1 .. Len(n.keys) : n.keys[i] \in NodeKey
           /\ \A i \in 1 .. Len(n.keys) + 1 : n.kids[i] \in Nodes[h - 1]
BY NodesIs DEF NodesAbove

\* What makes a node.
LEMMA NodeFrom ==
    ASSUME NEW h \in Nat \ {0}, NEW keys \in Seq(NodeKey), NEW kids \in Seq(Nodes[h - 1]),
           Len(kids) = Len(keys) + 1
    PROVE  [keys |-> keys, kids |-> kids] \in Nodes[h]
BY NodesIs DEF NodesAbove

\* What is below a node are items.
LEMMA HeldTyped == \A h \in Nat : HeldBelow[h] \in [Nodes[h] -> SUBSET NodeKey]
<1>1. HeldBelow[0] \in [Nodes[0] -> SUBSET NodeKey]
  BY HeldIs, NodesIs
<1>2. ASSUME NEW h \in Nat, HeldBelow[h] \in [Nodes[h] -> SUBSET NodeKey]
      PROVE  HeldBelow[h + 1] \in [Nodes[h + 1] -> SUBSET NodeKey]
  <2>1. h + 1 \in Nat \ {0} /\ (h + 1) - 1 = h
    OBVIOUS
  <2>2. HeldBelow[h + 1] = HeldAbove(HeldBelow[h], h + 1)
    BY HeldIs, <2>1
  <2>3. ASSUME NEW n \in Nodes[h + 1]
        PROVE  ToSet(n.keys) \cup UNION {HeldBelow[h][n.kids[i]] : i \in DOMAIN n.kids}
                 \in SUBSET NodeKey
    <3>1. \A i \in DOMAIN n.keys : n.keys[i] \in NodeKey
      BY NodeIs, <2>1
    <3>2. \A i \in DOMAIN n.kids : n.kids[i] \in Nodes[h]
      BY NodeIs, <2>1
    <3> QED BY <1>2, <3>1, <3>2 DEF ToSet
  <2> QED BY <2>2, <2>3 DEF HeldAbove
<1> QED BY HeldLevel!Induction, <1>1, <1>2

\* What is below a node is a key of it or below one of its children.
LEMMA HeldIn ==
    ASSUME NEW h \in Nat \ {0}, NEW n \in Nodes[h]
    PROVE  /\ HeldBelow[h][n] \subseteq NodeKey
           /\ \A i \in 1 .. Len(n.keys) + 1 :
                HeldBelow[h - 1][n.kids[i]] \subseteq HeldBelow[h][n] /\ HeldBelow[h - 1][n.kids[i]] \subseteq NodeKey
           /\ \A i \in 1 .. Len(n.keys) : n.keys[i] \in HeldBelow[h][n]
           /\ \A y \in HeldBelow[h][n] :
                \/ \E i \in 1 .. Len(n.keys) : y = n.keys[i]
                \/ \E i \in 1 .. Len(n.keys) + 1 : y \in HeldBelow[h - 1][n.kids[i]]
<1>1. HeldBelow[h][n] = ToSet(n.keys) \cup UNION {HeldBelow[h - 1][n.kids[i]] : i \in DOMAIN n.kids}
  <2>1. HeldBelow[h] = HeldAbove(HeldBelow[h - 1], h)
    BY HeldIs
  <2> QED BY <2>1 DEF HeldAbove
<1>2. HeldBelow[h][n] \subseteq NodeKey
  BY HeldTyped
<1> QED BY <1>1, <1>2, NodeIs, ZenonT(40) DEF ToSet

\* A node in order over sound children, of any number of keys.
Shape(n, h) ==
    /\ n \in Nodes[h]
    /\ \A i \in DOMAIN n.kids : n.kids[i] \in Sound[h - 1]
    /\ Ascending(n, h)

\* m is l, x and r side by side.
Joined(m, l, x, r) ==
    /\ Len(m.keys) = Len(l.keys) + 1 + Len(r.keys)
    /\ \A i \in 1 .. Len(l.keys) : m.keys[i] = l.keys[i]
    /\ m.keys[Len(l.keys) + 1] = x
    /\ \A i \in 1 .. Len(r.keys) : m.keys[Len(l.keys) + 1 + i] = r.keys[i]
    /\ \A i \in 1 .. Len(l.keys) + 1 : m.kids[i] = l.kids[i]
    /\ \A i \in 1 .. Len(r.keys) + 1 : m.kids[Len(l.keys) + 1 + i] = r.kids[i]

\* A sound node is a node.
LEMMA SoundInNodes == \A h \in Nat : Sound[h] \subseteq Nodes[h]
BY SoundIs, NodesIs DEF SoundAbove

\* What is below a joined node.
LEMMA JoinedHeld ==
    ASSUME NEW h \in Nat \ {0}, NEW m \in Nodes[h], NEW l \in Nodes[h], NEW r \in Nodes[h],
           NEW x, Joined(m, l, x, r)
    PROVE  HeldBelow[h][m] = HeldBelow[h][l] \cup {x} \cup HeldBelow[h][r]
<1> DEFINE ll == Len(l.keys)  lr == Len(r.keys)  lm == Len(m.keys)
<1>1. ll \in Nat /\ lr \in Nat /\ lm \in Nat /\ lm = ll + 1 + lr
  BY NodeIs DEF Joined
<1>2. /\ \A i \in 1 .. ll : m.keys[i] = l.keys[i]
      /\ m.keys[ll + 1] = x
      /\ \A i \in 1 .. lr : m.keys[ll + 1 + i] = r.keys[i]
      /\ \A i \in 1 .. ll + 1 : m.kids[i] = l.kids[i]
      /\ \A i \in 1 .. lr + 1 : m.kids[ll + 1 + i] = r.kids[i]
  BY DEF Joined
<1>3. /\ \A i \in 1 .. lm : m.keys[i] \in HeldBelow[h][m]
      /\ \A i \in 1 .. lm + 1 : HeldBelow[h - 1][m.kids[i]] \subseteq HeldBelow[h][m]
      /\ \A i \in 1 .. ll : l.keys[i] \in HeldBelow[h][l]
      /\ \A i \in 1 .. ll + 1 : HeldBelow[h - 1][l.kids[i]] \subseteq HeldBelow[h][l]
      /\ \A i \in 1 .. lr : r.keys[i] \in HeldBelow[h][r]
      /\ \A i \in 1 .. lr + 1 : HeldBelow[h - 1][r.kids[i]] \subseteq HeldBelow[h][r]
  BY HeldIn
<1>4. /\ \A y \in HeldBelow[h][m] :
           \/ \E i \in 1 .. lm : y = m.keys[i]
           \/ \E i \in 1 .. lm + 1 : y \in HeldBelow[h - 1][m.kids[i]]
      /\ \A y \in HeldBelow[h][l] :
           \/ \E i \in 1 .. ll : y = l.keys[i]
           \/ \E i \in 1 .. ll + 1 : y \in HeldBelow[h - 1][l.kids[i]]
      /\ \A y \in HeldBelow[h][r] :
           \/ \E i \in 1 .. lr : y = r.keys[i]
           \/ \E i \in 1 .. lr + 1 : y \in HeldBelow[h - 1][r.kids[i]]
  BY HeldIn
<1> HIDE DEF ll, lr, lm
<1>5. \A i \in 1 .. lm : m.keys[i] \in HeldBelow[h][l] \cup {x} \cup HeldBelow[h][r]
  <2> TAKE i \in 1 .. lm
  <2>1. CASE i <= ll
    BY <1>1, <1>2, <1>3, <2>1
  <2>2. CASE i = ll + 1
    BY <1>2, <2>2
  <2>3. CASE i > ll + 1
    <3>1. i - (ll + 1) \in 1 .. lr /\ i = ll + 1 + (i - (ll + 1))
      BY <1>1, <2>3
    <3> QED BY <1>2, <1>3, <3>1
  <2> QED BY <1>1, <2>1, <2>2, <2>3
<1>6. \A i \in 1 .. lm + 1 :
        HeldBelow[h - 1][m.kids[i]] \subseteq HeldBelow[h][l] \cup {x} \cup HeldBelow[h][r]
  <2> TAKE i \in 1 .. lm + 1
  <2>1. CASE i <= ll + 1
    <3>1. i \in 1 .. ll + 1
      BY <1>1, <2>1
    <3> QED BY <1>2, <1>3, <3>1
  <2>2. CASE i > ll + 1
    <3>1. i - (ll + 1) \in 1 .. lr + 1 /\ i = ll + 1 + (i - (ll + 1))
      BY <1>1, <2>2
    <3>2. m.kids[i] = r.kids[i - (ll + 1)]
      BY <1>2, <3>1
    <3> QED BY <1>3, <3>1, <3>2
  <2> QED BY <1>1, <2>1, <2>2
<1>7. /\ \A i \in 1 .. ll : i \in 1 .. lm
      /\ \A i \in 1 .. lr : ll + 1 + i \in 1 .. lm
      /\ ll + 1 \in 1 .. lm
      /\ \A i \in 1 .. ll + 1 : i \in 1 .. lm + 1
      /\ \A i \in 1 .. lr + 1 : ll + 1 + i \in 1 .. lm + 1
  BY <1>1
<1>8. HeldBelow[h][l] \subseteq HeldBelow[h][m]
  <2>1. \A i \in 1 .. ll : l.keys[i] \in HeldBelow[h][m]
    BY <1>7, <1>2, <1>3
  <2>2. \A i \in 1 .. ll + 1 : HeldBelow[h - 1][l.kids[i]] \subseteq HeldBelow[h][m]
    BY <1>7, <1>2, <1>3
  <2> QED BY <1>4, <2>1, <2>2
<1>9. HeldBelow[h][r] \subseteq HeldBelow[h][m]
  <2>1. \A i \in 1 .. lr : r.keys[i] \in HeldBelow[h][m]
    BY <1>7, <1>2, <1>3
  <2>2. \A i \in 1 .. lr + 1 : HeldBelow[h - 1][r.kids[i]] \subseteq HeldBelow[h][m]
    BY <1>7, <1>2, <1>3
  <2> QED BY <1>4, <2>1, <2>2
<1>10. x \in HeldBelow[h][m]
  BY <1>7, <1>2, <1>3
<1>11. HeldBelow[h][m] \subseteq HeldBelow[h][l] \cup {x} \cup HeldBelow[h][r]
  BY <1>4, <1>5, <1>6
<1> QED BY <1>8, <1>9, <1>10, <1>11

\* An item that belongs between the keys i - 1 and i of a node, to its child i.
InGap(n, i, y) ==
    \A j \in 1 .. Len(n.keys) : IF i <= j THEN Before(y, n.keys[j]) ELSE Before(n.keys[j], y)

\* A node is in order if its keys ascend and its children fit between them.
LEMMA AscendingIs ==
    ASSUME NEW h \in Nat \ {0}, NEW n \in Nodes[h]
    PROVE  Ascending(n, h) <=>
             /\ \A i, j \in 1 .. Len(n.keys) : i < j => Before(n.keys[i], n.keys[j])
             /\ \A i \in 1 .. Len(n.keys) + 1 : \A y \in HeldBelow[h - 1][n.kids[i]] : InGap(n, i, y)
<1>1. DOMAIN n.keys = 1 .. Len(n.keys) /\ DOMAIN n.kids = 1 .. Len(n.keys) + 1
  BY NodeIs
<1> QED BY <1>1 DEF Ascending, InGap

\* Joining keeps the order.
LEMMA JoinedShape ==
    ASSUME NEW h \in Nat \ {0}, NEW m \in Nodes[h], NEW l, NEW r, Shape(l, h), Shape(r, h),
           NEW x \in NodeKey, Joined(m, l, x, r),
           \A y \in HeldBelow[h][l] : Before(y, x),
           \A y \in HeldBelow[h][r] : Before(x, y)
    PROVE  Shape(m, h)
<1> DEFINE ll == Len(l.keys)  lr == Len(r.keys)  lm == Len(m.keys)
<1>0. l \in Nodes[h] /\ r \in Nodes[h]
  BY DEF Shape
<1>1. ll \in Nat /\ lr \in Nat /\ lm \in Nat /\ lm = ll + 1 + lr
  BY NodeIs, <1>0 DEF Joined
<1>2. /\ \A i \in 1 .. ll : m.keys[i] = l.keys[i]
      /\ m.keys[ll + 1] = x
      /\ \A i \in 1 .. lr : m.keys[ll + 1 + i] = r.keys[i]
      /\ \A i \in 1 .. ll + 1 : m.kids[i] = l.kids[i]
      /\ \A i \in 1 .. lr + 1 : m.kids[ll + 1 + i] = r.kids[i]
  BY DEF Joined
<1>3. /\ \A i \in 1 .. ll : l.keys[i] \in HeldBelow[h][l]
      /\ \A i \in 1 .. ll + 1 : HeldBelow[h - 1][l.kids[i]] \subseteq HeldBelow[h][l]
      /\ \A i \in 1 .. lr : r.keys[i] \in HeldBelow[h][r]
      /\ \A i \in 1 .. lr + 1 : HeldBelow[h - 1][r.kids[i]] \subseteq HeldBelow[h][r]
  BY HeldIn, <1>0
<1>4. /\ \A i, j \in 1 .. ll : i < j => Before(l.keys[i], l.keys[j])
      /\ \A i \in 1 .. ll + 1 : \A y \in HeldBelow[h - 1][l.kids[i]] : \A j \in 1 .. ll :
            IF i <= j THEN Before(y, l.keys[j]) ELSE Before(l.keys[j], y)
      /\ \A i, j \in 1 .. lr : i < j => Before(r.keys[i], r.keys[j])
      /\ \A i \in 1 .. lr + 1 : \A y \in HeldBelow[h - 1][r.kids[i]] : \A j \in 1 .. lr :
            IF i <= j THEN Before(y, r.keys[j]) ELSE Before(r.keys[j], y)
  BY AscendingIs, <1>0 DEF Shape, InGap
<1>5. /\ DOMAIN m.kids = 1 .. lm + 1
      /\ \A i \in 1 .. ll + 1 : l.kids[i] \in Sound[h - 1]
      /\ \A i \in 1 .. lr + 1 : r.kids[i] \in Sound[h - 1]
  BY NodeIs, <1>0 DEF Shape
<1>6. \A y \in HeldBelow[h][l] : \A z \in HeldBelow[h][r] : Before(y, z)
  <2>1. HeldBelow[h][l] \subseteq NodeKey /\ HeldBelow[h][r] \subseteq NodeKey
    BY <1>0, HeldIn
  <2> QED BY <2>1, BeforeOrder
<1>7. Ascending(m, h) <=>
             /\ \A i, j \in 1 .. lm : i < j => Before(m.keys[i], m.keys[j])
             /\ \A i \in 1 .. lm + 1 : \A y \in HeldBelow[h - 1][m.kids[i]] : \A j \in 1 .. lm :
                  IF i <= j THEN Before(y, m.keys[j]) ELSE Before(m.keys[j], y)
  BY AscendingIs DEF InGap
<1> HIDE DEF ll, lr, lm
<1>8. \A i \in 1 .. lm : \/ i \in 1 .. ll /\ m.keys[i] = l.keys[i]
                         \/ i = ll + 1 /\ m.keys[i] = x
                         \/ i - (ll + 1) \in 1 .. lr /\ m.keys[i] = r.keys[i - (ll + 1)]
  <2> TAKE i \in 1 .. lm
  <2>1. \/ i \in 1 .. ll
        \/ i = ll + 1
        \/ i - (ll + 1) \in 1 .. lr /\ i = ll + 1 + (i - (ll + 1))
    BY <1>1
  <2> QED BY <1>2, <2>1
<1>9. \A i \in 1 .. lm + 1 : \/ i \in 1 .. ll + 1 /\ m.kids[i] = l.kids[i]
                             \/ i - (ll + 1) \in 1 .. lr + 1 /\ m.kids[i] = r.kids[i - (ll + 1)]
  <2> TAKE i \in 1 .. lm + 1
  <2>1. \/ i \in 1 .. ll + 1
        \/ i - (ll + 1) \in 1 .. lr + 1 /\ i = ll + 1 + (i - (ll + 1))
    BY <1>1
  <2> QED BY <1>2, <2>1
<1>10. ASSUME NEW i \in 1 .. lm, NEW j \in 1 .. lm, i < j
       PROVE  Before(m.keys[i], m.keys[j])
  <2>1. CASE i \in 1 .. ll /\ m.keys[i] = l.keys[i]
    BY <1>1, <1>3, <1>4, <1>6, <1>8, <1>10, <2>1
  <2>2. CASE i = ll + 1 /\ m.keys[i] = x
    BY <1>1, <1>3, <1>8, <1>10, <2>2
  <2>3. CASE i - (ll + 1) \in 1 .. lr /\ m.keys[i] = r.keys[i - (ll + 1)]
    BY <1>1, <1>4, <1>8, <1>10, <2>3
  <2> QED BY <1>8, <2>1, <2>2, <2>3
<1>11. ASSUME NEW i \in 1 .. lm + 1, NEW y \in HeldBelow[h - 1][m.kids[i]], NEW j \in 1 .. lm
       PROVE  IF i <= j THEN Before(y, m.keys[j]) ELSE Before(m.keys[j], y)
  <2>1. CASE i \in 1 .. ll + 1 /\ m.kids[i] = l.kids[i]
    <3>1. y \in HeldBelow[h][l]
      BY <1>3, <2>1
    <3>2. CASE j \in 1 .. ll /\ m.keys[j] = l.keys[j]
      BY <1>4, <2>1, <3>2
    <3>3. CASE ~(j \in 1 .. ll)
      <4>1. i <= j
        BY <1>1, <2>1, <3>3
      <4> QED BY <1>3, <1>6, <1>8, <3>1, <3>3, <4>1
    <3> QED BY <1>8, <3>2, <3>3, <1>1
  <2>2. CASE i - (ll + 1) \in 1 .. lr + 1 /\ m.kids[i] = r.kids[i - (ll + 1)]
    <3>1. y \in HeldBelow[h][r]
      BY <1>3, <2>2
    <3>2. CASE j - (ll + 1) \in 1 .. lr /\ m.keys[j] = r.keys[j - (ll + 1)]
      <4>1. (i - (ll + 1) <= j - (ll + 1)) <=> i <= j
        BY <1>1
      <4> QED BY <1>4, <2>2, <3>2, <4>1
    <3>3. CASE j \in 1 .. ll + 1
      <4>1. ~(i <= j)
        BY <1>1, <2>2, <3>3
      <4>2. \/ j \in 1 .. ll /\ m.keys[j] = l.keys[j]
            \/ m.keys[j] = x
        BY <1>1, <1>2, <3>3
      <4> QED BY <1>3, <1>6, <3>1, <4>1, <4>2
    <3> QED BY <1>8, <3>2, <3>3, <1>1
  <2> QED BY <1>9, <2>1, <2>2
<1>12. \A i \in DOMAIN m.kids : m.kids[i] \in Sound[h - 1]
  BY <1>5, <1>9
<1> QED BY <1>7, <1>10, <1>11, <1>12 DEF Shape

\* The parts of a node in order are in order and apart.
LEMMA JoinedParts ==
    ASSUME NEW h \in Nat \ {0}, NEW m, Shape(m, h), NEW l \in Nodes[h], NEW r \in Nodes[h],
           NEW x, Joined(m, l, x, r)
    PROVE  /\ Shape(l, h) /\ Shape(r, h) /\ x \in NodeKey
           /\ \A y \in HeldBelow[h][l] : Before(y, x)
           /\ \A y \in HeldBelow[h][r] : Before(x, y)
<1> DEFINE ll == Len(l.keys)  lr == Len(r.keys)  lm == Len(m.keys)
<1>0. m \in Nodes[h]
  BY DEF Shape
<1>1. ll \in Nat /\ lr \in Nat /\ lm \in Nat /\ lm = ll + 1 + lr
  BY NodeIs, <1>0 DEF Joined
<1>2. /\ \A i \in 1 .. ll : m.keys[i] = l.keys[i]
      /\ m.keys[ll + 1] = x
      /\ \A i \in 1 .. lr : m.keys[ll + 1 + i] = r.keys[i]
      /\ \A i \in 1 .. ll + 1 : m.kids[i] = l.kids[i]
      /\ \A i \in 1 .. lr + 1 : m.kids[ll + 1 + i] = r.kids[i]
  BY DEF Joined
<1>3. /\ \A y \in HeldBelow[h][l] :
           \/ \E i \in 1 .. ll : y = l.keys[i]
           \/ \E i \in 1 .. ll + 1 : y \in HeldBelow[h - 1][l.kids[i]]
      /\ \A y \in HeldBelow[h][r] :
           \/ \E i \in 1 .. lr : y = r.keys[i]
           \/ \E i \in 1 .. lr + 1 : y \in HeldBelow[h - 1][r.kids[i]]
  BY HeldIn
<1>4. /\ \A i, j \in 1 .. lm : i < j => Before(m.keys[i], m.keys[j])
      /\ \A i \in 1 .. lm + 1 : \A y \in HeldBelow[h - 1][m.kids[i]] : \A j \in 1 .. lm :
            IF i <= j THEN Before(y, m.keys[j]) ELSE Before(m.keys[j], y)
  BY AscendingIs, <1>0 DEF Shape, InGap
<1>5. /\ \A i \in 1 .. lm : m.keys[i] \in NodeKey
      /\ \A i \in 1 .. lm + 1 : m.kids[i] \in Sound[h - 1]
      /\ DOMAIN l.kids = 1 .. ll + 1 /\ DOMAIN r.kids = 1 .. lr + 1
  BY NodeIs, <1>0 DEF Shape
<1>6. /\ Ascending(l, h) <=>
             /\ \A i, j \in 1 .. ll : i < j => Before(l.keys[i], l.keys[j])
             /\ \A i \in 1 .. ll + 1 : \A y \in HeldBelow[h - 1][l.kids[i]] : \A j \in 1 .. ll :
                  IF i <= j THEN Before(y, l.keys[j]) ELSE Before(l.keys[j], y)
      /\ Ascending(r, h) <=>
             /\ \A i, j \in 1 .. lr : i < j => Before(r.keys[i], r.keys[j])
             /\ \A i \in 1 .. lr + 1 : \A y \in HeldBelow[h - 1][r.kids[i]] : \A j \in 1 .. lr :
                  IF i <= j THEN Before(y, r.keys[j]) ELSE Before(r.keys[j], y)
  BY AscendingIs DEF InGap
<1> HIDE DEF ll, lr, lm
<1>7. /\ \A i \in 1 .. ll : i \in 1 .. lm /\ i < ll + 1
      /\ \A i \in 1 .. lr : ll + 1 + i \in 1 .. lm /\ ll + 1 < ll + 1 + i
      /\ ll + 1 \in 1 .. lm
      /\ \A i \in 1 .. ll + 1 : i \in 1 .. lm + 1 /\ i <= ll + 1
      /\ \A i \in 1 .. lr + 1 : ll + 1 + i \in 1 .. lm + 1 /\ ~(ll + 1 + i <= ll + 1)
      /\ \A i, j \in 1 .. lr + 1 : /\ i < j <=> ll + 1 + i < ll + 1 + j
                                   /\ i <= j <=> ll + 1 + i <= ll + 1 + j
      /\ \A i \in 1 .. lr : i \in 1 .. lr + 1
  BY <1>1
<1>8. /\ \A i, j \in 1 .. ll : i < j => Before(l.keys[i], l.keys[j])
      /\ \A i, j \in 1 .. lr : i < j => Before(r.keys[i], r.keys[j])
  BY <1>2, <1>4, <1>7
<1>9. ASSUME NEW i \in 1 .. ll + 1, NEW y \in HeldBelow[h - 1][l.kids[i]], NEW j \in 1 .. ll
      PROVE  IF i <= j THEN Before(y, l.keys[j]) ELSE Before(l.keys[j], y)
  BY <1>2, <1>4, <1>7
<1>10. ASSUME NEW i \in 1 .. lr + 1, NEW y \in HeldBelow[h - 1][r.kids[i]], NEW j \in 1 .. lr
       PROVE  IF i <= j THEN Before(y, r.keys[j]) ELSE Before(r.keys[j], y)
  <2>1. y \in HeldBelow[h - 1][m.kids[ll + 1 + i]] /\ ll + 1 + i \in 1 .. lm + 1
    BY <1>2, <1>7
  <2>2. r.keys[j] = m.keys[ll + 1 + j] /\ ll + 1 + j \in 1 .. lm
    BY <1>2, <1>7
  <2>3. i <= j <=> ll + 1 + i <= ll + 1 + j
    BY <1>1
  <2> QED BY <1>4, <2>1, <2>2, <2>3
<1>11. Ascending(l, h) /\ Ascending(r, h)
  BY <1>6, <1>8, <1>9, <1>10
<1>12. Shape(l, h) /\ Shape(r, h)
  <2>1. \A i \in DOMAIN l.kids : l.kids[i] \in Sound[h - 1]
    BY <1>2, <1>5, <1>7
  <2>2. \A i \in DOMAIN r.kids : r.kids[i] \in Sound[h - 1]
    BY <1>2, <1>5, <1>7
  <2> QED BY <1>11, <2>1, <2>2 DEF Shape
<1>13. \A y \in HeldBelow[h][l] : Before(y, x)
  <2>1. \A i \in 1 .. ll : Before(l.keys[i], x)
    BY <1>2, <1>4, <1>7
  <2>2. \A i \in 1 .. ll + 1 : \A y \in HeldBelow[h - 1][l.kids[i]] : Before(y, x)
    BY <1>2, <1>4, <1>7
  <2> QED BY <1>3, <2>1, <2>2
<1>14. \A y \in HeldBelow[h][r] : Before(x, y)
  BY <1>2, <1>3, <1>4, <1>7
<1> QED BY <1>2, <1>5, <1>7, <1>12, <1>13, <1>14

\* What a node holds except in its child i.
Others(n, h, i) ==
    {n.keys[j] : j \in 1 .. Len(n.keys)}
    \cup UNION {HeldBelow[h - 1][n.kids[j]] : j \in (1 .. Len(n.keys) + 1) \ {i}}

\* Node m is n with another child i.
Replaced(m, n, i, k) ==
    /\ Len(m.keys) = Len(n.keys)
    /\ \A j \in 1 .. Len(n.keys) : m.keys[j] = n.keys[j]
    /\ \A j \in 1 .. Len(n.keys) + 1 : j # i => m.kids[j] = n.kids[j]
    /\ m.kids[i] = k

\* Node m is n with l, x and r in the place of its child i.
Opened(m, n, i, l, x, r) ==
    /\ Len(m.keys) = Len(n.keys) + 1
    /\ \A j \in 1 .. Len(n.keys) :
          /\ j < i => m.keys[j] = n.keys[j]
          /\ i <= j => m.keys[j + 1] = n.keys[j]
    /\ \A j \in 1 .. Len(n.keys) + 1 :
          /\ j < i => m.kids[j] = n.kids[j]
          /\ i < j => m.kids[j + 1] = n.kids[j]
    /\ m.kids[i] = l /\ m.keys[i] = x /\ m.kids[i + 1] = r

\* A node holds what its child i does and the others.
LEMMA OthersHeld ==
    ASSUME NEW h \in Nat \ {0}, NEW n \in Nodes[h], NEW i \in 1 .. Len(n.keys) + 1
    PROVE  /\ HeldBelow[h][n] = Others(n, h, i) \cup HeldBelow[h - 1][n.kids[i]]
           /\ Others(n, h, i) \subseteq NodeKey
<1>1. HeldBelow[h][n] \subseteq Others(n, h, i) \cup HeldBelow[h - 1][n.kids[i]]
  <2> SUFFICES ASSUME NEW y \in HeldBelow[h][n]
               PROVE  y \in Others(n, h, i) \cup HeldBelow[h - 1][n.kids[i]]
    OBVIOUS
  <2>1. CASE \E j \in 1 .. Len(n.keys) : y = n.keys[j]
    BY <2>1 DEF Others
  <2>2. CASE \E j \in 1 .. Len(n.keys) + 1 : y \in HeldBelow[h - 1][n.kids[j]]
    BY <2>2 DEF Others
  <2> QED BY <2>1, <2>2, HeldIn
<1>2. Others(n, h, i) \subseteq HeldBelow[h][n]
  BY HeldIn DEF Others
<1> QED BY <1>1, <1>2, HeldIn

\* What belongs to a child is nowhere else in the node.
LEMMA GapHoldsNoOther ==
    ASSUME NEW h \in Nat \ {0}, NEW n, Shape(n, h), NEW i \in 1 .. Len(n.keys) + 1,
           NEW y \in NodeKey, InGap(n, i, y)
    PROVE  y \notin Others(n, h, i)
<1> DEFINE len == Len(n.keys)
<1>0. n \in Nodes[h]
  BY DEF Shape
<1>1. len \in Nat /\ \A j \in 1 .. len : n.keys[j] \in NodeKey
  BY <1>0, NodeIs
<1>2. /\ \A j \in 1 .. len : IF i <= j THEN Before(y, n.keys[j]) ELSE Before(n.keys[j], y)
      /\ \A c \in 1 .. len + 1 : \A z \in HeldBelow[h - 1][n.kids[c]] : \A j \in 1 .. len :
            IF c <= j THEN Before(z, n.keys[j]) ELSE Before(n.keys[j], z)
  BY <1>0, AscendingIs DEF Shape, InGap
<1>3. y \in Others(n, h, i) =>
        \/ \E j \in 1 .. len : y = n.keys[j]
        \/ \E j \in (1 .. len + 1) \ {i} : y \in HeldBelow[h - 1][n.kids[j]]
  BY DEF Others
<1> HIDE DEF len
<1>4. ASSUME NEW j \in 1 .. len, y = n.keys[j] PROVE FALSE
  BY <1>1, <1>2, <1>4, BeforeOrder
<1>5. ASSUME NEW j \in (1 .. len + 1) \ {i}, y \in HeldBelow[h - 1][n.kids[j]] PROVE FALSE
  <2>1. i \in Nat
    OBVIOUS
  <2>2. CASE j < i
    <3>1. j \in 1 .. len /\ j <= j /\ ~(i <= j)
      BY <2>1, <2>2, <1>1 DEF len
    <3> QED BY <1>1, <1>2, <1>5, <3>1, BeforeOrder
  <2>3. CASE i < j
    <3>1. i \in 1 .. len /\ i <= i /\ ~(j <= i)
      BY <2>1, <2>3, <1>1
    <3> QED BY <1>1, <1>2, <1>5, <3>1, BeforeOrder
  <2> QED BY <2>1, <2>2, <2>3
<1> QED BY <1>3, <1>4, <1>5

\* A child may be exchanged for one that fits the gap.
LEMMA ReplacedShape ==
    ASSUME NEW h \in Nat \ {0}, NEW n, Shape(n, h), NEW i \in 1 .. Len(n.keys) + 1,
           NEW k \in Sound[h - 1], \A y \in HeldBelow[h - 1][k] : InGap(n, i, y),
           NEW m \in Nodes[h], Replaced(m, n, i, k)
    PROVE  Shape(m, h) /\ HeldBelow[h][m] = Others(n, h, i) \cup HeldBelow[h - 1][k]
<1> DEFINE len == Len(n.keys)
<1>0. n \in Nodes[h]
  BY DEF Shape
<1>1. /\ len \in Nat /\ len = Len(m.keys)
      /\ DOMAIN n.kids = 1 .. len + 1 /\ DOMAIN m.kids = 1 .. len + 1
  BY <1>0, NodeIs DEF Replaced
<1>2. /\ \A j \in 1 .. len : m.keys[j] = n.keys[j]
      /\ \A j \in 1 .. len + 1 : j # i => m.kids[j] = n.kids[j]
      /\ m.kids[i] = k
  BY DEF Replaced
<1>3. /\ \A j, c \in 1 .. len : j < c => Before(n.keys[j], n.keys[c])
      /\ \A c \in 1 .. len + 1 : \A y \in HeldBelow[h - 1][n.kids[c]] : \A j \in 1 .. len :
            IF c <= j THEN Before(y, n.keys[j]) ELSE Before(n.keys[j], y)
      /\ \A y \in HeldBelow[h - 1][k] : \A j \in 1 .. len :
            IF i <= j THEN Before(y, n.keys[j]) ELSE Before(n.keys[j], y)
  BY <1>0, AscendingIs DEF Shape, InGap
<1>4. Ascending(m, h) <=>
      /\ \A j, c \in 1 .. len : j < c => Before(m.keys[j], m.keys[c])
      /\ \A c \in 1 .. len + 1 : \A y \in HeldBelow[h - 1][m.kids[c]] : \A j \in 1 .. len :
            IF c <= j THEN Before(y, m.keys[j]) ELSE Before(m.keys[j], y)
  BY <1>1, AscendingIs DEF InGap
<1>5. Others(m, h, i) = Others(n, h, i)
  <2>1. {m.keys[j] : j \in 1 .. len} = {n.keys[j] : j \in 1 .. len}
    BY <1>2
  <2>2. {HeldBelow[h - 1][m.kids[j]] : j \in (1 .. len + 1) \ {i}}
          = {HeldBelow[h - 1][n.kids[j]] : j \in (1 .. len + 1) \ {i}}
    BY <1>2, SMTT(30)
  <2> QED BY <1>1, <2>1, <2>2 DEF Others
<1>6. HeldBelow[h][m] = Others(n, h, i) \cup HeldBelow[h - 1][k]
  BY <1>1, <1>2, <1>5, OthersHeld
<1>7. \A c \in 1 .. len + 1 : n.kids[c] \in Sound[h - 1]
  BY <1>1 DEF Shape
<1> HIDE DEF len
<1>8. \A j, c \in 1 .. len : j < c => Before(m.keys[j], m.keys[c])
  BY <1>2, <1>3
<1>9. \A c \in 1 .. len + 1 : \A y \in HeldBelow[h - 1][m.kids[c]] : \A j \in 1 .. len :
         IF c <= j THEN Before(y, m.keys[j]) ELSE Before(m.keys[j], y)
  <2> TAKE c \in 1 .. len + 1
  <2> TAKE y \in HeldBelow[h - 1][m.kids[c]]
  <2> TAKE j \in 1 .. len
  <2>1. CASE c = i
    BY <1>2, <1>3, <2>1
  <2>2. CASE c # i
    BY <1>2, <1>3, <2>2
  <2> QED BY <2>1, <2>2
<1>10. \A c \in DOMAIN m.kids : m.kids[c] \in Sound[h - 1]
  BY <1>1, <1>2, <1>7
<1> QED BY <1>4, <1>6, <1>8, <1>9, <1>10 DEF Shape

\* What a node holds after a child became two.
LEMMA OpenedHeld ==
    ASSUME NEW h \in Nat \ {0}, NEW n \in Nodes[h], NEW m \in Nodes[h],
           NEW i \in 1 .. Len(n.keys) + 1, NEW l, NEW x, NEW r, Opened(m, n, i, l, x, r)
    PROVE  HeldBelow[h][m]
             = Others(n, h, i) \cup HeldBelow[h - 1][l] \cup {x} \cup HeldBelow[h - 1][r]
<1> DEFINE len == Len(n.keys)
           All == Others(n, h, i) \cup HeldBelow[h - 1][l] \cup {x} \cup HeldBelow[h - 1][r]
<1>1. len \in Nat /\ Len(m.keys) = len + 1
  BY NodeIs DEF Opened
<1>2. /\ \A j \in 1 .. len : /\ j < i => m.keys[j] = n.keys[j]
                             /\ i <= j => m.keys[j + 1] = n.keys[j]
      /\ \A j \in 1 .. len + 1 : /\ j < i => m.kids[j] = n.kids[j]
                                 /\ i < j => m.kids[j + 1] = n.kids[j]
      /\ m.kids[i] = l /\ m.keys[i] = x /\ m.kids[i + 1] = r
  BY DEF Opened
<1>3. /\ \A j \in 1 .. len + 1 : m.keys[j] \in HeldBelow[h][m]
      /\ \A j \in 1 .. len + 2 : HeldBelow[h - 1][m.kids[j]] \subseteq HeldBelow[h][m]
      /\ \A y \in HeldBelow[h][m] :
           \/ \E j \in 1 .. len + 1 : y = m.keys[j]
           \/ \E j \in 1 .. len + 2 : y \in HeldBelow[h - 1][m.kids[j]]
  <2>1. (len + 1) + 1 = len + 2
    BY <1>1
  <2> QED BY <1>1, <2>1, HeldIn
<1>4. /\ \A j \in 1 .. len : n.keys[j] \in Others(n, h, i)
      /\ \A j \in 1 .. len + 1 : j # i => HeldBelow[h - 1][n.kids[j]] \subseteq Others(n, h, i)
      /\ \A y \in Others(n, h, i) :
           \/ \E j \in 1 .. len : y = n.keys[j]
           \/ \E j \in 1 .. len + 1 : j # i /\ y \in HeldBelow[h - 1][n.kids[j]]
  BY DEF Others
<1>5. i \in 1 .. len + 1
  OBVIOUS
<1> HIDE DEF len
<1>6. \A j \in 1 .. len + 1 : \/ j \in 1 .. len /\ m.keys[j] = n.keys[j]
                              \/ j - 1 \in 1 .. len /\ m.keys[j] = n.keys[j - 1]
                              \/ m.keys[j] = x
  <2> TAKE j \in 1 .. len + 1
  <2>1. CASE j < i
    BY <1>1, <1>2, <1>5, <2>1
  <2>2. CASE j = i
    BY <1>2, <2>2
  <2>3. CASE i < j
    <3>1. j - 1 \in 1 .. len /\ i <= j - 1 /\ (j - 1) + 1 = j
      BY <1>1, <1>5, <2>3
    <3> QED BY <1>2, <3>1
  <2> QED BY <1>1, <1>5, <2>1, <2>2, <2>3
<1>7. \A j \in 1 .. len + 2 : \/ j \in 1 .. len + 1 /\ j # i /\ m.kids[j] = n.kids[j]
                              \/ j - 1 \in 1 .. len + 1 /\ j - 1 # i /\ m.kids[j] = n.kids[j - 1]
                              \/ m.kids[j] = l
                              \/ m.kids[j] = r
  <2> TAKE j \in 1 .. len + 2
  <2>1. CASE j < i
    BY <1>1, <1>2, <1>5, <2>1
  <2>2. CASE j = i \/ j = i + 1
    BY <1>2, <2>2
  <2>3. CASE i + 1 < j
    <3>1. j - 1 \in 1 .. len + 1 /\ i < j - 1 /\ (j - 1) + 1 = j /\ j - 1 # i
      BY <1>1, <1>5, <2>3
    <3> QED BY <1>2, <3>1
  <2> QED BY <1>1, <1>5, <2>1, <2>2, <2>3
<1>8. HeldBelow[h][m] \subseteq All
  <2>1. \A j \in 1 .. len + 1 : m.keys[j] \in All
    BY <1>4, <1>6
  <2>2. \A j \in 1 .. len + 2 : HeldBelow[h - 1][m.kids[j]] \subseteq All
    BY <1>4, <1>7
  <2> HIDE DEF All
  <2> QED BY <1>3, <2>1, <2>2
<1>9. Others(n, h, i) \subseteq HeldBelow[h][m]
  <2>1. ASSUME NEW j \in 1 .. len PROVE n.keys[j] \in HeldBelow[h][m]
    <3>1. CASE j < i
      BY <1>1, <1>2, <1>3, <3>1
    <3>2. CASE i <= j
      <4>1. j + 1 \in 1 .. len + 1
        BY <1>1
      <4> QED BY <1>2, <1>3, <3>2, <4>1
    <3> QED BY <1>5, <3>1, <3>2
  <2>2. ASSUME NEW j \in 1 .. len + 1, j # i
        PROVE HeldBelow[h - 1][n.kids[j]] \subseteq HeldBelow[h][m]
    <3>1. CASE j < i
      <4>1. j \in 1 .. len + 2
        BY <1>1
      <4> QED BY <1>2, <1>3, <3>1, <4>1
    <3>2. CASE i < j
      <4>1. j + 1 \in 1 .. len + 2
        BY <1>1
      <4> QED BY <1>2, <1>3, <3>2, <4>1
    <3> QED BY <1>5, <2>2, <3>1, <3>2
  <2> QED BY <1>4, <2>1, <2>2
<1>10. HeldBelow[h - 1][l] \cup {x} \cup HeldBelow[h - 1][r] \subseteq HeldBelow[h][m]
  <2>1. i \in 1 .. len + 2 /\ i + 1 \in 1 .. len + 2
    BY <1>1, <1>5
  <2> QED BY <1>2, <1>3, <1>5, <2>1
<1> QED BY <1>8, <1>9, <1>10

\* A child may become two with an item between them.
LEMMA OpenedShape ==
    ASSUME NEW h \in Nat \ {0}, NEW n, Shape(n, h), NEW m \in Nodes[h],
           NEW i \in 1 .. Len(n.keys) + 1,
           NEW l \in Sound[h - 1], NEW x \in NodeKey, NEW r \in Sound[h - 1],
           Opened(m, n, i, l, x, r), InGap(n, i, x),
           \A y \in HeldBelow[h - 1][l] : InGap(n, i, y) /\ Before(y, x),
           \A y \in HeldBelow[h - 1][r] : InGap(n, i, y) /\ Before(x, y)
    PROVE  Shape(m, h)
<1> DEFINE len == Len(n.keys)
<1>0. n \in Nodes[h]
  BY DEF Shape
<1>1. len \in Nat /\ Len(m.keys) = len + 1 /\ DOMAIN m.kids = 1 .. len + 2
  <2>1. len \in Nat /\ Len(m.keys) = len + 1 /\ DOMAIN m.kids = 1 .. (len + 1) + 1
    BY <1>0, NodeIs DEF Opened
  <2>2. (len + 1) + 1 = len + 2
    BY <2>1
  <2> QED BY <2>1, <2>2
<1>2. /\ \A j \in 1 .. len : /\ j < i => m.keys[j] = n.keys[j]
                             /\ i <= j => m.keys[j + 1] = n.keys[j]
      /\ \A j \in 1 .. len + 1 : /\ j < i => m.kids[j] = n.kids[j]
                                 /\ i < j => m.kids[j + 1] = n.kids[j]
      /\ m.kids[i] = l /\ m.keys[i] = x /\ m.kids[i + 1] = r
  BY DEF Opened
<1>3. /\ \A j, c \in 1 .. len : j < c => Before(n.keys[j], n.keys[c])
      /\ \A c \in 1 .. len + 1 : \A y \in HeldBelow[h - 1][n.kids[c]] : \A j \in 1 .. len :
            IF c <= j THEN Before(y, n.keys[j]) ELSE Before(n.keys[j], y)
      /\ \A y \in HeldBelow[h - 1][l] : \A j \in 1 .. len :
            IF i <= j THEN Before(y, n.keys[j]) ELSE Before(n.keys[j], y)
      /\ \A y \in HeldBelow[h - 1][r] : \A j \in 1 .. len :
            IF i <= j THEN Before(y, n.keys[j]) ELSE Before(n.keys[j], y)
      /\ \A j \in 1 .. len : IF i <= j THEN Before(x, n.keys[j]) ELSE Before(n.keys[j], x)
  BY <1>0, AscendingIs DEF Shape, InGap
<1>4. Ascending(m, h) <=>
      /\ \A j, c \in 1 .. len + 1 : j < c => Before(m.keys[j], m.keys[c])
      /\ \A c \in 1 .. len + 2 : \A y \in HeldBelow[h - 1][m.kids[c]] : \A j \in 1 .. len + 1 :
            IF c <= j THEN Before(y, m.keys[j]) ELSE Before(m.keys[j], y)
  <2>1. (len + 1) + 1 = len + 2
    BY <1>1
  <2> QED BY <1>1, <2>1, AscendingIs DEF InGap
<1>5. /\ \A c \in 1 .. len + 1 : n.kids[c] \in Sound[h - 1]
      /\ \A c \in 1 .. len + 1 : HeldBelow[h - 1][n.kids[c]] \subseteq NodeKey
      /\ \A j \in 1 .. len : n.keys[j] \in NodeKey
  <2>1. DOMAIN n.kids = 1 .. len + 1
    BY <1>0, NodeIs
  <2> QED BY <1>0, <2>1, NodeIs, HeldIn DEF Shape
<1>6. i \in 1 .. len + 1
  OBVIOUS
<1> HIDE DEF len
<1>7. \A j \in 1 .. len + 1 : \/ j \in 1 .. len /\ j < i /\ m.keys[j] = n.keys[j]
                              \/ j = i /\ m.keys[j] = x
                              \/ j - 1 \in 1 .. len /\ i <= j - 1 /\ m.keys[j] = n.keys[j - 1]
  <2> TAKE j \in 1 .. len + 1
  <2>1. CASE j < i
    BY <1>1, <1>2, <1>6, <2>1
  <2>2. CASE j = i
    BY <1>2, <2>2
  <2>3. CASE i < j
    <3>1. j - 1 \in 1 .. len /\ i <= j - 1 /\ (j - 1) + 1 = j
      BY <1>1, <1>6, <2>3
    <3> QED BY <1>2, <3>1
  <2> QED BY <1>1, <1>6, <2>1, <2>2, <2>3
<1>8. \A j \in 1 .. len + 2 :
         \/ j \in 1 .. len + 1 /\ j < i /\ m.kids[j] = n.kids[j]
         \/ j = i /\ m.kids[j] = l
         \/ j = i + 1 /\ m.kids[j] = r
         \/ j - 1 \in 1 .. len + 1 /\ i < j - 1 /\ m.kids[j] = n.kids[j - 1]
  <2> TAKE j \in 1 .. len + 2
  <2>1. CASE j < i
    BY <1>1, <1>2, <1>6, <2>1
  <2>2. CASE j = i \/ j = i + 1
    BY <1>2, <2>2
  <2>3. CASE i + 1 < j
    <3>1. j - 1 \in 1 .. len + 1 /\ i < j - 1 /\ (j - 1) + 1 = j
      BY <1>1, <1>6, <2>3
    <3> QED BY <1>2, <3>1
  <2> QED BY <1>1, <1>6, <2>1, <2>2, <2>3
<1>9. ASSUME NEW j \in 1 .. len + 1, NEW c \in 1 .. len + 1, j < c
      PROVE  Before(m.keys[j], m.keys[c])
  <2>1. CASE j \in 1 .. len /\ j < i /\ m.keys[j] = n.keys[j]
    BY <1>1, <1>3, <1>6, <1>7, <1>9, <2>1
  <2>2. CASE j = i /\ m.keys[j] = x
    BY <1>1, <1>3, <1>6, <1>7, <1>9, <2>2
  <2>3. CASE j - 1 \in 1 .. len /\ i <= j - 1 /\ m.keys[j] = n.keys[j - 1]
    BY <1>1, <1>3, <1>6, <1>7, <1>9, <2>3, SMTT(30)
  <2> QED BY <1>7, <2>1, <2>2, <2>3
<1>10. ASSUME NEW c \in 1 .. len + 2, NEW y \in HeldBelow[h - 1][m.kids[c]],
              NEW j \in 1 .. len + 1
       PROVE  IF c <= j THEN Before(y, m.keys[j]) ELSE Before(m.keys[j], y)
  <2>1. CASE c \in 1 .. len + 1 /\ c < i /\ m.kids[c] = n.kids[c]
    <3>1. y \in NodeKey /\ c \in 1 .. len
      BY <1>1, <1>5, <1>6, <2>1
    <3>2. Before(y, n.keys[c]) /\ Before(n.keys[c], x)
      <4>1. y \in HeldBelow[h - 1][n.kids[c]] /\ c \in 1 .. len + 1 /\ c <= c /\ ~(i <= c)
        BY <1>6, <2>1
      <4>2. Before(y, n.keys[c])
        BY <1>3, <3>1, <4>1
      <4>3. Before(n.keys[c], x)
        BY <1>3, <3>1, <4>1
      <4> QED BY <4>2, <4>3
    <3>3. Before(y, x)
      BY <1>5, <3>1, <3>2, BeforeOrder
    <3>4. CASE j \in 1 .. len /\ j < i /\ m.keys[j] = n.keys[j]
      BY <1>3, <2>1, <3>4
    <3>5. CASE j = i /\ m.keys[j] = x
      BY <2>1, <3>3, <3>5
    <3>6. CASE j - 1 \in 1 .. len /\ i <= j - 1 /\ m.keys[j] = n.keys[j - 1]
      <4>1. c <= j /\ c <= j - 1
        BY <1>6, <2>1, <3>6
      <4> QED BY <1>3, <2>1, <3>6, <4>1
    <3> QED BY <1>7, <3>4, <3>5, <3>6
  <2>2. CASE c = i /\ m.kids[c] = l
    BY <1>1, <1>3, <1>6, <1>7, <2>2, SMTT(30)
  <2>3. CASE c = i + 1 /\ m.kids[c] = r
    BY <1>1, <1>3, <1>6, <1>7, <2>3
  <2>4. CASE c - 1 \in 1 .. len + 1 /\ i < c - 1 /\ m.kids[c] = n.kids[c - 1]
    <3>1. y \in NodeKey /\ i \in 1 .. len
      BY <1>1, <1>5, <1>6, <2>4
    <3>2. Before(x, n.keys[i]) /\ Before(n.keys[i], y)
      BY <1>3, <1>6, <2>4, <3>1
    <3>3. Before(x, y)
      BY <1>5, <3>1, <3>2, BeforeOrder
    <3>4. CASE j \in 1 .. len /\ j < i /\ m.keys[j] = n.keys[j]
      <4>1. ~(c <= j) /\ ~(c - 1 <= j)
        BY <1>6, <2>4, <3>4
      <4> QED BY <1>3, <2>4, <3>4, <4>1
    <3>5. CASE j = i /\ m.keys[j] = x
      <4>1. ~(c <= j)
        BY <1>6, <2>4, <3>5
      <4> QED BY <3>3, <3>5, <4>1
    <3>6. CASE j - 1 \in 1 .. len /\ i <= j - 1 /\ m.keys[j] = n.keys[j - 1]
      <4>1. c <= j <=> c - 1 <= j - 1
        BY <1>6, <2>4, <3>6
      <4> QED BY <1>3, <2>4, <3>6, <4>1
    <3> QED BY <1>7, <3>4, <3>5, <3>6
  <2> QED BY <1>8, <2>1, <2>2, <2>3, <2>4
<1>11. \A c \in DOMAIN m.kids : m.kids[c] \in Sound[h - 1]
  BY <1>1, <1>5, <1>8
<1> QED BY <1>4, <1>9, <1>10, <1>11 DEF Shape

\* Two children and the item between them may become one child.
LEMMA ClosedShape ==
    ASSUME NEW h \in Nat \ {0}, NEW m, Shape(m, h), NEW n \in Nodes[h],
           NEW i \in 1 .. Len(n.keys) + 1, NEW l, NEW x, NEW r, Opened(m, n, i, l, x, r),
           n.kids[i] \in Sound[h - 1],
           HeldBelow[h - 1][n.kids[i]]
             \subseteq HeldBelow[h - 1][l] \cup {x} \cup HeldBelow[h - 1][r]
    PROVE  /\ Shape(n, h)
           /\ l \in Sound[h - 1] /\ r \in Sound[h - 1] /\ x \in NodeKey
           /\ \A y \in HeldBelow[h - 1][l] : InGap(n, i, y) /\ Before(y, x)
           /\ \A y \in HeldBelow[h - 1][r] : InGap(n, i, y) /\ Before(x, y)
           /\ InGap(n, i, x)
<1> DEFINE len == Len(n.keys)
<1>0. m \in Nodes[h]
  BY DEF Shape
<1>1. len \in Nat /\ Len(m.keys) = len + 1 /\ DOMAIN m.kids = 1 .. len + 2
      /\ DOMAIN n.kids = 1 .. len + 1
  <2>1. /\ len \in Nat /\ Len(m.keys) = len + 1 /\ DOMAIN m.kids = 1 .. (len + 1) + 1
        /\ DOMAIN n.kids = 1 .. len + 1
    BY <1>0, NodeIs DEF Opened
  <2>2. (len + 1) + 1 = len + 2
    BY <2>1
  <2> QED BY <2>1, <2>2
<1>2. /\ \A j \in 1 .. len : /\ j < i => m.keys[j] = n.keys[j]
                             /\ i <= j => m.keys[j + 1] = n.keys[j]
      /\ \A j \in 1 .. len + 1 : /\ j < i => m.kids[j] = n.kids[j]
                                 /\ i < j => m.kids[j + 1] = n.kids[j]
      /\ m.kids[i] = l /\ m.keys[i] = x /\ m.kids[i + 1] = r
  BY DEF Opened
<1>3. /\ \A j, c \in 1 .. len + 1 : j < c => Before(m.keys[j], m.keys[c])
      /\ \A c \in 1 .. len + 2 : \A y \in HeldBelow[h - 1][m.kids[c]] : \A j \in 1 .. len + 1 :
            IF c <= j THEN Before(y, m.keys[j]) ELSE Before(m.keys[j], y)
  <2>1. (len + 1) + 1 = len + 2
    BY <1>1
  <2> QED BY <1>0, <1>1, <2>1, AscendingIs DEF Shape, InGap
<1>4. Ascending(n, h) <=>
      /\ \A j, c \in 1 .. len : j < c => Before(n.keys[j], n.keys[c])
      /\ \A c \in 1 .. len + 1 : \A y \in HeldBelow[h - 1][n.kids[c]] : \A j \in 1 .. len :
            IF c <= j THEN Before(y, n.keys[j]) ELSE Before(n.keys[j], y)
  BY AscendingIs DEF InGap
<1>5. /\ \A c \in 1 .. len + 2 : m.kids[c] \in Sound[h - 1]
      /\ m.keys[i] \in NodeKey
  BY <1>0, <1>1, NodeIs DEF Shape
<1>6. i \in 1 .. len + 1
  OBVIOUS
<1>7. \A y : InGap(n, i, y) <=>
        \A j \in 1 .. len : IF i <= j THEN Before(y, n.keys[j]) ELSE Before(n.keys[j], y)
  BY DEF InGap
<1> HIDE DEF len
<1>8. \A j \in 1 .. len : \/ j \in 1 .. len + 1 /\ j < i /\ n.keys[j] = m.keys[j]
                          \/ j + 1 \in 1 .. len + 1 /\ i <= j /\ n.keys[j] = m.keys[j + 1]
  <2> TAKE j \in 1 .. len
  <2>1. j \in 1 .. len + 1 /\ j + 1 \in 1 .. len + 1
    BY <1>1
  <2> QED BY <1>2, <1>6, <2>1
<1>9. \A c \in 1 .. len + 1 :
         \/ c \in 1 .. len + 2 /\ c < i /\ n.kids[c] = m.kids[c]
         \/ c = i
         \/ c + 1 \in 1 .. len + 2 /\ i < c /\ n.kids[c] = m.kids[c + 1]
  <2> TAKE c \in 1 .. len + 1
  <2>1. c \in 1 .. len + 2 /\ c + 1 \in 1 .. len + 2
    BY <1>1
  <2> QED BY <1>2, <1>6, <2>1
<1>10. i \in 1 .. len + 2 /\ i + 1 \in 1 .. len + 2
  BY <1>1, <1>6
<1>11. ASSUME NEW y \in HeldBelow[h - 1][l] PROVE InGap(n, i, y) /\ Before(y, x)
  <2>1. \A j \in 1 .. len + 1 : IF i <= j THEN Before(y, m.keys[j]) ELSE Before(m.keys[j], y)
    BY <1>2, <1>3, <1>10
  <2>2. ASSUME NEW j \in 1 .. len
        PROVE  IF i <= j THEN Before(y, n.keys[j]) ELSE Before(n.keys[j], y)
    BY <1>1, <1>6, <1>8, <2>1
  <2>3. Before(y, x)
    BY <1>2, <1>6, <2>1
  <2> QED BY <1>7, <2>2, <2>3
<1>12. ASSUME NEW y \in HeldBelow[h - 1][r] PROVE InGap(n, i, y) /\ Before(x, y)
  <2>1. \A j \in 1 .. len + 1 : IF i + 1 <= j THEN Before(y, m.keys[j]) ELSE Before(m.keys[j], y)
    BY <1>2, <1>3, <1>10
  <2>2. ASSUME NEW j \in 1 .. len
        PROVE  IF i <= j THEN Before(y, n.keys[j]) ELSE Before(n.keys[j], y)
    BY <1>1, <1>6, <1>8, <2>1
  <2>3. Before(x, y)
    BY <1>2, <1>6, <2>1
  <2> QED BY <1>7, <2>2, <2>3
<1>13. InGap(n, i, x)
  <2>1. ASSUME NEW j \in 1 .. len
        PROVE  IF i <= j THEN Before(x, n.keys[j]) ELSE Before(n.keys[j], x)
    <3>1. CASE j \in 1 .. len + 1 /\ j < i /\ n.keys[j] = m.keys[j]
      BY <1>2, <1>3, <1>6, <3>1
    <3>2. CASE j + 1 \in 1 .. len + 1 /\ i <= j /\ n.keys[j] = m.keys[j + 1]
      <4>1. i < j + 1
        BY <1>6, <3>2
      <4> QED BY <1>2, <1>3, <1>6, <3>2, <4>1
    <3> QED BY <1>8, <3>1, <3>2
  <2> QED BY <1>7, <2>1
<1>14. ASSUME NEW j \in 1 .. len, NEW c \in 1 .. len, j < c PROVE Before(n.keys[j], n.keys[c])
  <2>1. PICK j1 \in 1 .. len + 1 :
          n.keys[j] = m.keys[j1] /\ ((j1 = j /\ j < i) \/ (j1 = j + 1 /\ i <= j))
    BY <1>8
  <2>2. PICK c1 \in 1 .. len + 1 :
          n.keys[c] = m.keys[c1] /\ ((c1 = c /\ c < i) \/ (c1 = c + 1 /\ i <= c))
    BY <1>8
  <2>3. j1 < c1
    BY <1>6, <1>14, <2>1, <2>2
  <2> QED BY <1>3, <2>1, <2>2, <2>3
<1>15. ASSUME NEW c \in 1 .. len + 1, NEW y \in HeldBelow[h - 1][n.kids[c]], NEW j \in 1 .. len
       PROVE  IF c <= j THEN Before(y, n.keys[j]) ELSE Before(n.keys[j], y)
  <2>0. PICK j1 \in 1 .. len + 1 :
          n.keys[j] = m.keys[j1] /\ ((j1 = j /\ j < i) \/ (j1 = j + 1 /\ i <= j))
    BY <1>8
  <2>1. CASE c \in 1 .. len + 2 /\ c < i /\ n.kids[c] = m.kids[c]
    <3>1. c <= j1 <=> c <= j
      BY <1>6, <2>0, <2>1
    <3> QED BY <1>3, <2>0, <2>1, <3>1
  <2>2. CASE c = i
    BY <1>7, <1>11, <1>12, <1>13, <2>2
  <2>3. CASE c + 1 \in 1 .. len + 2 /\ i < c /\ n.kids[c] = m.kids[c + 1]
    <3>1. c + 1 <= j1 <=> c <= j
      BY <1>6, <2>0, <2>3
    <3> QED BY <1>3, <2>0, <2>3, <3>1
  <2> QED BY <1>9, <2>1, <2>2, <2>3
<1>16. \A c \in DOMAIN n.kids : n.kids[c] \in Sound[h - 1]
  BY <1>1, <1>5, <1>9
<1> QED BY <1>2, <1>4, <1>5, <1>10, <1>11, <1>12, <1>13, <1>14, <1>15, <1>16 DEF Shape

-----------------------------------------------------------------------------
(* Places in a node *)

\* An initial segment is as long as it has members.
LEMMA Prefix ==
    ASSUME NEW len \in Nat, NEW S \in SUBSET (1 .. len),
           \A i \in S : \A j \in 1 .. i : j \in S
    PROVE  /\ Cardinality(S) \in 0 .. len
           /\ \A j \in 1 .. len : j \in S <=> j <= Cardinality(S)
<1> DEFINE T == (1 .. len + 1) \ S
<1>1. T \in SUBSET Nat /\ T # {}
  <2>1. len + 1 \in T
    OBVIOUS
  <2> QED BY <2>1
<1>2. PICK t \in T : \A y \in T : t <= y
  <2> HIDE DEF T
  <2> QED BY <1>1, NodesLevel!Least
<1>3. \A j \in 1 .. len : j < t => j \in S
  BY <1>2
<1>4. \A j \in 1 .. len : t <= j => j \notin S
  BY <1>2
<1>5. t \in 1 .. len + 1
  BY <1>2
<1> HIDE DEF T
<1>6. S = 1 .. t - 1
  <2>1. \A j \in S : j \in 1 .. len /\ j < t
    BY <1>4, <1>5
  <2>2. \A j \in 1 .. t - 1 : j \in 1 .. len /\ j < t
    BY <1>5
  <2>3. \A j \in S : j \in 1 .. t - 1
    BY <1>5, <2>1
  <2>4. \A j \in 1 .. t - 1 : j \in S
    BY <1>3, <2>2
  <2> QED BY <2>3, <2>4
<1>7. Cardinality(1 .. t - 1) = t - 1
  BY <1>5, FS_Interval
<1> QED BY <1>3, <1>4, <1>5, <1>6, <1>7

\* Pos counts the keys before an item, which come first.
LEMMA PosIs ==
    ASSUME NEW h \in Nat \ {0}, NEW n, Shape(n, h), NEW x \in NodeKey
    PROVE  /\ Pos(n, x) \in 0 .. Len(n.keys)
           /\ \A j \in 1 .. Len(n.keys) : Before(n.keys[j], x) <=> j <= Pos(n, x)
<1> DEFINE len == Len(n.keys)
           S == {i \in 1 .. len : Before(n.keys[i], x)}
<1>1. n \in Nodes[h]
  BY DEF Shape
<1>2. len \in Nat /\ DOMAIN n.keys = 1 .. len /\ \A j \in 1 .. len : n.keys[j] \in NodeKey
  BY <1>1, NodeIs
<1>3. \A i, j \in 1 .. len : i < j => Before(n.keys[i], n.keys[j])
  BY <1>1, AscendingIs DEF Shape
<1>4. Pos(n, x) = Cardinality(S)
  BY <1>2 DEF Pos
<1> HIDE DEF len
<1>5. ASSUME NEW i \in S, NEW j \in 1 .. i PROVE j \in S
  <2>1. j \in 1 .. len /\ (j = i \/ j < i)
    BY <1>2
  <2> QED BY <1>2, <1>3, <2>1, BeforeOrder
<1>6. S \in SUBSET (1 .. len)
  OBVIOUS
<1>7. \A j \in 1 .. len : j \in S <=> Before(n.keys[j], x)
  OBVIOUS
<1> HIDE DEF S
<1>8. Cardinality(S) \in 0 .. len /\ \A j \in 1 .. len : j \in S <=> j <= Cardinality(S)
  BY <1>2, <1>5, <1>6, Prefix
<1> QED BY <1>4, <1>7, <1>8 DEF len

\* An item that a node's keys do not name belongs between two of them.
LEMMA PosIsGap ==
    ASSUME NEW h \in Nat \ {0}, NEW n, Shape(n, h), NEW x \in NodeKey, ~HasAt(n, Pos(n, x), x)
    PROVE  InGap(n, Pos(n, x) + 1, x)
<1> DEFINE len == Len(n.keys)  pos == Pos(n, x)
<1>1. n \in Nodes[h]
  BY DEF Shape
<1>2. len \in Nat /\ \A j \in 1 .. len : n.keys[j] \in NodeKey
  BY <1>1, NodeIs
<1>3. pos \in 0 .. len /\ \A j \in 1 .. len : Before(n.keys[j], x) <=> j <= pos
  BY PosIs
<1>4. pos < len => n.keys[pos + 1] # x
  BY DEF HasAt
<1>5. \A i, j \in 1 .. len : i < j => Before(n.keys[i], n.keys[j])
  BY <1>1, AscendingIs DEF Shape
<1> HIDE DEF len, pos
<1>6. ASSUME NEW j \in 1 .. len
      PROVE  IF pos + 1 <= j THEN Before(x, n.keys[j]) ELSE Before(n.keys[j], x)
  <2>1. CASE pos + 1 <= j
    <3>1. ~Before(n.keys[j], x)
      BY <1>3, <2>1
    <3>2. n.keys[j] # x
      <4>1. CASE j = pos + 1
        <5>1. pos < len
          BY <1>2, <1>3, <4>1
        <5> QED BY <1>4, <4>1, <5>1
      <4>2. CASE pos + 1 < j
        <5>1. pos + 1 \in 1 .. len /\ ~(pos + 1 <= pos)
          BY <1>2, <1>3, <4>2
        <5>2. Before(n.keys[pos + 1], n.keys[j]) /\ ~Before(n.keys[pos + 1], x)
          BY <1>3, <1>5, <4>2, <5>1
        <5> QED BY <5>2
      <4> QED BY <1>2, <1>3, <2>1, <4>1, <4>2
    <3> QED BY <1>2, <2>1, <3>1, <3>2, BeforeOrder
  <2>2. CASE ~(pos + 1 <= j)
    BY <1>2, <1>3, <2>2
  <2> QED BY <2>1, <2>2
<1> QED BY <1>6 DEF InGap, len, pos

\* What InsertAt does to a sequence.
LEMMA InsertAtIs ==
    ASSUME NEW S, NEW s \in Seq(S), NEW i \in 1 .. Len(s) + 1, NEW e \in S
    PROVE  /\ InsertAt(s, i, e) \in Seq(S)
           /\ Len(InsertAt(s, i, e)) = Len(s) + 1
           /\ \A j \in 1 .. Len(s) : /\ j < i => InsertAt(s, i, e)[j] = s[j]
                                     /\ i <= j => InsertAt(s, i, e)[j + 1] = s[j]
           /\ InsertAt(s, i, e)[i] = e
<1> DEFINE a == SubSeq(s, 1, i - 1)  b == SubSeq(s, i, Len(s))  len == Len(s)
<1>1. len \in Nat /\ i \in 1 .. len + 1 /\ \A j \in 1 .. len : s[j] \in S
  BY LenProperties
<1>2. /\ a \in Seq(S) /\ Len(a) = i - 1 /\ \A j \in 1 .. i - 1 : a[j] = s[j]
  <2>1. \A j \in 1 .. i - 1 : s[j] \in S
    BY <1>1
  <2>2. Len(SubSeq(s, 1, i - 1)) = IF 1 <= i - 1 THEN (i - 1) - 1 + 1 ELSE 0
    BY <2>1, <1>1, SubSeqProperties
  <2>3. \A j \in 1 .. (i - 1) - 1 + 1 : SubSeq(s, 1, i - 1)[j] = s[1 + j - 1]
    BY <2>1, <1>1, SubSeqProperties
  <2>4. SubSeq(s, 1, i - 1) \in Seq(S)
    BY <2>1, <1>1, SubSeqProperties
  <2> QED BY <1>1, <2>2, <2>3, <2>4
<1>3. b \in Seq(S) /\ Len(b) = len - i + 1 /\ \A j \in 1 .. len - i + 1 : b[j] = s[i + j - 1]
  <2>1. \A j \in i .. len : s[j] \in S
    BY <1>1
  <2>2. Len(SubSeq(s, i, len)) = IF i <= len THEN len - i + 1 ELSE 0
    BY <2>1, <1>1, SubSeqProperties
  <2>3. \A j \in 1 .. len - i + 1 : SubSeq(s, i, len)[j] = s[i + j - 1]
    BY <2>1, <1>1, SubSeqProperties
  <2>4. SubSeq(s, i, len) \in Seq(S)
    BY <2>1, <1>1, SubSeqProperties
  <2> QED BY <1>1, <2>2, <2>3, <2>4
<1> DEFINE c == a \o <<e>>
<1>4. <<e>> \in Seq(S) /\ Len(<<e>>) = 1 /\ <<e>>[1] = e
  OBVIOUS
<1> HIDE DEF a, b, len
<1>5. /\ c \in Seq(S) /\ Len(c) = i
      /\ \A j \in 1 .. i : c[j] = IF j <= i - 1 THEN s[j] ELSE e
  <2>1. c \in Seq(S) /\ Len(c) = Len(a) + 1
    BY <1>2, <1>4, ConcatProperties
  <2>2. \A j \in 1 .. Len(a) + 1 : c[j] = IF j <= Len(a) THEN a[j] ELSE <<e>>[j - Len(a)]
    BY <1>2, <1>4, ConcatProperties
  <2> HIDE DEF c
  <2>3. Len(c) = i
    BY <1>1, <1>2, <2>1
  <2>4. ASSUME NEW j \in 1 .. i PROVE c[j] = IF j <= i - 1 THEN s[j] ELSE e
    <3>1. CASE j <= i - 1
      BY <1>1, <1>2, <2>2, <3>1
    <3>2. CASE j = i
      <4>1. j - Len(a) = 1 /\ ~(j <= Len(a)) /\ j \in 1 .. Len(a) + 1
        BY <1>1, <1>2, <3>2
      <4> QED BY <1>1, <1>4, <2>2, <3>2, <4>1
    <3> QED BY <3>1, <3>2
  <2> QED BY <2>1, <2>3, <2>4
<1> DEFINE d == c \o b
<1> HIDE DEF c
<1>6. /\ d \in Seq(S) /\ Len(d) = Len(c) + Len(b)
      /\ \A j \in 1 .. Len(c) + Len(b) : d[j] = IF j <= Len(c) THEN c[j] ELSE b[j - Len(c)]
  BY <1>3, <1>5, ConcatProperties
<1>7. InsertAt(s, i, e) = d
  BY DEF InsertAt, a, b, c, len
<1> HIDE DEF d
<1>8. /\ Len(d) = len + 1
      /\ \A j \in 1 .. len + 1 : d[j] = IF j <= i THEN c[j] ELSE b[j - i]
  BY <1>1, <1>3, <1>5, <1>6
<1>9. ASSUME NEW j \in 1 .. len, j < i PROVE d[j] = s[j]
  <2>1. j \in 1 .. len + 1 /\ j <= i /\ j \in 1 .. i /\ j <= i - 1
    BY <1>1, <1>9
  <2> QED BY <1>5, <1>8, <2>1
<1>10. ASSUME NEW j \in 1 .. len, i <= j PROVE d[j + 1] = s[j]
  <2>1. /\ j + 1 \in 1 .. len + 1 /\ ~(j + 1 <= i)
        /\ (j + 1) - i \in 1 .. len - i + 1 /\ i + ((j + 1) - i) - 1 = j
    BY <1>1, <1>10
  <2> QED BY <1>3, <1>8, <2>1
<1>11. d[i] = e
  <2>1. i \in 1 .. len + 1 /\ i <= i /\ ~(i <= i - 1) /\ i \in 1 .. i
    BY <1>1
  <2> QED BY <1>5, <1>8, <2>1
<1> QED BY <1>6, <1>7, <1>8, <1>9, <1>10, <1>11 DEF len

\* What RemoveAt does to a sequence.
LEMMA RemoveAtIs ==
    ASSUME NEW S, NEW s \in Seq(S), NEW i \in 1 .. Len(s)
    PROVE  /\ RemoveAt(s, i) \in Seq(S)
           /\ Len(RemoveAt(s, i)) = Len(s) - 1
           /\ \A j \in 1 .. Len(s) - 1 : /\ j < i => RemoveAt(s, i)[j] = s[j]
                                         /\ i <= j => RemoveAt(s, i)[j] = s[j + 1]
<1> DEFINE a == SubSeq(s, 1, i - 1)  b == SubSeq(s, i + 1, Len(s))  len == Len(s)
<1>1. len \in Nat /\ i \in 1 .. len /\ \A j \in 1 .. len : s[j] \in S
  BY LenProperties
<1>2. /\ a \in Seq(S) /\ Len(a) = i - 1 /\ \A j \in 1 .. i - 1 : a[j] = s[j]
  <2>1. \A j \in 1 .. i - 1 : s[j] \in S
    BY <1>1
  <2>2. Len(SubSeq(s, 1, i - 1)) = IF 1 <= i - 1 THEN (i - 1) - 1 + 1 ELSE 0
    BY <2>1, <1>1, SubSeqProperties
  <2>3. \A j \in 1 .. (i - 1) - 1 + 1 : SubSeq(s, 1, i - 1)[j] = s[1 + j - 1]
    BY <2>1, <1>1, SubSeqProperties
  <2>4. SubSeq(s, 1, i - 1) \in Seq(S)
    BY <2>1, <1>1, SubSeqProperties
  <2> QED BY <1>1, <2>2, <2>3, <2>4
<1>3. b \in Seq(S) /\ Len(b) = len - i /\ \A j \in 1 .. len - i : b[j] = s[i + j]
  <2>1. \A j \in i + 1 .. len : s[j] \in S
    BY <1>1
  <2>2. Len(SubSeq(s, i + 1, len)) = IF i + 1 <= len THEN len - (i + 1) + 1 ELSE 0
    BY <2>1, <1>1, SubSeqProperties
  <2>3. \A j \in 1 .. len - (i + 1) + 1 : SubSeq(s, i + 1, len)[j] = s[(i + 1) + j - 1]
    BY <2>1, <1>1, SubSeqProperties
  <2>4. SubSeq(s, i + 1, len) \in Seq(S)
    BY <2>1, <1>1, SubSeqProperties
  <2> QED BY <1>1, <2>2, <2>3, <2>4
<1> DEFINE d == a \o b
<1>4. RemoveAt(s, i) = d
  BY DEF RemoveAt
<1> HIDE DEF a, b, len
<1>5. /\ d \in Seq(S) /\ Len(d) = Len(a) + Len(b)
      /\ \A j \in 1 .. Len(a) + Len(b) : d[j] = IF j <= Len(a) THEN a[j] ELSE b[j - Len(a)]
  BY <1>2, <1>3, ConcatProperties
<1> HIDE DEF d
<1>6. /\ Len(d) = len - 1
      /\ \A j \in 1 .. len - 1 : d[j] = IF j <= i - 1 THEN a[j] ELSE b[j - (i - 1)]
  BY <1>1, <1>2, <1>3, <1>5
<1>7. ASSUME NEW j \in 1 .. len - 1, j < i PROVE d[j] = s[j]
  <2>1. j <= i - 1 /\ j \in 1 .. i - 1
    BY <1>1, <1>7
  <2> QED BY <1>2, <1>6, <2>1
<1>8. ASSUME NEW j \in 1 .. len - 1, i <= j PROVE d[j] = s[j + 1]
  <2>1. ~(j <= i - 1) /\ j - (i - 1) \in 1 .. len - i /\ i + (j - (i - 1)) = j + 1
    BY <1>1, <1>8
  <2> QED BY <1>3, <1>6, <2>1
<1> QED BY <1>4, <1>5, <1>6, <1>7, <1>8 DEF len

-----------------------------------------------------------------------------
(* What the operations on one node do *)

\* What makes a node sound.
LEMMA SoundParts ==
    ASSUME NEW h \in Nat \ {0}, NEW n
    PROVE  n \in Sound[h] <=>
             /\ Shape(n, h)
             /\ Len(n.keys) <= NodeCount
             /\ h > 1 => \A i \in 1 .. Len(n.keys) + 1 : Len(n.kids[i].keys) >= NodeMin
<1>1. n \in Sound[h] <=>
        /\ n \in Nodes[h]
        /\ Len(n.keys) <= NodeCount
        /\ \A i \in DOMAIN n.kids :
              n.kids[i] \in Sound[h - 1] /\ (h > 1 => Len(n.kids[i].keys) >= NodeMin)
        /\ Ascending(n, h)
  <2>1. Sound[h] = SoundAbove(Sound[h - 1], h)
    BY SoundIs
  <2> QED BY <2>1 DEF SoundAbove
<1>2. ASSUME n \in Nodes[h] PROVE DOMAIN n.kids = 1 .. Len(n.keys) + 1
  BY <1>2, NodeIs
<1> QED BY <1>1, <1>2 DEF Shape

\* A function on 1 .. len is a sequence.
LEMMA SeqFrom ==
    ASSUME NEW S, NEW len \in Nat, NEW s \in [1 .. len -> S]
    PROVE  s \in Seq(S) /\ Len(s) = len
<1>1. s \in Seq(S)
  BY SeqDef
<1>2. DOMAIN s = 1 .. Len(s) /\ Len(s) \in Nat
  BY <1>1, LenProperties
<1> QED BY <1>1, <1>2

\* _add_item_to_free_node: a child becomes two with the item between them.
LEMMA AddItemOpens ==
    ASSUME NEW h \in Nat \ {0}, NEW n \in Nodes[h], NEW pos \in 0 .. Len(n.keys),
           NEW l \in Nodes[h - 1], NEW x \in NodeKey, NEW r \in Nodes[h - 1]
    PROVE  LET m == [n EXCEPT !.kids[pos + 1] = l]
               a == AddItem(m, pos, x, r)
           IN  /\ m \in Nodes[h] /\ Replaced(m, n, pos + 1, l)
               /\ a \in Nodes[h] /\ Opened(a, n, pos + 1, l, x, r)
<1> DEFINE m == [n EXCEPT !.kids[pos + 1] = l]
           a == AddItem(m, pos, x, r)
           kids == [n.kids EXCEPT ![pos + 1] = l]
<1>1. /\ n = [keys |-> n.keys, kids |-> n.kids]
      /\ n.keys \in Seq(NodeKey) /\ n.kids \in Seq(Nodes[h - 1])
      /\ Len(n.keys) \in Nat /\ Len(n.kids) = Len(n.keys) + 1
  BY NodeIs
<1>2. pos + 1 \in 1 .. Len(n.kids) /\ pos + 1 \in 1 .. Len(n.keys) + 1
  BY <1>1
<1>3. /\ kids \in Seq(Nodes[h - 1]) /\ Len(kids) = Len(n.keys) + 1
      /\ \A j \in 1 .. Len(n.keys) + 1 : kids[j] = IF j = pos + 1 THEN l ELSE n.kids[j]
  <2>1. PICK S : S = Nodes[h - 1]
    OBVIOUS
  <2>2. n.kids \in [1 .. Len(n.keys) + 1 -> S] /\ l \in S
    BY <1>1, <2>1, LenProperties
  <2>3. kids \in [1 .. Len(n.keys) + 1 -> S]
    BY <2>2
  <2>4. \A j \in 1 .. Len(n.keys) + 1 : kids[j] = IF j = pos + 1 THEN l ELSE n.kids[j]
    BY <2>2
  <2> HIDE DEF kids
  <2>5. Len(n.keys) + 1 \in Nat
    BY <1>1
  <2>6. kids \in Seq(S) /\ Len(kids) = Len(n.keys) + 1
    BY <2>3, <2>5, SeqFrom
  <2> QED BY <2>1, <2>4, <2>6
<1>4. m = [keys |-> n.keys, kids |-> kids]
  <2>1. m = [n EXCEPT !.kids = kids]
    OBVIOUS
  <2> HIDE DEF m, kids
  <2> QED BY <1>1, <2>1
<1> HIDE DEF kids
<1>5. m.keys = n.keys /\ m.kids = kids
  BY <1>4
<1>6. m \in Nodes[h]
  BY <1>1, <1>3, <1>4, NodeFrom
<1> HIDE DEF m
<1>7. Replaced(m, n, pos + 1, l)
  BY <1>2, <1>3, <1>5 DEF Replaced
<1> DEFINE keys2 == InsertAt(n.keys, pos + 1, x)  kids2 == InsertAt(kids, pos + 2, r)
<1>8. a = [keys |-> keys2, kids |-> kids2]
  BY <1>5 DEF AddItem
<1>9. /\ keys2 \in Seq(NodeKey) /\ Len(keys2) = Len(n.keys) + 1
      /\ \A j \in 1 .. Len(n.keys) : /\ j < pos + 1 => keys2[j] = n.keys[j]
                                     /\ pos + 1 <= j => keys2[j + 1] = n.keys[j]
      /\ keys2[pos + 1] = x
  BY <1>1, <1>2, InsertAtIs, SMTT(30)
<1>10. /\ kids2 \in Seq(Nodes[h - 1]) /\ Len(kids2) = Len(kids) + 1
       /\ \A j \in 1 .. Len(kids) : /\ j < pos + 2 => kids2[j] = kids[j]
                                    /\ pos + 2 <= j => kids2[j + 1] = kids[j]
       /\ kids2[pos + 2] = r
  <2>1. pos + 2 \in 1 .. Len(kids) + 1
    BY <1>1, <1>2, <1>3
  <2>2. PICK S : S = Nodes[h - 1]
    OBVIOUS
  <2>3. kids \in Seq(S) /\ r \in S
    BY <1>3, <2>2
  <2>4. /\ kids2 \in Seq(S) /\ Len(kids2) = Len(kids) + 1
        /\ \A j \in 1 .. Len(kids) : /\ j < pos + 2 => kids2[j] = kids[j]
                                     /\ pos + 2 <= j => kids2[j + 1] = kids[j]
        /\ kids2[pos + 2] = r
    BY <2>1, <2>3, InsertAtIs
  <2> QED BY <2>2, <2>4
<1> HIDE DEF keys2, kids2
<1>11. a.keys = keys2 /\ a.kids = kids2
  BY <1>8
<1>12. a \in Nodes[h]
  <2>1. Len(kids2) = Len(keys2) + 1
    BY <1>1, <1>3, <1>9, <1>10
  <2> QED BY <1>8, <1>9, <1>10, <2>1, NodeFrom
<1>13. Opened(a, n, pos + 1, l, x, r)
  <2>1. \A j \in 1 .. Len(n.keys) + 1 : /\ j < pos + 1 => kids2[j] = n.kids[j]
                                        /\ pos + 1 < j => kids2[j + 1] = n.kids[j]
    <3> TAKE j \in 1 .. Len(n.keys) + 1
    <3>1. /\ j \in 1 .. Len(kids)
          /\ j < pos + 1 => j < pos + 2 /\ j # pos + 1
          /\ pos + 1 < j => pos + 2 <= j /\ j # pos + 1
      BY <1>1, <1>3
    <3> QED BY <1>3, <1>10, <3>1
  <2>2. kids2[pos + 1] = l
    <3>1. pos + 1 \in 1 .. Len(kids) /\ pos + 1 < pos + 2
      BY <1>2, <1>3
    <3> QED BY <1>2, <1>3, <1>10, <3>1
  <2>3. (pos + 1) + 1 = pos + 2
    OBVIOUS
  <2> HIDE DEF a
  <2> QED BY <1>9, <1>10, <1>11, <2>1, <2>2, <2>3 DEF Opened
<1> QED BY <1>6, <1>7, <1>12, <1>13 DEF m

\* Removing a key and the child after it; the child before it may be another.
LEMMA RemoveTrgtCloses ==
    ASSUME NEW h \in Nat \ {0}, NEW n \in Nodes[h], NEW i \in 1 .. Len(n.keys),
           NEW k \in Nodes[h - 1]
    PROVE  LET q == RemoveTrgt([n EXCEPT !.kids[i] = k], i - 1).node
           IN  /\ q \in Nodes[h] /\ Len(q.keys) = Len(n.keys) - 1 /\ q.kids[i] = k
               /\ Opened(n, q, i, n.kids[i], n.keys[i], n.kids[i + 1])
<1> DEFINE m == [n EXCEPT !.kids[i] = k]
           q == RemoveTrgt(m, i - 1).node
           kids == [n.kids EXCEPT ![i] = k]
           len == Len(n.keys)
<1>1. /\ n = [keys |-> n.keys, kids |-> n.kids]
      /\ n.keys \in Seq(NodeKey) /\ n.kids \in Seq(Nodes[h - 1])
      /\ len \in Nat /\ Len(n.kids) = len + 1 /\ i \in 1 .. len
  BY NodeIs
<1>2. i \in 1 .. Len(n.keys) + 1 /\ i \in 1 .. Len(n.kids) /\ i + 1 \in 1 .. len + 1
  BY <1>1
<1>3. /\ kids \in Seq(Nodes[h - 1]) /\ Len(kids) = len + 1
      /\ \A j \in 1 .. len + 1 : kids[j] = IF j = i THEN k ELSE n.kids[j]
  <2>1. PICK S : S = Nodes[h - 1]
    OBVIOUS
  <2>2. n.kids \in [1 .. len + 1 -> S] /\ k \in S
    BY <1>1, <2>1, LenProperties
  <2>3. kids \in [1 .. len + 1 -> S]
    BY <2>2
  <2>4. \A j \in 1 .. len + 1 : kids[j] = IF j = i THEN k ELSE n.kids[j]
    BY <2>2
  <2> HIDE DEF kids
  <2>5. len + 1 \in Nat
    BY <1>1
  <2>6. kids \in Seq(S) /\ Len(kids) = len + 1
    BY <2>3, <2>5, SeqFrom
  <2> QED BY <2>1, <2>4, <2>6
<1>4. m = [keys |-> n.keys, kids |-> kids]
  <2>1. m = [n EXCEPT !.kids = kids]
    OBVIOUS
  <2> HIDE DEF m, kids
  <2> QED BY <1>1, <2>1
<1> HIDE DEF kids
<1>5. m.keys = n.keys /\ m.kids = kids
  BY <1>4
<1> HIDE DEF m
<1> DEFINE keys2 == RemoveAt(n.keys, i)  kids2 == RemoveAt(kids, i + 1)
<1>6. q = [keys |-> keys2, kids |-> kids2]
  <2>1. (i - 1) + 1 = i /\ (i - 1) + 2 = i + 1
    OBVIOUS
  <2> QED BY <1>5, <2>1 DEF RemoveTrgt
<1>7. /\ keys2 \in Seq(NodeKey) /\ Len(keys2) = len - 1
      /\ \A j \in 1 .. len - 1 : /\ j < i => keys2[j] = n.keys[j]
                                 /\ i <= j => keys2[j] = n.keys[j + 1]
  BY <1>1, RemoveAtIs
<1>8. /\ kids2 \in Seq(Nodes[h - 1]) /\ Len(kids2) = len
      /\ \A j \in 1 .. len : /\ j < i + 1 => kids2[j] = kids[j]
                             /\ i + 1 <= j => kids2[j] = kids[j + 1]
  <2>1. i + 1 \in 1 .. Len(kids) /\ Len(kids) - 1 = len
    BY <1>1, <1>2, <1>3
  <2> QED BY <1>3, <2>1, RemoveAtIs
<1> HIDE DEF keys2, kids2
<1>9. q.keys = keys2 /\ q.kids = kids2
  BY <1>6
<1>10. q \in Nodes[h]
  <2>1. Len(kids2) = Len(keys2) + 1
    BY <1>1, <1>7, <1>8
  <2> QED BY <1>6, <1>7, <1>8, <2>1, NodeFrom
<1> HIDE DEF q, len
<1>11. q.kids[i] = k
  <2>1. i < i + 1 /\ i \in 1 .. len + 1
    BY <1>1
  <2> QED BY <1>1, <1>3, <1>8, <1>9, <2>1
<1>12. Opened(n, q, i, n.kids[i], n.keys[i], n.kids[i + 1])
  <2>1. Len(q.keys) = len - 1 /\ len = Len(q.keys) + 1 /\ Len(q.keys) + 1 = len
    BY <1>1, <1>7, <1>9
  <2>2. \A j \in 1 .. len - 1 : /\ j < i => n.keys[j] = q.keys[j]
                                /\ i <= j => n.keys[j + 1] = q.keys[j]
    BY <1>7, <1>9
  <2>3. \A j \in 1 .. len : /\ j < i => n.kids[j] = q.kids[j]
                            /\ i < j => n.kids[j + 1] = q.kids[j]
    <3> TAKE j \in 1 .. len
    <3>1. /\ j \in 1 .. len + 1 /\ j + 1 \in 1 .. len + 1
          /\ j < i => j < i + 1 /\ j # i
          /\ i < j => i + 1 <= j /\ j + 1 # i
      BY <1>1
    <3> QED BY <1>3, <1>8, <1>9, <3>1
  <2> QED BY <2>1, <2>2, <2>3 DEF Opened, len
<1> QED BY <1>7, <1>9, <1>10, <1>11, <1>12 DEF m, q, len

\* A part of a sequence.
LEMMA Piece ==
    ASSUME NEW S, NEW s \in Seq(S), NEW i \in Nat \ {0}, NEW j \in Nat, i <= j + 1, j <= Len(s)
    PROVE  /\ SubSeq(s, i, j) \in Seq(S) /\ Len(SubSeq(s, i, j)) = j - i + 1
           /\ \A k \in 1 .. j - i + 1 : SubSeq(s, i, j)[k] = s[i + k - 1]
<1>1. \A k \in i .. j : s[k] \in S
  <2>1. Len(s) \in Nat /\ \A k \in 1 .. Len(s) : s[k] \in S
    BY LenProperties
  <2> QED BY <2>1
<1>2. Len(SubSeq(s, i, j)) = IF i <= j THEN j - i + 1 ELSE 0
  BY <1>1, SubSeqProperties
<1>3. \A k \in 1 .. j - i + 1 : SubSeq(s, i, j)[k] = s[i + k - 1]
  BY <1>1, SubSeqProperties
<1>4. SubSeq(s, i, j) \in Seq(S)
  BY <1>1, SubSeqProperties
<1> QED BY <1>2, <1>3, <1>4

\* _split_node: the two halves and the item that goes up make up the node.
LEMMA SplitJoins ==
    ASSUME NEW h \in Nat \ {0}, NEW n, NEW pos, NEW x, NEW kid,
           AddItem(n, pos, x, kid) \in Nodes[h],
           Len(AddItem(n, pos, x, kid).keys) = NodeCount + 1
    PROVE  LET s == Split(n, pos, x, kid)
           IN  /\ s.left \in Nodes[h] /\ s.right \in Nodes[h]
               /\ Len(s.left.keys) = NodeMin /\ Len(s.right.keys) = NodeMin
               /\ Joined(AddItem(n, pos, x, kid), s.left, s.item, s.right)
<1> DEFINE all == AddItem(n, pos, x, kid)
           lk == SubSeq(all.keys, 1, NodeMin)
           lc == SubSeq(all.kids, 1, NodeMin + 1)
           rk == SubSeq(all.keys, NodeMin + 2, NodeCount + 1)
           rc == SubSeq(all.kids, NodeMin + 2, NodeCount + 2)
           s == Split(n, pos, x, kid)
<1>1. s = [left  |-> [keys |-> lk, kids |-> lc],
           item  |-> all.keys[NodeMin + 1],
           right |-> [keys |-> rk, kids |-> rc]]
  BY DEF Split
<1>2. NodeMin \in Nat \ {0} /\ NodeCount = 2 * NodeMin /\ NodeCount \in Nat
  BY NodeAssumption
<1>3. /\ all.keys \in Seq(NodeKey) /\ all.kids \in Seq(Nodes[h - 1])
      /\ Len(all.keys) = NodeCount + 1 /\ Len(all.kids) = NodeCount + 2
  <2>1. Len(all.kids) = Len(all.keys) + 1
    BY NodeIs
  <2>2. (NodeCount + 1) + 1 = NodeCount + 2
    BY <1>2
  <2> QED BY <2>1, <2>2, NodeIs
<1> HIDE DEF all
<1>4. /\ lk \in Seq(NodeKey) /\ Len(lk) = NodeMin
      /\ \A k \in 1 .. NodeMin : lk[k] = all.keys[k]
  <2>1. /\ lk \in Seq(NodeKey) /\ Len(lk) = NodeMin - 1 + 1
        /\ \A k \in 1 .. NodeMin - 1 + 1 : lk[k] = all.keys[1 + k - 1]
    BY <1>2, <1>3, Piece
  <2> QED BY <1>2, <2>1
<1>5. /\ rk \in Seq(NodeKey) /\ Len(rk) = NodeMin
      /\ \A k \in 1 .. NodeMin : rk[k] = all.keys[NodeMin + 1 + k]
  <2>1. /\ rk \in Seq(NodeKey) /\ Len(rk) = (NodeCount + 1) - (NodeMin + 2) + 1
        /\ \A k \in 1 .. (NodeCount + 1) - (NodeMin + 2) + 1 : rk[k] = all.keys[(NodeMin + 2) + k - 1]
    BY <1>2, <1>3, Piece
  <2>2. (NodeCount + 1) - (NodeMin + 2) + 1 = NodeMin
    BY <1>2
  <2>3. \A k \in 1 .. NodeMin : (NodeMin + 2) + k - 1 = NodeMin + 1 + k
    BY <1>2
  <2> QED BY <2>1, <2>2, <2>3
<1>6. PICK S : S = Nodes[h - 1]
  OBVIOUS
<1>7. all.kids \in Seq(S)
  BY <1>3, <1>6
<1>8. /\ lc \in Seq(S) /\ Len(lc) = NodeMin + 1
      /\ \A k \in 1 .. NodeMin + 1 : lc[k] = all.kids[k]
  <2>1. /\ lc \in Seq(S) /\ Len(lc) = (NodeMin + 1) - 1 + 1
        /\ \A k \in 1 .. (NodeMin + 1) - 1 + 1 : lc[k] = all.kids[1 + k - 1]
    BY <1>2, <1>3, <1>7, Piece
  <2> QED BY <1>2, <2>1
<1>9. /\ rc \in Seq(S) /\ Len(rc) = NodeMin + 1
      /\ \A k \in 1 .. NodeMin + 1 : rc[k] = all.kids[NodeMin + 1 + k]
  <2>1. /\ rc \in Seq(S) /\ Len(rc) = (NodeCount + 2) - (NodeMin + 2) + 1
        /\ \A k \in 1 .. (NodeCount + 2) - (NodeMin + 2) + 1 : rc[k] = all.kids[(NodeMin + 2) + k - 1]
    BY <1>2, <1>3, <1>7, Piece
  <2>2. (NodeCount + 2) - (NodeMin + 2) + 1 = NodeMin + 1
    BY <1>2
  <2>3. \A k \in 1 .. NodeMin + 1 : (NodeMin + 2) + k - 1 = NodeMin + 1 + k
    BY <1>2
  <2> QED BY <2>1, <2>2, <2>3
<1> HIDE DEF lk, lc, rk, rc
<1>10. /\ s.left = [keys |-> lk, kids |-> lc] /\ s.right = [keys |-> rk, kids |-> rc]
       /\ s.item = all.keys[NodeMin + 1]
  BY <1>1
<1>11. s.left \in Nodes[h] /\ s.right \in Nodes[h]
  BY <1>4, <1>5, <1>6, <1>8, <1>9, <1>10, NodeFrom
<1>12. s.left.keys = lk /\ s.left.kids = lc /\ s.right.keys = rk /\ s.right.kids = rc
  BY <1>10
<1> HIDE DEF s
<1>13. Joined(all, s.left, s.item, s.right)
  <2>1. NodeCount + 1 = NodeMin + 1 + NodeMin
    BY <1>2
  <2> QED BY <1>3, <1>4, <1>5, <1>8, <1>9, <1>10, <1>12, <2>1 DEF Joined
<1> QED BY <1>4, <1>5, <1>11, <1>12, <1>13 DEF all, s

\* A node of one child and no key.
Only(k) == [keys |-> <<>>, kids |-> <<k>>]

\* A node of one child and no key holds what the child does.
LEMMA OnlyShape ==
    ASSUME NEW h \in Nat \ {0}, NEW k \in Nodes[h - 1]
    PROVE  /\ Only(k) \in Nodes[h] /\ Len(Only(k).keys) = 0 /\ Only(k).kids[1] = k
           /\ HeldBelow[h][Only(k)] = HeldBelow[h - 1][k]
           /\ k \in Sound[h - 1] => Shape(Only(k), h)
<1>1. PICK e, s : e = <<>> /\ s = <<k>>
  OBVIOUS
<1>2. Only(k) = [keys |-> e, kids |-> s]
  BY <1>1 DEF Only
<1>3. e \in Seq(NodeKey) /\ Len(e) = 0
  BY <1>1, EmptySeq
<1>4. s \in Seq(Nodes[h - 1]) /\ Len(s) = 1 /\ s[1] = k
  <2>1. PICK S : S = Nodes[h - 1]
    OBVIOUS
  <2>2. s \in Seq(S) /\ Len(s) = 1 /\ s[1] = k
    BY <1>1, <2>1
  <2> QED BY <2>1, <2>2
<1> DEFINE o == Only(k)
<1>5. o \in Nodes[h] /\ Len(o.keys) = 0 /\ o.kids[1] = k
  <2>1. Len(s) = Len(e) + 1
    BY <1>3, <1>4
  <2>2. [keys |-> e, kids |-> s] \in Nodes[h]
    BY <1>3, <1>4, <2>1, NodeFrom
  <2> QED BY <1>2, <1>3, <1>4, <2>2
<1> HIDE DEF o
<1>6. \A i \in 1 .. Len(o.keys) + 1 : i = 1
  BY <1>5
<1>7. HeldBelow[h][o] = HeldBelow[h - 1][k]
  <2>1. HeldBelow[h][o] = Others(o, h, 1) \cup HeldBelow[h - 1][k]
    BY <1>5, OthersHeld
  <2>2. Others(o, h, 1) = {}
    BY <1>5 DEF Others
  <2> QED BY <2>1, <2>2
<1>8. ASSUME k \in Sound[h - 1] PROVE Shape(o, h)
  <2>1. Ascending(o, h)
    BY <1>5, AscendingIs DEF InGap
  <2>2. \A i \in DOMAIN o.kids : i = 1
    BY <1>5, <1>6, NodeIs
  <2> QED BY <1>5, <1>8, <2>1, <2>2 DEF Shape
<1> QED BY <1>5, <1>7, <1>8 DEF o

\* A node is what it is without its last key, with that key and its last child.
LEMMA FrontJoins ==
    ASSUME NEW h \in Nat \ {0}, NEW n \in Nodes[h], Len(n.keys) > 0
    PROVE  LET f == [keys |-> Front(n.keys), kids |-> Front(n.kids)]
           IN  /\ f \in Nodes[h] /\ Len(f.keys) = Len(n.keys) - 1
               /\ Last(n.kids) \in Nodes[h - 1]
               /\ Joined(n, f, Last(n.keys), Only(Last(n.kids)))
<1> DEFINE len == Len(n.keys)  fk == Front(n.keys)  fc == Front(n.kids)
           f == [keys |-> fk, kids |-> fc]  k == Last(n.kids)
<1>1. /\ n.keys \in Seq(NodeKey) /\ n.kids \in Seq(Nodes[h - 1])
      /\ len \in Nat /\ len > 0 /\ Len(n.kids) = len + 1
      /\ \A i \in 1 .. len + 1 : n.kids[i] \in Nodes[h - 1]
  BY NodeIs
<1>2. PICK S : S = Nodes[h - 1]
  OBVIOUS
<1>3. fk \in Seq(NodeKey) /\ Len(fk) = len - 1 /\ \A i \in 1 .. len - 1 : fk[i] = n.keys[i]
  <2>1. /\ fk \in Seq(NodeKey) /\ Len(fk) = (len - 1) - 1 + 1
        /\ \A i \in 1 .. (len - 1) - 1 + 1 : fk[i] = n.keys[1 + i - 1]
    BY <1>1, Piece DEF Front
  <2> HIDE DEF fk, len
  <2>2. (len - 1) - 1 + 1 = len - 1 /\ \A i \in 1 .. len - 1 : 1 + i - 1 = i
    BY <1>1
  <2> QED BY <2>1, <2>2
<1>4. fc \in Seq(S) /\ Len(fc) = len /\ \A i \in 1 .. len : fc[i] = n.kids[i]
  <2>1. n.kids \in Seq(S) /\ Len(n.kids) - 1 = len
    BY <1>1, <1>2
  <2>2. /\ fc \in Seq(S) /\ Len(fc) = len - 1 + 1
        /\ \A i \in 1 .. len - 1 + 1 : fc[i] = n.kids[1 + i - 1]
    BY <1>1, <2>1, Piece DEF Front
  <2> HIDE DEF fc, len
  <2>3. len - 1 + 1 = len /\ \A i \in 1 .. len : 1 + i - 1 = i
    BY <1>1
  <2> QED BY <2>2, <2>3
<1>5. k = n.kids[len + 1] /\ Last(n.keys) = n.keys[len]
  BY <1>1 DEF Last
<1> HIDE DEF fk, fc, len, k
<1>6. f.keys = fk /\ f.kids = fc
  OBVIOUS
<1>7. f \in Nodes[h]
  <2>1. Len(fc) = Len(fk) + 1
    BY <1>1, <1>3, <1>4
  <2> QED BY <1>2, <1>3, <1>4, <2>1, NodeFrom
<1>8. k \in Nodes[h - 1]
  BY <1>1, <1>5
<1>9. Len(Only(k).keys) = 0 /\ Only(k).kids[1] = k
  BY <1>8, OnlyShape
<1> HIDE DEF f
<1>10. Joined(n, f, Last(n.keys), Only(k))
  <2>1. len = (len - 1) + 1 + 0 /\ (len - 1) + 1 = len /\ 1 .. 0 = {} /\ 0 + 1 = 1
    BY <1>1
  <2>2. \A i \in 1 .. 0 + 1 : i = 1
    OBVIOUS
  <2>3. /\ Len(n.keys) = Len(f.keys) + 1 + Len(Only(k).keys)
        /\ \A i \in 1 .. Len(f.keys) : n.keys[i] = f.keys[i]
        /\ n.keys[Len(f.keys) + 1] = Last(n.keys)
    BY <1>3, <1>5, <1>6, <1>9, <2>1 DEF len
  <2>4. \A i \in 1 .. Len(f.keys) + 1 : n.kids[i] = f.kids[i]
    BY <1>3, <1>4, <1>6, <2>1
  <2>5. \A i \in 1 .. Len(Only(k).keys) + 1 : n.kids[Len(f.keys) + 1 + i] = Only(k).kids[i]
    BY <1>3, <1>5, <1>6, <1>9, <2>1, <2>2
  <2>6. \A i \in 1 .. Len(Only(k).keys) : FALSE
    BY <1>9, <2>1
  <2> QED BY <2>3, <2>4, <2>5, <2>6 DEF Joined
<1> QED BY <1>3, <1>6, <1>7, <1>8, <1>10 DEF len, f, fk, fc, k

\* A node is its first child and first key, with what it is without them.
LEMMA TailJoins ==
    ASSUME NEW h \in Nat \ {0}, NEW n \in Nodes[h], Len(n.keys) > 0
    PROVE  LET f == [keys |-> Tail(n.keys), kids |-> Tail(n.kids)]
           IN  /\ f \in Nodes[h] /\ Len(f.keys) = Len(n.keys) - 1
               /\ Head(n.kids) \in Nodes[h - 1]
               /\ Joined(n, Only(Head(n.kids)), Head(n.keys), f)
<1> DEFINE len == Len(n.keys)  fk == Tail(n.keys)  fc == Tail(n.kids)
           f == [keys |-> fk, kids |-> fc]  k == Head(n.kids)
<1>1. /\ n.keys \in Seq(NodeKey) /\ n.kids \in Seq(Nodes[h - 1])
      /\ len \in Nat /\ len > 0 /\ Len(n.kids) = len + 1
      /\ \A i \in 1 .. len + 1 : n.kids[i] \in Nodes[h - 1]
  BY NodeIs
<1>2. PICK S : S = Nodes[h - 1]
  OBVIOUS
<1>3. fk \in Seq(NodeKey) /\ Len(fk) = len - 1 /\ \A i \in 1 .. len - 1 : fk[i] = n.keys[i + 1]
  <2>1. n.keys # <<>>
    BY <1>1, EmptySeq
  <2>2. fk \in Seq(NodeKey) /\ Len(fk) = len - 1 /\ \A i \in 1 .. Len(fk) : fk[i] = n.keys[i + 1]
    BY <1>1, <2>1, HeadTailProperties
  <2> HIDE DEF fk
  <2> QED BY <2>2
<1>4. fc \in Seq(S) /\ Len(fc) = len /\ \A i \in 1 .. len : fc[i] = n.kids[i + 1]
  <2>1. n.kids \in Seq(S) /\ n.kids # <<>>
    BY <1>1, <1>2, EmptySeq
  <2>2. /\ fc \in Seq(S) /\ Len(fc) = Len(n.kids) - 1
        /\ \A i \in 1 .. Len(fc) : fc[i] = n.kids[i + 1]
    BY <2>1, HeadTailProperties
  <2>3. Len(n.kids) - 1 = len
    BY <1>1
  <2> HIDE DEF fc
  <2> QED BY <2>2, <2>3
<1>5. k = n.kids[1] /\ Head(n.keys) = n.keys[1]
  BY <1>1
<1> HIDE DEF fk, fc, len, k
<1>6. f.keys = fk /\ f.kids = fc
  OBVIOUS
<1>7. f \in Nodes[h]
  <2>1. Len(fc) = Len(fk) + 1
    BY <1>1, <1>3, <1>4
  <2> QED BY <1>2, <1>3, <1>4, <2>1, NodeFrom
<1>8. k \in Nodes[h - 1]
  BY <1>1, <1>5
<1>9. Len(Only(k).keys) = 0 /\ Only(k).kids[1] = k
  BY <1>8, OnlyShape
<1> HIDE DEF f
<1>10. Joined(n, Only(k), Head(n.keys), f)
  <2>1. len = 0 + 1 + (len - 1) /\ (len - 1) + 1 = len /\ 1 .. 0 = {} /\ 0 + 1 = 1
    BY <1>1
  <2>2. \A i \in 1 .. 0 + 1 : i = 1
    OBVIOUS
  <2>3. Len(n.keys) = Len(Only(k).keys) + 1 + Len(f.keys)
    BY <1>3, <1>6, <1>9, <2>1 DEF len
  <2>4. \A i \in 1 .. Len(Only(k).keys) : n.keys[i] = Only(k).keys[i]
    BY <1>9, <2>1
  <2>5. n.keys[Len(Only(k).keys) + 1] = Head(n.keys)
    BY <1>5, <1>9, <2>1
  <2>6. \A i \in 1 .. Len(f.keys) : n.keys[Len(Only(k).keys) + 1 + i] = f.keys[i]
    <3>1. \A i \in 1 .. len - 1 : 0 + 1 + i = i + 1
      BY <1>1
    <3> QED BY <1>3, <1>6, <1>9, <3>1
  <2>7. \A i \in 1 .. Len(Only(k).keys) + 1 : n.kids[i] = Only(k).kids[i]
    BY <1>5, <1>9, <2>2
  <2>8. \A i \in 1 .. Len(f.keys) + 1 : n.kids[Len(Only(k).keys) + 1 + i] = f.kids[i]
    <3>1. \A i \in 1 .. len : 0 + 1 + i = i + 1
      BY <1>1
    <3> QED BY <1>3, <1>4, <1>6, <1>9, <2>1, <3>1
  <2> QED BY <2>3, <2>4, <2>5, <2>6, <2>7, <2>8 DEF Joined
<1> QED BY <1>3, <1>6, <1>7, <1>8, <1>10 DEF len, f, fk, fc, k

\* Two nodes and an item between them as one node.
LEMMA NodeJoins ==
    ASSUME NEW h \in Nat \ {0}, NEW l \in Nodes[h], NEW x \in NodeKey, NEW r \in Nodes[h]
    PROVE  LET m == [keys |-> Append(l.keys, x) \o r.keys, kids |-> l.kids \o r.kids]
           IN  /\ m \in Nodes[h] /\ Len(m.keys) = Len(l.keys) + 1 + Len(r.keys)
               /\ Joined(m, l, x, r)
<1> DEFINE ll == Len(l.keys)  lr == Len(r.keys)
           a == Append(l.keys, x)  k == a \o r.keys  c == l.kids \o r.kids
           m == [keys |-> k, kids |-> c]
<1>1. /\ l.keys \in Seq(NodeKey) /\ l.kids \in Seq(Nodes[h - 1])
      /\ ll \in Nat /\ Len(l.kids) = ll + 1
      /\ r.keys \in Seq(NodeKey) /\ r.kids \in Seq(Nodes[h - 1])
      /\ lr \in Nat /\ Len(r.kids) = lr + 1
  BY NodeIs
<1>2. PICK S : S = Nodes[h - 1]
  OBVIOUS
<1>3. a \in Seq(NodeKey) /\ Len(a) = ll + 1 /\ a[ll + 1] = x /\ \A i \in 1 .. ll : a[i] = l.keys[i]
  BY <1>1, AppendProperties
<1> HIDE DEF a
<1>4. /\ k \in Seq(NodeKey) /\ Len(k) = Len(a) + Len(r.keys)
      /\ \A i \in 1 .. Len(a) + Len(r.keys) :
            k[i] = IF i <= Len(a) THEN a[i] ELSE r.keys[i - Len(a)]
  <2>1. a \in Seq(NodeKey) /\ r.keys \in Seq(NodeKey)
    BY <1>1, <1>3
  <2> QED BY <2>1, ConcatProperties
<1>5. /\ c \in Seq(S) /\ Len(c) = Len(l.kids) + Len(r.kids)
      /\ \A i \in 1 .. Len(l.kids) + Len(r.kids) :
            c[i] = IF i <= Len(l.kids) THEN l.kids[i] ELSE r.kids[i - Len(l.kids)]
  <2>1. l.kids \in Seq(S) /\ r.kids \in Seq(S)
    BY <1>1, <1>2
  <2> QED BY <2>1, ConcatProperties
<1> HIDE DEF k, c, ll, lr
<1>6. Len(r.keys) = lr
  BY DEF lr
<1>7. Len(k) = ll + 1 + lr /\ Len(c) = (ll + 1 + lr) + 1
  BY <1>1, <1>3, <1>4, <1>5, <1>6
<1>8. \A i \in 1 .. ll : k[i] = l.keys[i]
  <2>1. \A i \in 1 .. ll : i \in 1 .. (ll + 1) + lr /\ i <= ll + 1
    BY <1>1
  <2> QED BY <1>3, <1>4, <1>6, <2>1
<1>9. k[ll + 1] = x
  <2>1. ll + 1 \in 1 .. (ll + 1) + lr /\ ll + 1 <= ll + 1
    BY <1>1
  <2> QED BY <1>3, <1>4, <1>6, <2>1
<1>10. \A i \in 1 .. lr : k[ll + 1 + i] = r.keys[i]
  <2>1. \A i \in 1 .. lr : /\ ll + 1 + i \in 1 .. (ll + 1) + lr /\ ~(ll + 1 + i <= ll + 1)
                           /\ (ll + 1 + i) - (ll + 1) = i
    BY <1>1
  <2> QED BY <1>3, <1>4, <1>6, <2>1
<1>11. \A i \in 1 .. ll + 1 : c[i] = l.kids[i]
  <2>1. \A i \in 1 .. ll + 1 : i \in 1 .. (ll + 1) + (lr + 1) /\ i <= ll + 1
    BY <1>1
  <2> QED BY <1>1, <1>5, <2>1
<1>12. \A i \in 1 .. lr + 1 : c[ll + 1 + i] = r.kids[i]
  <2>1. \A i \in 1 .. lr + 1 : /\ ll + 1 + i \in 1 .. (ll + 1) + (lr + 1) /\ ~(ll + 1 + i <= ll + 1)
                               /\ (ll + 1 + i) - (ll + 1) = i
    BY <1>1
  <2> QED BY <1>1, <1>5, <2>1
<1>13. m.keys = k /\ m.kids = c
  OBVIOUS
<1>14. m \in Nodes[h]
  <2>1. Len(c) = Len(k) + 1
    BY <1>7
  <2> QED BY <1>2, <1>4, <1>5, <2>1, NodeFrom
<1> HIDE DEF m
<1>15. Joined(m, l, x, r)
  BY <1>7, <1>8, <1>9, <1>10, <1>11, <1>12, <1>13 DEF Joined, ll, lr
<1> QED BY <1>7, <1>13, <1>14, <1>15 DEF m, k, c, a, ll, lr

\* A node that gets a first key and a first child.
LEMMA PrependJoins ==
    ASSUME NEW h \in Nat \ {0}, NEW c \in Nodes[h - 1], NEW x \in NodeKey, NEW r \in Nodes[h]
    PROVE  LET m == [keys |-> <<x>> \o r.keys, kids |-> <<c>> \o r.kids]
           IN  /\ m \in Nodes[h] /\ Len(m.keys) = Len(r.keys) + 1
               /\ Joined(m, Only(c), x, r)
<1>1. Only(c) \in Nodes[h] /\ Len(Only(c).keys) = 0
  BY OnlyShape
<1>2. Append(Only(c).keys, x) = <<x>> /\ Only(c).kids = <<c>>
  BY DEF Only
<1>3. Len(r.keys) \in Nat
  BY NodeIs
<1> DEFINE m == [keys |-> Append(Only(c).keys, x) \o r.keys, kids |-> Only(c).kids \o r.kids]
<1>4. m \in Nodes[h] /\ Len(m.keys) = 0 + 1 + Len(r.keys) /\ Joined(m, Only(c), x, r)
  BY <1>1, NodeJoins, ZenonT(40)
<1> QED BY <1>2, <1>3, <1>4

\* A node that gets a last key and a last child.
LEMMA AppendJoins ==
    ASSUME NEW h \in Nat \ {0}, NEW l \in Nodes[h], NEW x \in NodeKey, NEW c \in Nodes[h - 1]
    PROVE  LET m == [keys |-> Append(l.keys, x), kids |-> Append(l.kids, c)]
           IN  /\ m \in Nodes[h] /\ Len(m.keys) = Len(l.keys) + 1
               /\ Joined(m, l, x, Only(c))
<1>1. Only(c) \in Nodes[h] /\ Len(Only(c).keys) = 0
  BY OnlyShape
<1>2. /\ l.keys \in Seq(NodeKey) /\ l.kids \in Seq(Nodes[h - 1]) /\ Len(l.keys) \in Nat
      /\ Only(c).keys = <<>> /\ Only(c).kids = <<c>>
  BY NodeIs DEF Only
<1>3. Append(l.keys, x) \o Only(c).keys = Append(l.keys, x)
  <2>1. Append(l.keys, x) \in Seq(NodeKey)
    BY <1>2, AppendProperties
  <2> QED BY <1>2, <2>1, ConcatEmptySeq
<1>4. l.kids \o Only(c).kids = Append(l.kids, c)
  <2>1. PICK S : S = Nodes[h - 1]
    OBVIOUS
  <2>2. l.kids \in Seq(S) /\ c \in S
    BY <1>2, <2>1
  <2>3. Append(l.kids, c) = l.kids \o <<c>>
    BY <2>2, AppendIsConcat
  <2> QED BY <1>2, <2>3
<1> DEFINE m == [keys |-> Append(l.keys, x) \o Only(c).keys, kids |-> l.kids \o Only(c).kids]
<1>5. m \in Nodes[h] /\ Len(m.keys) = Len(l.keys) + 1 + 0 /\ Joined(m, l, x, Only(c))
  BY <1>1, NodeJoins, ZenonT(40)
<1>6. m = [keys |-> Append(l.keys, x), kids |-> Append(l.kids, c)]
  BY <1>3, <1>4
<1> HIDE DEF m
<1>7. Len(l.keys) + 1 + 0 = Len(l.keys) + 1
  BY <1>2
<1> QED BY <1>5, <1>6, <1>7

\* Which children a node has after one became two.
LEMMA OpenedKids ==
    ASSUME NEW h \in Nat \ {0}, NEW n \in Nodes[h], NEW m \in Nodes[h],
           NEW i \in 1 .. Len(n.keys) + 1, NEW l, NEW x, NEW r, Opened(m, n, i, l, x, r)
    PROVE  /\ \A j \in 1 .. Len(m.keys) + 1 :
                m.kids[j] \in {l, r} \cup {n.kids[c] : c \in (1 .. Len(n.keys) + 1) \ {i}}
           /\ \A j \in (1 .. Len(n.keys) + 1) \ {i} :
                n.kids[j] \in {m.kids[c] : c \in (1 .. Len(m.keys) + 1) \ {i, i + 1}}
<1> DEFINE len == Len(n.keys)
<1>1. len \in Nat /\ Len(m.keys) + 1 = len + 2
  BY NodeIs DEF Opened
<1>2. /\ \A j \in 1 .. len + 1 : /\ j < i => m.kids[j] = n.kids[j]
                                 /\ i < j => m.kids[j + 1] = n.kids[j]
      /\ m.kids[i] = l /\ m.kids[i + 1] = r
  BY DEF Opened
<1>3. i \in 1 .. len + 1
  OBVIOUS
<1> HIDE DEF len
<1>4. ASSUME NEW j \in 1 .. len + 2
      PROVE  m.kids[j] \in {l, r} \cup {n.kids[c] : c \in (1 .. len + 1) \ {i}}
  <2>1. CASE j < i
    <3>1. j \in 1 .. len + 1 /\ j # i
      BY <1>1, <1>3, <2>1
    <3> QED BY <1>2, <2>1, <3>1
  <2>2. CASE j = i \/ j = i + 1
    BY <1>2, <2>2
  <2>3. CASE i + 1 < j
    <3>1. j - 1 \in 1 .. len + 1 /\ i < j - 1 /\ (j - 1) + 1 = j /\ j - 1 # i
      BY <1>1, <1>3, <2>3
    <3>2. m.kids[j] = n.kids[j - 1]
      BY <1>2, <3>1
    <3> QED BY <3>1, <3>2
  <2> QED BY <1>1, <1>3, <2>1, <2>2, <2>3
<1>5. ASSUME NEW j \in (1 .. len + 1) \ {i}
      PROVE  n.kids[j] \in {m.kids[c] : c \in (1 .. len + 2) \ {i, i + 1}}
  <2>1. CASE j < i
    <3>1. j \in (1 .. len + 2) \ {i, i + 1}
      BY <1>1, <1>3, <2>1
    <3> QED BY <1>2, <2>1, <3>1
  <2>2. CASE i < j
    <3>1. j + 1 \in (1 .. len + 2) \ {i, i + 1}
      BY <1>1, <1>3, <2>2
    <3> QED BY <1>2, <2>2, <3>1
  <2> QED BY <1>1, <1>3, <2>1, <2>2
<1> QED BY <1>1, <1>4, <1>5 DEF len

-----------------------------------------------------------------------------
(* Insertion *)

\* What the insertion of an item into a node of height h comes to.
InsertsRight(h) ==
    \A n \in Sound[h], x \in NodeKey :
       LET r == InsertItem[h][n][x]
       IN  /\ r.node \in Sound[h]
           /\ r.done =>
                /\ HeldBelow[h][r.node] = HeldBelow[h][n] \cup {x}
                /\ h > 0 => Len(r.node.keys) >= Len(n.keys)
           /\ ~r.done =>
                /\ r.kid \in Sound[h] /\ r.item \in NodeKey
                /\ h > 0 => Len(r.node.keys) >= NodeMin /\ Len(r.kid.keys) >= NodeMin
                /\ HeldBelow[h][r.node] \cup {r.item} \cup HeldBelow[h][r.kid]
                     = HeldBelow[h][n] \cup {x}
                /\ \A y \in HeldBelow[h][r.node] : Before(y, r.item)
                /\ \A y \in HeldBelow[h][r.kid] : Before(r.item, y)

InsertLevel == INSTANCE Recursion WITH
    Base <- InsertNowhere, Step <- InsertAbove, P <- InsertsRight

\* The insertion, unfolded by one level.
LEMMA InsertIs ==
    /\ InsertItem[0] = InsertNowhere
    /\ \A h \in Nat \ {0} : InsertItem[h] = InsertAbove(InsertItem[h - 1], h)
<1>1. \E f : f = [h \in Nat |-> IF h = 0 THEN InsertNowhere ELSE InsertAbove(f[h - 1], h)]
  BY InsertLevel!Defined
<1>2. InsertItem = [h \in Nat |->
        IF h = 0 THEN InsertNowhere ELSE InsertAbove(InsertItem[h - 1], h)]
  BY <1>1 DEF InsertItem
<1> QED BY <1>2

\* _insert_item_recurcive keeps a node sound, if it does the nodes below.
LEMMA InsertStep ==
    ASSUME NEW h \in Nat \ {0}, InsertsRight(h - 1)
    PROVE  InsertsRight(h)
<1> SUFFICES ASSUME NEW n \in Sound[h], NEW x \in NodeKey
             PROVE  LET r == InsertItem[h][n][x]
                    IN  /\ r.node \in Sound[h]
                        /\ r.done =>
                             /\ HeldBelow[h][r.node] = HeldBelow[h][n] \cup {x}
                             /\ h > 0 => Len(r.node.keys) >= Len(n.keys)
                        /\ ~r.done =>
                             /\ r.kid \in Sound[h] /\ r.item \in NodeKey
                             /\ h > 0 => Len(r.node.keys) >= NodeMin /\ Len(r.kid.keys) >= NodeMin
                             /\ HeldBelow[h][r.node] \cup {r.item} \cup HeldBelow[h][r.kid]
                                  = HeldBelow[h][n] \cup {x}
                             /\ \A y \in HeldBelow[h][r.node] : Before(y, r.item)
                             /\ \A y \in HeldBelow[h][r.kid] : Before(r.item, y)
  BY DEF InsertsRight
<1> DEFINE r == InsertItem[h][n][x]
           pos == Pos(n, x)
           kid == n.kids[pos + 1]
           sub == InsertItem[h - 1][kid][x]
           m == [n EXCEPT !.kids[pos + 1] = sub.node]
           a == AddItem(m, pos, sub.item, sub.kid)
           split == Split(m, pos, sub.item, sub.kid)
           len == Len(n.keys)
<1>1. Shape(n, h) /\ n \in Nodes[h] /\ len <= NodeCount /\ len \in Nat
  BY SoundParts, NodeIs DEF Shape
<1>2. h > 1 => \A i \in 1 .. len + 1 : Len(n.kids[i].keys) >= NodeMin
  BY SoundParts
<1>3. NodeMin \in Nat \ {0} /\ NodeCount = 2 * NodeMin
  BY NodeAssumption
<1>4. /\ pos \in 0 .. len /\ pos + 1 \in 1 .. len + 1
      /\ kid \in Sound[h - 1] /\ kid \in Nodes[h - 1]
  <2>1. pos \in 0 .. len
    BY <1>1, PosIs
  <2>2. pos + 1 \in 1 .. len + 1
    BY <1>1, <2>1
  <2>3. DOMAIN n.kids = 1 .. len + 1
    BY <1>1, NodeIs
  <2>4. n.kids[pos + 1] \in Sound[h - 1]
    BY <1>1, <2>2, <2>3 DEF Shape
  <2> QED BY <2>1, <2>2, <2>4, SoundInNodes
<1>5. r = IF HasAt(n, pos, x) THEN [done |-> TRUE, node |-> n, item |-> x, kid |-> NoNode]
          ELSE IF sub.done THEN [done |-> TRUE, node |-> m, item |-> x, kid |-> NoNode]
          ELSE IF len < NodeCount THEN [done |-> TRUE, node |-> a, item |-> x, kid |-> NoNode]
          ELSE [done |-> FALSE, node |-> split.left, item |-> split.item, kid |-> split.right]
  <2>1. InsertItem[h] = InsertAbove(InsertItem[h - 1], h)
    BY InsertIs
  <2>2. r = InsertInto(InsertItem[h - 1], n, x)
    BY <1>1, <2>1 DEF InsertAbove
  <2> HIDE DEF r
  <2> QED BY <2>2 DEF InsertInto
<1>6. /\ sub.node \in Sound[h - 1]
      /\ sub.done =>
           /\ HeldBelow[h - 1][sub.node] = HeldBelow[h - 1][kid] \cup {x}
           /\ h - 1 > 0 => Len(sub.node.keys) >= Len(kid.keys)
      /\ ~sub.done =>
           /\ sub.kid \in Sound[h - 1] /\ sub.item \in NodeKey
           /\ h - 1 > 0 => Len(sub.node.keys) >= NodeMin /\ Len(sub.kid.keys) >= NodeMin
           /\ HeldBelow[h - 1][sub.node] \cup {sub.item} \cup HeldBelow[h - 1][sub.kid]
                = HeldBelow[h - 1][kid] \cup {x}
           /\ \A y \in HeldBelow[h - 1][sub.node] : Before(y, sub.item)
           /\ \A y \in HeldBelow[h - 1][sub.kid] : Before(sub.item, y)
  BY <1>4 DEF InsertsRight
<1>7. /\ HeldBelow[h][n] = Others(n, h, pos + 1) \cup HeldBelow[h - 1][kid]
  BY <1>1, <1>4, OthersHeld
<1> HIDE DEF r, pos, kid, sub, a, m, split
<1>8. CASE HasAt(n, pos, x)
  <2>1. r.done /\ r.node = n
    BY <1>5, <1>8
  <2>2. x \in HeldBelow[h][n]
    <3>1. pos + 1 \in 1 .. len /\ n.keys[pos + 1] = x
      BY <1>1, <1>4, <1>8 DEF HasAt
    <3> QED BY <1>1, <3>1, HeldIn
  <2> QED BY <1>1, <2>1, <2>2 DEF r
<1>9. CASE ~HasAt(n, pos, x)
  <2>1. /\ InGap(n, pos + 1, x)
        /\ \A y \in HeldBelow[h - 1][kid] \cup {x} : InGap(n, pos + 1, y)
    <3>1. InGap(n, pos + 1, x)
      BY <1>1, <1>9, PosIsGap DEF pos
    <3>2. \A y \in HeldBelow[h - 1][kid] : InGap(n, pos + 1, y)
      BY <1>1, <1>4, AscendingIs DEF Shape, kid
    <3> QED BY <3>1, <3>2
  <2>2. /\ m \in Nodes[h] /\ Replaced(m, n, pos + 1, sub.node)
        /\ ~sub.done => a \in Nodes[h] /\ Opened(a, n, pos + 1, sub.node, sub.item, sub.kid)
    <3>1. sub.node \in Nodes[h - 1]
      BY <1>6, SoundInNodes
    <3>2. m \in Nodes[h] /\ Replaced(m, n, pos + 1, sub.node)
      BY <1>1, <1>4, <3>1, AddItemOpens DEF m
    <3>3. ASSUME ~sub.done
          PROVE  a \in Nodes[h] /\ Opened(a, n, pos + 1, sub.node, sub.item, sub.kid)
      <4>1. sub.kid \in Nodes[h - 1] /\ sub.item \in NodeKey
        BY <1>6, <3>3, SoundInNodes
      <4> QED BY <1>1, <1>4, <3>1, <4>1, AddItemOpens DEF m, a
    <3> QED BY <3>2, <3>3
  <2>3. CASE sub.done
    <3>1. r.done /\ r.node = m
      BY <1>5, <1>9, <2>3
    <3>2. Shape(m, h) /\ HeldBelow[h][m] = Others(n, h, pos + 1) \cup HeldBelow[h - 1][sub.node]
      BY <1>1, <1>4, <1>6, <2>1, <2>2, <2>3, ReplacedShape
    <3>3. HeldBelow[h][m] = HeldBelow[h][n] \cup {x}
      BY <1>6, <1>7, <2>3, <3>2
    <3>4. Len(m.keys) = len /\ \A i \in 1 .. len + 1 :
            m.kids[i] = IF i = pos + 1 THEN sub.node ELSE n.kids[i]
      BY <2>2 DEF Replaced
    <3>5. ASSUME h > 1, NEW i \in 1 .. len + 1 PROVE Len(m.kids[i].keys) >= NodeMin
      <4>1. CASE i = pos + 1
        <5>1. Len(kid.keys) >= NodeMin /\ h - 1 > 0 /\ h - 1 \in Nat \ {0}
          BY <1>2, <1>4, <3>5 DEF kid
        <5>2. Len(sub.node.keys) >= Len(kid.keys)
          BY <1>6, <2>3, <5>1
        <5>3. Len(sub.node.keys) \in Nat /\ Len(kid.keys) \in Nat
          BY <1>4, <1>6, <5>1, SoundInNodes, NodeIs
        <5> QED BY <1>3, <3>4, <4>1, <5>1, <5>2, <5>3
      <4>2. CASE i # pos + 1
        BY <1>2, <3>4, <3>5, <4>2
      <4> QED BY <4>1, <4>2
    <3>6. m \in Sound[h]
      BY <1>1, <3>2, <3>4, <3>5, SoundParts
    <3> QED BY <1>1, <3>1, <3>3, <3>4, <3>6 DEF r
  <2>4. CASE ~sub.done
    <3>1. Shape(a, h)
      BY <1>1, <1>4, <1>6, <2>1, <2>2, <2>4, OpenedShape, SMTT(30)
    <3>2. HeldBelow[h][a] = HeldBelow[h][n] \cup {x}
      <4>1. HeldBelow[h][a] = Others(n, h, pos + 1) \cup HeldBelow[h - 1][sub.node]
                                \cup {sub.item} \cup HeldBelow[h - 1][sub.kid]
        BY <1>1, <1>4, <2>2, <2>4, OpenedHeld
      <4> QED BY <1>6, <1>7, <2>4, <4>1
    <3>3. Len(a.keys) = len + 1
      BY <2>2, <2>4 DEF Opened
    <3>4. ASSUME h > 1, NEW i \in 1 .. Len(a.keys) + 1 PROVE Len(a.kids[i].keys) >= NodeMin
      <4>1. a.kids[i] \in {sub.node, sub.kid} \cup {n.kids[c] : c \in (1 .. len + 1) \ {pos + 1}}
        BY <1>1, <1>4, <2>2, <2>4, OpenedKids
      <4>2. h - 1 > 0
        BY <3>4
      <4>3. Len(sub.node.keys) >= NodeMin /\ Len(sub.kid.keys) >= NodeMin
        BY <1>6, <2>4, <4>2
      <4> QED BY <1>2, <3>4, <4>1, <4>3
    <3>5. CASE len < NodeCount
      <4>1. r.done /\ r.node = a
        BY <1>5, <1>9, <2>4, <3>5
      <4>2. Len(a.keys) <= NodeCount
        BY <1>1, <1>3, <3>3, <3>5
      <4>3. a \in Sound[h]
        BY <3>1, <3>4, <4>2, SoundParts
      <4>4. Len(a.keys) >= len
        BY <1>1, <3>3
      <4> QED BY <3>2, <4>1, <4>3, <4>4 DEF r
    <3>6. CASE ~(len < NodeCount)
      <4>1. ~r.done /\ r.node = split.left /\ r.item = split.item /\ r.kid = split.right
        BY <1>5, <1>9, <2>4, <3>6
      <4>2. Len(a.keys) = NodeCount + 1
        BY <1>1, <1>3, <3>3, <3>6
      <4>3. /\ split.left \in Nodes[h] /\ split.right \in Nodes[h]
            /\ Len(split.left.keys) = NodeMin /\ Len(split.right.keys) = NodeMin
            /\ Joined(a, split.left, split.item, split.right)
        BY <2>2, <2>4, <4>2, SplitJoins DEF a, split
      <4>4. /\ Shape(split.left, h) /\ Shape(split.right, h) /\ split.item \in NodeKey
            /\ \A y \in HeldBelow[h][split.left] : Before(y, split.item)
            /\ \A y \in HeldBelow[h][split.right] : Before(split.item, y)
        BY <3>1, <4>3, JoinedParts
      <4>5. HeldBelow[h][a]
              = HeldBelow[h][split.left] \cup {split.item} \cup HeldBelow[h][split.right]
        BY <2>2, <2>4, <4>3, JoinedHeld
      <4>6. ASSUME h > 1
            PROVE  /\ \A i \in 1 .. NodeMin + 1 : Len(split.left.kids[i].keys) >= NodeMin
                   /\ \A i \in 1 .. NodeMin + 1 : Len(split.right.kids[i].keys) >= NodeMin
        <5>1. /\ \A i \in 1 .. NodeMin + 1 : a.kids[i] = split.left.kids[i]
              /\ \A i \in 1 .. NodeMin + 1 : a.kids[NodeMin + 1 + i] = split.right.kids[i]
          BY <4>3 DEF Joined
        <5>2. \A i \in 1 .. NodeMin + 1 : /\ i \in 1 .. (NodeCount + 1) + 1
                                          /\ NodeMin + 1 + i \in 1 .. (NodeCount + 1) + 1
          BY <1>3
        <5>3. \A i \in 1 .. (NodeCount + 1) + 1 : Len(a.kids[i].keys) >= NodeMin
          BY <3>4, <4>2, <4>6
        <5> QED BY <5>1, <5>2, <5>3
      <4>7. NodeMin <= NodeCount /\ NodeMin >= NodeMin
        BY <1>3
      <4>8. split.left \in Sound[h]
        BY <4>3, <4>4, <4>6, <4>7, SoundParts
      <4>9. split.right \in Sound[h]
        BY <4>3, <4>4, <4>6, <4>7, SoundParts
      <4> QED BY <3>2, <4>1, <4>3, <4>4, <4>5, <4>7, <4>8, <4>9 DEF r
    <3> QED BY <3>5, <3>6
  <2> QED BY <2>3, <2>4
<1> QED BY <1>8, <1>9

\* Below the leaves there is nothing.
LEMMA Nowhere ==
    /\ Sound[0] = {NoNode} /\ HeldBelow[0][NoNode] = {}
    /\ NoNode.keys = <<>> /\ NoNode.kids = <<>>
BY SoundIs, HeldIs DEF NoNode

\* _insert_item_recurcive keeps nodes of any height sound.
LEMMA InsertsAll == \A h \in Nat : InsertsRight(h)
<1>1. InsertsRight(0)
  <2> SUFFICES ASSUME NEW x \in NodeKey
               PROVE  LET r == InsertItem[0][NoNode][x]
                      IN  /\ r.node = NoNode /\ ~r.done /\ r.kid = NoNode /\ r.item = x
    BY Nowhere DEF InsertsRight
  <2>1. InsertItem[0][NoNode][x] = [done |-> FALSE, node |-> NoNode, item |-> x, kid |-> NoNode]
    BY InsertIs DEF InsertNowhere
  <2> QED BY <2>1
<1>2. \A h \in Nat : InsertsRight(h) => InsertsRight(h + 1)
  <2> TAKE h \in Nat
  <2>1. h + 1 \in Nat \ {0} /\ (h + 1) - 1 = h
    OBVIOUS
  <2> QED BY <2>1, InsertStep
<1> QED BY InsertLevel!Induction, <1>1, <1>2

\* A tree as the index is at any time.
SoundTree(t) ==
    /\ t = [height |-> t.height, top |-> t.top]
    /\ t.height \in Nat /\ t.top \in Sound[t.height]
    /\ t.height > 0 => t.top.keys # <<>>

\* The items in a tree.
Within(t) == HeldBelow[t.height][t.top]

\* A node has a key if it is not empty.
LEMMA LengthIsKeys ==
    ASSUME NEW h \in Nat \ {0}, NEW n \in Nodes[h]
    PROVE  n.keys # <<>> <=> Len(n.keys) > 0
BY NodeIs, EmptySeq

\* Two sequences of one.
LEMMA Pair == ASSUME NEW a, NEW b PROVE <<a>> \o <<b>> = <<a, b>>
<1>1. PICK S, s, t, u : S = {a, b} /\ s = <<a>> /\ t = <<b>> /\ u = <<a, b>>
  OBVIOUS
<1>2. /\ s \in Seq(S) /\ t \in Seq(S) /\ Len(s) = 1 /\ Len(t) = 1
      /\ s[1] = a /\ t[1] = b
  BY <1>1
<1>3. u \in Seq(S) /\ Len(u) = 2 /\ u[1] = a /\ u[2] = b
  BY <1>1
<1>4. /\ s \o t \in Seq(S) /\ Len(s \o t) = Len(s) + Len(t)
      /\ \A i \in 1 .. Len(s) + Len(t) : (s \o t)[i] = IF i <= Len(s) THEN s[i] ELSE t[i - Len(s)]
  BY <1>2, ConcatProperties
<1>5. \A i \in 1 .. 2 : (s \o t)[i] = u[i]
  BY <1>2, <1>3, <1>4
<1>6. s \o t = u
  BY <1>2, <1>3, <1>4, <1>5, SeqEqual
<1> QED BY <1>1, <1>6

\* The root above two halves of the former root.
LEMMA RootJoins ==
    ASSUME NEW h \in Nat \ {0}, NEW c \in Nodes[h - 1], NEW d \in Nodes[h - 1], NEW x \in NodeKey
    PROVE  LET m == [keys |-> <<x>>, kids |-> <<c, d>>]
           IN  /\ m \in Nodes[h] /\ Len(m.keys) = 1
               /\ Joined(m, Only(c), x, Only(d))
<1> DEFINE r == Only(d)
           p == [keys |-> <<x>> \o r.keys, kids |-> <<c>> \o r.kids]
           m == [keys |-> <<x>>, kids |-> <<c, d>>]
<1>1. r \in Nodes[h] /\ Len(r.keys) = 0
  BY OnlyShape
<1>2. p \in Nodes[h] /\ Len(p.keys) = Len(r.keys) + 1 /\ Joined(p, Only(c), x, r)
  <2> HIDE DEF r
  <2> QED BY <1>1, PrependJoins
<1>3. <<x>> \o r.keys = <<x>>
  <2>1. <<x>> \in Seq(NodeKey) /\ r.keys = <<>>
    BY DEF Only
  <2> QED BY <2>1, ConcatEmptySeq
<1>4. <<c>> \o r.kids = <<c, d>>
  <2>1. r.kids = <<d>>
    BY DEF Only
  <2> QED BY <2>1, Pair
<1>5. p = m
  <2> HIDE DEF r
  <2> QED BY <1>3, <1>4
<1> HIDE DEF m, p, r
<1>6. m \in Nodes[h] /\ Len(m.keys) = 1 /\ Joined(m, Only(c), x, r)
  BY <1>1, <1>2, <1>5
<1> QED BY <1>6 DEF m, r

\* add_tree_safe adds the item, nothing else, and leaves the tree sound.
LEMMA AddTreeRight ==
    ASSUME NEW t, SoundTree(t), NEW x \in NodeKey
    PROVE  SoundTree(AddTree(t, x)) /\ Within(AddTree(t, x)) = Within(t) \cup {x}
<1> DEFINE h == t.height  r == InsertItem[h][t.top][x]
           u == AddTree(t, x)
           top == [keys |-> <<r.item>>, kids |-> <<r.node, r.kid>>]
<1>1. /\ t = [height |-> h, top |-> t.top] /\ h \in Nat /\ t.top \in Sound[h]
      /\ h > 0 => t.top.keys # <<>>
  BY DEF SoundTree
<1>2. /\ r.node \in Sound[h]
      /\ r.done =>
           /\ HeldBelow[h][r.node] = HeldBelow[h][t.top] \cup {x}
           /\ h > 0 => Len(r.node.keys) >= Len(t.top.keys)
      /\ ~r.done =>
           /\ r.kid \in Sound[h] /\ r.item \in NodeKey
           /\ h > 0 => Len(r.node.keys) >= NodeMin /\ Len(r.kid.keys) >= NodeMin
           /\ HeldBelow[h][r.node] \cup {r.item} \cup HeldBelow[h][r.kid]
                = HeldBelow[h][t.top] \cup {x}
           /\ \A y \in HeldBelow[h][r.node] : Before(y, r.item)
           /\ \A y \in HeldBelow[h][r.kid] : Before(r.item, y)
  BY <1>1, InsertsAll DEF InsertsRight
<1>3. u = IF r.done THEN [t EXCEPT !.top = r.node] ELSE [height |-> h + 1, top |-> top]
  BY DEF AddTree
<1> HIDE DEF r
<1>4. CASE r.done
  <2>1. u = [height |-> h, top |-> r.node]
    BY <1>1, <1>3, <1>4
  <2>2. u.height = h /\ u.top = r.node
    BY <2>1
  <2>3. ASSUME h > 0 PROVE r.node.keys # <<>>
    <3>1. h \in Nat \ {0} /\ t.top \in Nodes[h] /\ r.node \in Nodes[h]
      BY <1>1, <1>2, <2>3, SoundInNodes
    <3>2. Len(t.top.keys) \in Nat /\ Len(r.node.keys) \in Nat /\ Len(t.top.keys) > 0
      BY <1>1, <2>3, <3>1, NodeIs, LengthIsKeys
    <3>3. Len(r.node.keys) > 0
      BY <1>2, <1>4, <2>3, <3>2
    <3> QED BY <3>1, <3>3, LengthIsKeys
  <2> HIDE DEF u
  <2> QED BY <1>1, <1>2, <1>4, <2>1, <2>2, <2>3 DEF SoundTree, Within, u
<1>5. CASE ~r.done
  <2>1. u = [height |-> h + 1, top |-> top]
    BY <1>3, <1>5
  <2>2. /\ h + 1 \in Nat \ {0} /\ (h + 1) - 1 = h
        /\ r.node \in Nodes[h] /\ r.kid \in Nodes[h]
    BY <1>1, <1>2, <1>5, SoundInNodes
  <2> DEFINE l == Only(r.node)  k == Only(r.kid)
  <2>3. /\ Shape(l, h + 1) /\ HeldBelow[h + 1][l] = HeldBelow[h][r.node]
        /\ l \in Nodes[h + 1] /\ Len(l.keys) = 0 /\ l.kids[1] = r.node
    BY <1>2, <2>2, OnlyShape
  <2>4. /\ Shape(k, h + 1) /\ HeldBelow[h + 1][k] = HeldBelow[h][r.kid]
        /\ k \in Nodes[h + 1] /\ Len(k.keys) = 0 /\ k.kids[1] = r.kid
    BY <1>2, <1>5, <2>2, OnlyShape
  <2>6. /\ top \in Nodes[h + 1] /\ Len(top.keys) = Len(k.keys) + 1
        /\ Joined(top, l, r.item, k)
    <3> HIDE DEF h
    <3>1. PICK H \in Nat \ {0} : H = h + 1 /\ H - 1 = h
      BY <2>2
    <3>2. r.item \in NodeKey /\ r.node \in Nodes[H - 1] /\ r.kid \in Nodes[H - 1]
      BY <1>2, <1>5, <2>2, <3>1
    <3>3. /\ top \in Nodes[H] /\ Len(top.keys) = 1
          /\ Joined(top, Only(r.node), r.item, Only(r.kid))
      BY <3>1, <3>2, RootJoins
    <3> HIDE DEF top
    <3> QED BY <2>4, <3>1, <3>3
  <2> HIDE DEF top, l, k
  <2>7. Shape(top, h + 1)
    BY <1>2, <1>5, <2>2, <2>3, <2>4, <2>6, JoinedShape
  <2>8. HeldBelow[h + 1][top] = HeldBelow[h][t.top] \cup {x}
    <3>1. HeldBelow[h + 1][top] = HeldBelow[h + 1][l] \cup {r.item} \cup HeldBelow[h + 1][k]
      BY <2>2, <2>3, <2>4, <2>6, JoinedHeld
    <3> QED BY <1>2, <1>5, <2>3, <2>4, <3>1
  <2>9. Len(top.keys) = 1
    BY <2>4, <2>6
  <2>10. ASSUME h + 1 > 1, NEW i \in 1 .. 1 + 1 PROVE Len(top.kids[i].keys) >= NodeMin
    <3>1. h > 0
      BY <1>1, <2>10
    <3>2. top.kids[1] = r.node /\ top.kids[2] = r.kid
      <4>1. /\ \A j \in 1 .. 0 + 1 : top.kids[j] = l.kids[j]
            /\ \A j \in 1 .. 0 + 1 : top.kids[0 + 1 + j] = k.kids[j]
        BY <2>3, <2>4, <2>6 DEF Joined
      <4>2. 1 \in 1 .. 0 + 1 /\ 0 + 1 + 1 = 2
        OBVIOUS
      <4> QED BY <2>3, <2>4, <4>1, <4>2
    <3>3. i = 1 \/ i = 2
      OBVIOUS
    <3> QED BY <1>2, <1>5, <3>1, <3>2, <3>3
  <2>11. 1 <= NodeCount
    BY NodeAssumption
  <2>12. top \in Sound[h + 1]
    BY <2>2, <2>7, <2>9, <2>10, <2>11, SoundParts
  <2>13. top.keys # <<>>
    BY <2>2, <2>6, <2>9, LengthIsKeys
  <2>14. u.height = h + 1 /\ u.top = top
    BY <2>1
  <2> HIDE DEF u
  <2> QED BY <2>1, <2>2, <2>8, <2>12, <2>13, <2>14 DEF SoundTree, Within, u
<1> QED BY <1>4, <1>5

-----------------------------------------------------------------------------
(* Removal *)

\* No child is too small.
FullKids(n) == \A i \in 1 .. Len(n.keys) + 1 : Len(n.kids[i].keys) >= NodeMin

\* A node in order over sound children that are not too small.
Filled(n, h) == Shape(n, h) /\ (h > 1 => FullKids(n))

\* A sound node is a filled one that is not too full.
LEMMA SoundIsFilled ==
    ASSUME NEW h \in Nat \ {0}, NEW n
    PROVE  n \in Sound[h] <=> Filled(n, h) /\ Len(n.keys) <= NodeCount
BY SoundParts DEF Filled, FullKids

\* The children of a joined node are those of its parts.
LEMMA JoinedFull ==
    ASSUME NEW h \in Nat \ {0}, NEW m \in Nodes[h], NEW l \in Nodes[h], NEW r \in Nodes[h],
           NEW x, Joined(m, l, x, r)
    PROVE  FullKids(m) <=> FullKids(l) /\ FullKids(r)
<1> DEFINE ll == Len(l.keys)  lr == Len(r.keys)  lm == Len(m.keys)
           Full(c) == Len(c.keys) >= NodeMin
<1>1. ll \in Nat /\ lr \in Nat /\ lm \in Nat /\ lm = ll + 1 + lr
  BY NodeIs DEF Joined
<1>2. /\ \A i \in 1 .. ll + 1 : m.kids[i] = l.kids[i]
      /\ \A i \in 1 .. lr + 1 : m.kids[ll + 1 + i] = r.kids[i]
  BY DEF Joined
<1>3. /\ FullKids(m) <=> \A i \in 1 .. lm + 1 : Full(m.kids[i])
      /\ FullKids(l) <=> \A i \in 1 .. ll + 1 : Full(l.kids[i])
      /\ FullKids(r) <=> \A i \in 1 .. lr + 1 : Full(r.kids[i])
  BY DEF FullKids
<1> HIDE DEF ll, lr, lm, Full
<1>4. ASSUME FullKids(m) PROVE FullKids(l) /\ FullKids(r)
  <2>1. /\ \A i \in 1 .. ll + 1 : i \in 1 .. lm + 1
        /\ \A i \in 1 .. lr + 1 : ll + 1 + i \in 1 .. lm + 1
    BY <1>1
  <2>2. \A i \in 1 .. lm + 1 : Full(m.kids[i])
    BY <1>3, <1>4
  <2>3. \A i \in 1 .. ll + 1 : Full(l.kids[i])
    BY <1>2, <2>1, <2>2
  <2>4. \A i \in 1 .. lr + 1 : Full(r.kids[i])
    BY <1>2, <2>1, <2>2
  <2> QED BY <1>3, <2>3, <2>4
<1>5. ASSUME FullKids(l), FullKids(r) PROVE FullKids(m)
  <2>1. ASSUME NEW i \in 1 .. lm + 1 PROVE Full(m.kids[i])
    <3>1. CASE i <= ll + 1
      <4>1. i \in 1 .. ll + 1
        BY <1>1, <3>1
      <4> QED BY <1>2, <1>3, <1>5, <4>1
    <3>2. CASE i > ll + 1
      <4>1. i - (ll + 1) \in 1 .. lr + 1 /\ i = ll + 1 + (i - (ll + 1))
        BY <1>1, <3>2
      <4>2. m.kids[i] = r.kids[i - (ll + 1)]
        BY <1>2, <4>1
      <4> QED BY <1>3, <1>5, <4>1, <4>2
    <3> QED BY <1>1, <3>1, <3>2
  <2> QED BY <1>3, <2>1
<1> QED BY <1>4, <1>5

\* The parts of a filled node are filled.
LEMMA FilledParts ==
    ASSUME NEW h \in Nat \ {0}, NEW m, Filled(m, h), NEW l \in Nodes[h], NEW r \in Nodes[h],
           NEW x, Joined(m, l, x, r)
    PROVE  /\ Filled(l, h) /\ Filled(r, h) /\ x \in NodeKey
           /\ \A y \in HeldBelow[h][l] : Before(y, x)
           /\ \A y \in HeldBelow[h][r] : Before(x, y)
           /\ HeldBelow[h][m] = HeldBelow[h][l] \cup {x} \cup HeldBelow[h][r]
<1>1. Shape(m, h) /\ m \in Nodes[h] /\ (h > 1 => FullKids(m))
  BY DEF Filled, Shape
<1>2. h > 1 => FullKids(l) /\ FullKids(r)
  BY <1>1, JoinedFull
<1>3. /\ Shape(l, h) /\ Shape(r, h) /\ x \in NodeKey
      /\ \A y \in HeldBelow[h][l] : Before(y, x)
      /\ \A y \in HeldBelow[h][r] : Before(x, y)
  BY <1>1, JoinedParts
<1>4. HeldBelow[h][m] = HeldBelow[h][l] \cup {x} \cup HeldBelow[h][r]
  BY <1>1, JoinedHeld
<1> QED BY <1>2, <1>3, <1>4 DEF Filled

\* Filled nodes joined are filled.
LEMMA FilledJoin ==
    ASSUME NEW h \in Nat \ {0}, NEW m \in Nodes[h], NEW l, NEW r, Filled(l, h), Filled(r, h),
           NEW x \in NodeKey, Joined(m, l, x, r),
           \A y \in HeldBelow[h][l] : Before(y, x),
           \A y \in HeldBelow[h][r] : Before(x, y)
    PROVE  /\ Filled(m, h)
           /\ HeldBelow[h][m] = HeldBelow[h][l] \cup {x} \cup HeldBelow[h][r]
<1>1. /\ Shape(l, h) /\ Shape(r, h) /\ l \in Nodes[h] /\ r \in Nodes[h]
      /\ h > 1 => FullKids(l) /\ FullKids(r)
  BY DEF Filled, Shape
<1>2. h > 1 => FullKids(m)
  BY <1>1, JoinedFull
<1>3. Shape(m, h)
  BY <1>1, JoinedShape
<1>4. HeldBelow[h][m] = HeldBelow[h][l] \cup {x} \cup HeldBelow[h][r]
  BY <1>1, JoinedHeld
<1> QED BY <1>2, <1>3, <1>4 DEF Filled

\* The children of the leaves, and only they, are no nodes.
LEMMA IsLeaf ==
    ASSUME NEW h \in Nat \ {0}, NEW k \in Sound[h - 1]
    PROVE  IsNoNode(k) <=> h = 1
<1>1. CASE h = 1
  <2>1. k = NoNode
    BY <1>1, Nowhere
  <2> QED BY <1>1, <2>1, Nowhere DEF IsNoNode
<1>2. CASE h # 1
  <2>1. h - 1 \in Nat \ {0} /\ k \in Nodes[h - 1]
    BY <1>2, SoundInNodes
  <2>2. Len(k.keys) \in Nat /\ Len(k.kids) = Len(k.keys) + 1 /\ k.kids \in Seq(Nodes[(h - 1) - 1])
    BY <2>1, NodeIs
  <2>3. k.kids # <<>>
    BY <2>2, EmptySeq
  <2> QED BY <1>2, <2>3 DEF IsNoNode
<1> QED BY <1>1, <1>2

\* The item that an inner node's item is replaced by.
LeftmostRight(h) ==
    \A n \in Sound[h] : h > 0 /\ n.keys # <<>> =>
       /\ Leftmost[h][n] \in HeldBelow[h][n]
       /\ \A y \in HeldBelow[h][n] : y = Leftmost[h][n] \/ Before(Leftmost[h][n], y)

LeftmostLevel == INSTANCE Recursion WITH
    Base <- <<>>, Step <- LeftmostAbove, P <- LeftmostRight

\* The first key below a node, unfolded by one level.
LEMMA LeftmostIs ==
    \A h \in Nat \ {0} : Leftmost[h] = LeftmostAbove(Leftmost[h - 1], h)
<1>1. \E f : f = [h \in Nat |-> IF h = 0 THEN <<>> ELSE LeftmostAbove(f[h - 1], h)]
  BY LeftmostLevel!Defined
<1>2. Leftmost = [h \in Nat |-> IF h = 0 THEN <<>> ELSE LeftmostAbove(Leftmost[h - 1], h)]
  BY <1>1 DEF Leftmost
<1> QED BY <1>2

\* The first key below a node is its least item, if it is for the nodes below.
LEMMA LeftmostStep ==
    ASSUME NEW h \in Nat \ {0}, LeftmostRight(h - 1)
    PROVE  LeftmostRight(h)
<1> SUFFICES ASSUME NEW n \in Sound[h], n.keys # <<>>
             PROVE  /\ Leftmost[h][n] \in HeldBelow[h][n]
                    /\ \A y \in HeldBelow[h][n] : y = Leftmost[h][n] \/ Before(Leftmost[h][n], y)
  BY DEF LeftmostRight
<1> DEFINE len == Len(n.keys)  kid == n.kids[1]
<1>1. Shape(n, h) /\ n \in Nodes[h] /\ len \in Nat /\ len > 0
  BY SoundParts, NodeIs, LengthIsKeys DEF Shape
<1>2. 1 \in 1 .. len /\ 1 \in 1 .. len + 1
  BY <1>1
<1>3. \A i \in 1 .. len + 1 : n.kids[i] \in Sound[h - 1]
  BY <1>1, NodeIs DEF Shape
<1>4. Leftmost[h][n] = IF IsNoNode(kid) THEN n.keys[1] ELSE Leftmost[h - 1][kid]
  <2>1. Leftmost[h] = LeftmostAbove(Leftmost[h - 1], h)
    BY LeftmostIs
  <2> QED BY <1>1, <2>1 DEF LeftmostAbove
<1>5. /\ \A i \in 1 .. len : n.keys[i] \in HeldBelow[h][n] /\ n.keys[i] \in NodeKey
      /\ \A i \in 1 .. len + 1 : /\ HeldBelow[h - 1][n.kids[i]] \subseteq HeldBelow[h][n]
                                 /\ HeldBelow[h - 1][n.kids[i]] \subseteq NodeKey
      /\ \A y \in HeldBelow[h][n] : \/ \E i \in 1 .. len : y = n.keys[i]
                                    \/ \E i \in 1 .. len + 1 : y \in HeldBelow[h - 1][n.kids[i]]
  BY <1>1, HeldIn
<1>6. /\ \A i, j \in 1 .. len : i < j => Before(n.keys[i], n.keys[j])
      /\ \A i \in 1 .. len + 1 : \A y \in HeldBelow[h - 1][n.kids[i]] : \A j \in 1 .. len :
           IF i <= j THEN Before(y, n.keys[j]) ELSE Before(n.keys[j], y)
  BY <1>1, AscendingIs DEF Shape, InGap
<1>7. CASE h = 1
  <2>1. Leftmost[h][n] = n.keys[1]
    BY <1>2, <1>3, <1>4, <1>7, IsLeaf
  <2>2. \A i \in 1 .. len + 1 : HeldBelow[h - 1][n.kids[i]] = {}
    BY <1>3, <1>7, Nowhere
  <2> HIDE DEF len
  <2>3. \A i \in 1 .. len : n.keys[i] = n.keys[1] \/ Before(n.keys[1], n.keys[i])
    <3> TAKE i \in 1 .. len
    <3>1. i = 1 \/ 1 < i
      OBVIOUS
    <3> QED BY <1>2, <1>6, <3>1
  <2>4. n.keys[1] \in HeldBelow[h][n]
    BY <1>2, <1>5
  <2>5. \A y \in HeldBelow[h][n] : \E i \in 1 .. len : y = n.keys[i]
    <3>1. \A i \in 1 .. len + 1 : \A y : y \notin HeldBelow[h - 1][n.kids[i]]
      BY <2>2
    <3> QED BY <1>5, <3>1
  <2> QED BY <2>1, <2>3, <2>4, <2>5
<1>8. CASE h # 1
  <2>1. h - 1 \in Nat \ {0} /\ h - 1 > 0 /\ h > 1
    BY <1>8
  <2>2. kid \in Sound[h - 1] /\ kid.keys # <<>>
    <3>1. Len(kid.keys) >= NodeMin
      BY <1>2, <2>1, SoundParts
    <3>2. kid \in Sound[h - 1] /\ kid \in Nodes[h - 1]
      BY <1>2, <1>3, <2>1, SoundInNodes
    <3>3. Len(kid.keys) > 0
      BY <2>1, <3>1, <3>2, NodeIs, NodeAssumption
    <3> QED BY <2>1, <3>2, <3>3, LengthIsKeys
  <2> DEFINE first == Leftmost[h - 1][kid]
  <2>3. Leftmost[h][n] = first
    BY <1>4, <1>8, <2>2, IsLeaf
  <2>4. /\ first \in HeldBelow[h - 1][kid]
        /\ \A y \in HeldBelow[h - 1][kid] : y = first \/ Before(first, y)
    BY <2>1, <2>2 DEF LeftmostRight
  <2>5. first \in HeldBelow[h][n] /\ first \in NodeKey
    BY <1>2, <1>5, <2>4
  <2> HIDE DEF first, len
  <2>6. \A i \in 1 .. len : Before(first, n.keys[i])
    BY <1>2, <1>6, <2>4
  <2>7. ASSUME NEW i \in 1 .. len + 1, NEW y \in HeldBelow[h - 1][n.kids[i]]
        PROVE  y = first \/ Before(first, y)
    <3>1. CASE i = 1
      BY <2>4, <3>1
    <3>2. CASE i # 1
      <4>1. Before(n.keys[1], y)
        <5>1. ~(i <= 1)
          BY <3>2
        <5> QED BY <1>2, <1>6, <5>1
      <4>2. Before(first, n.keys[1]) /\ n.keys[1] \in NodeKey /\ y \in NodeKey
        BY <1>2, <1>5, <2>6
      <4> QED BY <2>5, <4>1, <4>2, BeforeOrder
    <3> QED BY <3>1, <3>2
  <2> QED BY <1>5, <2>3, <2>5, <2>6, <2>7
<1> QED BY <1>7, <1>8

\* The first key below a node is its least item.
LEMMA LeftmostAll == \A h \in Nat : LeftmostRight(h)
<1>1. LeftmostRight(0)
  BY DEF LeftmostRight
<1>2. \A h \in Nat : LeftmostRight(h) => LeftmostRight(h + 1)
  <2> TAKE h \in Nat
  <2>1. h + 1 \in Nat \ {0} /\ (h + 1) - 1 = h
    OBVIOUS
  <2> QED BY <2>1, LeftmostStep
<1> QED BY LeftmostLevel!Induction, <1>1, <1>2

\* Two neighbours and the item between them.
Parted(l, x, r, h) ==
    /\ l \in Sound[h] /\ x \in NodeKey /\ r \in Sound[h]
    /\ \A y \in HeldBelow[h][l] : Before(y, x)
    /\ \A y \in HeldBelow[h][r] : Before(x, y)

\* What the two and the item hold.
PartedHeld(l, x, r, h) == HeldBelow[h][l] \cup {x} \cup HeldBelow[h][r]

\* A node that gave its last or its first child away, or got one.
LessLast(l) == [keys |-> Front(l.keys), kids |-> Front(l.kids)]
LessFirst(r) == [keys |-> Tail(r.keys), kids |-> Tail(r.kids)]
WithFirst(c, x, r) == [keys |-> <<x>> \o r.keys, kids |-> <<c>> \o r.kids]
WithLast(l, x, c) == [keys |-> Append(l.keys, x), kids |-> Append(l.kids, c)]

\* _remove_item_moveright: a key moves from the left neighbour to the right.
LEMMA ShiftRight ==
    ASSUME NEW h \in Nat \ {0}, NEW l, NEW x, NEW r, Parted(l, x, r, h),
           Len(l.keys) > NodeMin, Len(r.keys) < NodeCount
    PROVE  LET ll == LessLast(l)
               rr == WithFirst(Last(l.kids), x, r)
           IN  /\ Parted(ll, Last(l.keys), rr, h)
               /\ PartedHeld(ll, Last(l.keys), rr, h) = PartedHeld(l, x, r, h)
               /\ Len(ll.keys) = Len(l.keys) - 1 /\ Len(rr.keys) = Len(r.keys) + 1
<1> DEFINE ll == LessLast(l)
           rr == WithFirst(Last(l.kids), x, r)
           c == Last(l.kids)
           y == Last(l.keys)
<1>1. /\ Filled(l, h) /\ Filled(r, h) /\ l \in Nodes[h] /\ r \in Nodes[h]
      /\ Len(l.keys) \in Nat /\ Len(l.keys) <= NodeCount /\ Len(r.keys) \in Nat
  BY SoundIsFilled, NodeIs DEF Parted, Filled, Shape
<1>2. Len(l.keys) > 0
  BY <1>1, NodeAssumption
<1>3. /\ ll \in Nodes[h] /\ Len(ll.keys) = Len(l.keys) - 1
      /\ c \in Nodes[h - 1]
      /\ Joined(l, ll, y, Only(c))
  BY <1>1, <1>2, FrontJoins DEF LessLast
<1>4. /\ rr \in Nodes[h] /\ Len(rr.keys) = Len(r.keys) + 1
      /\ Joined(rr, Only(c), x, r)
  <2> HIDE DEF c
  <2>1. x \in NodeKey
    BY DEF Parted
  <2>2. LET m == [keys |-> <<x>> \o r.keys, kids |-> <<c>> \o r.kids]
        IN  /\ m \in Nodes[h] /\ Len(m.keys) = Len(r.keys) + 1
            /\ Joined(m, Only(c), x, r)
    BY <1>1, <1>3, <2>1, PrependJoins
  <2>3. /\ WithFirst(c, x, r) \in Nodes[h] /\ Len(WithFirst(c, x, r).keys) = Len(r.keys) + 1
        /\ Joined(WithFirst(c, x, r), Only(c), x, r)
    BY <2>2 DEF WithFirst
  <2> QED BY <2>3 DEF c
<1> DEFINE o == Only(c)
<1> HIDE DEF ll, rr, c, y
<1>5. o \in Nodes[h]
  BY <1>3, OnlyShape
<1> HIDE DEF o
<1>6. /\ Filled(ll, h) /\ Filled(o, h) /\ y \in NodeKey
      /\ \A z \in HeldBelow[h][ll] : Before(z, y)
      /\ \A z \in HeldBelow[h][o] : Before(y, z)
      /\ HeldBelow[h][l] = HeldBelow[h][ll] \cup {y} \cup HeldBelow[h][o]
  BY <1>1, <1>3, <1>5, FilledParts DEF o
<1>7. /\ x \in NodeKey
      /\ \A z \in HeldBelow[h][l] : Before(z, x)
      /\ \A z \in HeldBelow[h][r] : Before(x, z)
      /\ HeldBelow[h][l] \subseteq NodeKey /\ HeldBelow[h][r] \subseteq NodeKey
  BY <1>1, HeldIn DEF Parted
<1>8. /\ Filled(rr, h)
      /\ HeldBelow[h][rr] = HeldBelow[h][o] \cup {x} \cup HeldBelow[h][r]
  <2>1. \A z \in HeldBelow[h][o] : Before(z, x)
    BY <1>6, <1>7
  <2>2. Joined(rr, o, x, r)
    BY <1>4 DEF o
  <2> QED BY <1>1, <1>4, <1>6, <1>7, <2>1, <2>2, FilledJoin
<1>9. ll \in Sound[h] /\ rr \in Sound[h]
  <2>1. Len(ll.keys) <= NodeCount /\ Len(rr.keys) <= NodeCount
    BY <1>1, <1>3, <1>4, NodeAssumption
  <2> QED BY <1>6, <1>8, <2>1, SoundIsFilled
<1>10. \A z \in HeldBelow[h][rr] : Before(y, z)
  <2>1. Before(y, x)
    BY <1>6, <1>7
  <2>2. \A z \in HeldBelow[h][r] : Before(y, z)
    BY <1>6, <1>7, <2>1, BeforeOrder
  <2> QED BY <1>6, <1>8, <2>1, <2>2
<1>11. Parted(ll, y, rr, h)
  BY <1>6, <1>9, <1>10 DEF Parted
<1>12. PartedHeld(ll, y, rr, h) = PartedHeld(l, x, r, h)
  BY <1>6, <1>8 DEF PartedHeld
<1> QED BY <1>3, <1>4, <1>11, <1>12 DEF ll, rr, c, y

\* _remove_item_moveleft: a key moves from the right neighbour to the left.
LEMMA ShiftLeft ==
    ASSUME NEW h \in Nat \ {0}, NEW l, NEW x, NEW r, Parted(l, x, r, h),
           Len(r.keys) > NodeMin, Len(l.keys) < NodeCount
    PROVE  LET ll == WithLast(l, x, Head(r.kids))
               rr == LessFirst(r)
           IN  /\ Parted(ll, Head(r.keys), rr, h)
               /\ PartedHeld(ll, Head(r.keys), rr, h) = PartedHeld(l, x, r, h)
               /\ Len(ll.keys) = Len(l.keys) + 1 /\ Len(rr.keys) = Len(r.keys) - 1
<1> DEFINE ll == WithLast(l, x, Head(r.kids))
           rr == LessFirst(r)
           c == Head(r.kids)
           y == Head(r.keys)
<1>1. /\ Filled(l, h) /\ Filled(r, h) /\ l \in Nodes[h] /\ r \in Nodes[h]
      /\ Len(r.keys) \in Nat /\ Len(r.keys) <= NodeCount /\ Len(l.keys) \in Nat
  BY SoundIsFilled, NodeIs DEF Parted, Filled, Shape
<1>2. Len(r.keys) > 0
  BY <1>1, NodeAssumption
<1>3. /\ rr \in Nodes[h] /\ Len(rr.keys) = Len(r.keys) - 1
      /\ c \in Nodes[h - 1]
      /\ Joined(r, Only(c), y, rr)
  BY <1>1, <1>2, TailJoins DEF LessFirst
<1>4. /\ ll \in Nodes[h] /\ Len(ll.keys) = Len(l.keys) + 1
      /\ Joined(ll, l, x, Only(c))
  <2> HIDE DEF c
  <2>1. x \in NodeKey
    BY DEF Parted
  <2>2. LET m == [keys |-> Append(l.keys, x), kids |-> Append(l.kids, c)]
        IN  /\ m \in Nodes[h] /\ Len(m.keys) = Len(l.keys) + 1
            /\ Joined(m, l, x, Only(c))
    BY <1>1, <1>3, <2>1, AppendJoins
  <2>3. /\ WithLast(l, x, c) \in Nodes[h] /\ Len(WithLast(l, x, c).keys) = Len(l.keys) + 1
        /\ Joined(WithLast(l, x, c), l, x, Only(c))
    BY <2>2 DEF WithLast
  <2> QED BY <2>3 DEF c
<1> DEFINE o == Only(c)
<1> HIDE DEF ll, rr, c, y
<1>5. o \in Nodes[h]
  BY <1>3, OnlyShape
<1> HIDE DEF o
<1>6. /\ Filled(rr, h) /\ Filled(o, h) /\ y \in NodeKey
      /\ \A z \in HeldBelow[h][o] : Before(z, y)
      /\ \A z \in HeldBelow[h][rr] : Before(y, z)
      /\ HeldBelow[h][r] = HeldBelow[h][o] \cup {y} \cup HeldBelow[h][rr]
  BY <1>1, <1>3, <1>5, FilledParts DEF o
<1>7. /\ x \in NodeKey
      /\ \A z \in HeldBelow[h][l] : Before(z, x)
      /\ \A z \in HeldBelow[h][r] : Before(x, z)
      /\ HeldBelow[h][l] \subseteq NodeKey /\ HeldBelow[h][r] \subseteq NodeKey
  BY <1>1, HeldIn DEF Parted
<1>8. /\ Filled(ll, h)
      /\ HeldBelow[h][ll] = HeldBelow[h][l] \cup {x} \cup HeldBelow[h][o]
  <2>1. \A z \in HeldBelow[h][o] : Before(x, z)
    BY <1>6, <1>7
  <2>2. Joined(ll, l, x, o)
    BY <1>4 DEF o
  <2> QED BY <1>1, <1>4, <1>6, <1>7, <2>1, <2>2, FilledJoin
<1>9. ll \in Sound[h] /\ rr \in Sound[h]
  <2>1. Len(ll.keys) <= NodeCount /\ Len(rr.keys) <= NodeCount
    BY <1>1, <1>3, <1>4, NodeAssumption
  <2> QED BY <1>6, <1>8, <2>1, SoundIsFilled
<1>10. \A z \in HeldBelow[h][ll] : Before(z, y)
  <2>1. Before(x, y)
    BY <1>6, <1>7
  <2>2. \A z \in HeldBelow[h][l] : Before(z, y)
    BY <1>6, <1>7, <2>1, BeforeOrder
  <2> QED BY <1>6, <1>8, <2>1, <2>2
<1>11. Parted(ll, y, rr, h)
  BY <1>6, <1>9, <1>10 DEF Parted
<1>12. PartedHeld(ll, y, rr, h) = PartedHeld(l, x, r, h)
  BY <1>6, <1>8 DEF PartedHeld
<1> QED BY <1>3, <1>4, <1>11, <1>12 DEF ll, rr, c, y

\* _remove_item_combine: two neighbours become one node.
LEMMA Fuse ==
    ASSUME NEW h \in Nat \ {0}, NEW l, NEW x, NEW r, Parted(l, x, r, h),
           Len(l.keys) + 1 + Len(r.keys) <= NodeCount
    PROVE  LET m == [keys |-> Append(l.keys, x) \o r.keys, kids |-> l.kids \o r.kids]
           IN  /\ m \in Sound[h] /\ Len(m.keys) = Len(l.keys) + 1 + Len(r.keys)
               /\ HeldBelow[h][m] = PartedHeld(l, x, r, h)
<1> DEFINE m == [keys |-> Append(l.keys, x) \o r.keys, kids |-> l.kids \o r.kids]
<1>1. Filled(l, h) /\ Filled(r, h) /\ l \in Nodes[h] /\ r \in Nodes[h] /\ x \in NodeKey
  BY SoundIsFilled DEF Parted, Filled, Shape
<1>2. /\ m \in Nodes[h] /\ Len(m.keys) = Len(l.keys) + 1 + Len(r.keys)
      /\ Joined(m, l, x, r)
  BY <1>1, NodeJoins
<1> HIDE DEF m
<1>3. /\ \A y \in HeldBelow[h][l] : Before(y, x)
      /\ \A y \in HeldBelow[h][r] : Before(x, y)
  BY DEF Parted
<1>4. Filled(m, h) /\ HeldBelow[h][m] = HeldBelow[h][l] \cup {x} \cup HeldBelow[h][r]
  BY <1>1, <1>2, <1>3, FilledJoin
<1>5. m \in Sound[h]
  BY <1>2, <1>4, SoundIsFilled
<1>6. HeldBelow[h][m] = PartedHeld(l, x, r, h)
  BY <1>4 DEF PartedHeld
<1> QED BY <1>2, <1>5, <1>6 DEF m

\* Two neighbours of a node as one gap of a smaller one.
LEMMA Neighbours ==
    ASSUME NEW h \in Nat \ {0}, NEW m, Shape(m, h), NEW i \in 1 .. Len(m.keys)
    PROVE  \E q \in Nodes[h] :
              /\ Len(q.keys) = Len(m.keys) - 1 /\ Shape(q, h)
              /\ Opened(m, q, i, m.kids[i], m.keys[i], m.kids[i + 1])
              /\ Parted(m.kids[i], m.keys[i], m.kids[i + 1], h - 1)
              /\ \A y \in PartedHeld(m.kids[i], m.keys[i], m.kids[i + 1], h - 1) : InGap(q, i, y)
<1> DEFINE k == m.kids[i]
           q == RemoveTrgt([m EXCEPT !.kids[i] = k], i - 1).node
<1>1. m \in Nodes[h] /\ Len(m.keys) \in Nat
  BY NodeIs DEF Shape
<1>2. k \in Sound[h - 1] /\ k \in Nodes[h - 1]
  <2>1. i \in DOMAIN m.kids
    BY <1>1, NodeIs
  <2> QED BY <2>1, SoundInNodes DEF Shape
<1>3. /\ q \in Nodes[h] /\ Len(q.keys) = Len(m.keys) - 1 /\ q.kids[i] = k
      /\ Opened(m, q, i, m.kids[i], m.keys[i], m.kids[i + 1])
  <2> HIDE DEF k
  <2> QED BY <1>1, <1>2, RemoveTrgtCloses
<1> HIDE DEF q
<1>4. i \in 1 .. Len(q.keys) + 1
  BY <1>1, <1>3
<1> DEFINE l == m.kids[i]  x == m.keys[i]  r == m.kids[i + 1]
<1>5. /\ q.kids[i] \in Sound[h - 1]
      /\ HeldBelow[h - 1][q.kids[i]] \subseteq HeldBelow[h - 1][l] \cup {x} \cup HeldBelow[h - 1][r]
  BY <1>2, <1>3
<1> HIDE DEF l, x, r
<1>6. Opened(m, q, i, l, x, r)
  BY <1>3 DEF l, x, r
<1>7. /\ Shape(q, h)
      /\ l \in Sound[h - 1] /\ r \in Sound[h - 1] /\ x \in NodeKey
      /\ \A y \in HeldBelow[h - 1][l] : InGap(q, i, y) /\ Before(y, x)
      /\ \A y \in HeldBelow[h - 1][r] : InGap(q, i, y) /\ Before(x, y)
      /\ InGap(q, i, x)
  BY <1>3, <1>4, <1>5, <1>6, ClosedShape
<1>8. Parted(l, x, r, h - 1)
  BY <1>7 DEF Parted
<1>9. \A y \in PartedHeld(l, x, r, h - 1) : InGap(q, i, y)
  BY <1>7 DEF PartedHeld
<1> QED BY <1>3, <1>6, <1>7, <1>8, <1>9 DEF l, x, r

\* A node with two neighbours and the item between them exchanged, or as one child.
Exchanged(m, i, l, x, r) ==
    [keys |-> [m.keys EXCEPT ![i] = x], kids |-> [m.kids EXCEPT ![i] = l, ![i + 1] = r]]
Merged(m, i, k) == RemoveTrgt([m EXCEPT !.kids[i] = k], i - 1).node

\* Two neighbours may be exchanged for two that hold no more.
LEMMA Exchange ==
    ASSUME NEW h \in Nat \ {0}, NEW m, Shape(m, h), NEW i \in 1 .. Len(m.keys),
           NEW l, NEW x, NEW r, Parted(l, x, r, h - 1),
           PartedHeld(l, x, r, h - 1)
             \subseteq PartedHeld(m.kids[i], m.keys[i], m.kids[i + 1], h - 1)
    PROVE  LET p == Exchanged(m, i, l, x, r)
           IN  /\ Shape(p, h)
               /\ HeldBelow[h][p]
                    = (HeldBelow[h][m] \ PartedHeld(m.kids[i], m.keys[i], m.kids[i + 1], h - 1))
                      \cup PartedHeld(l, x, r, h - 1)
               /\ Len(p.keys) = Len(m.keys)
               /\ \A j \in 1 .. Len(m.keys) + 1 :
                     p.kids[j] = IF j = i THEN l ELSE IF j = i + 1 THEN r ELSE m.kids[j]
<1> DEFINE len == Len(m.keys)
           keys == [m.keys EXCEPT ![i] = x]
           kids == [m.kids EXCEPT ![i] = l, ![i + 1] = r]
           p == [keys |-> keys, kids |-> kids]
<1>1. m \in Nodes[h] /\ len \in Nat
  BY NodeIs DEF Shape
<1>2. PICK q \in Nodes[h] :
              /\ Len(q.keys) = len - 1 /\ Shape(q, h)
              /\ Opened(m, q, i, m.kids[i], m.keys[i], m.kids[i + 1])
              /\ \A y \in PartedHeld(m.kids[i], m.keys[i], m.kids[i + 1], h - 1) : InGap(q, i, y)
  BY Neighbours
<1>3. /\ l \in Sound[h - 1] /\ x \in NodeKey /\ r \in Sound[h - 1]
      /\ l \in Nodes[h - 1] /\ r \in Nodes[h - 1]
      /\ \A y \in HeldBelow[h - 1][l] : Before(y, x)
      /\ \A y \in HeldBelow[h - 1][r] : Before(x, y)
  BY SoundInNodes DEF Parted
<1>4. PICK S : S = Nodes[h - 1]
  OBVIOUS
<1>5. m.keys \in [1 .. len -> NodeKey] /\ m.kids \in [1 .. len + 1 -> S]
  <2>1. /\ m.keys \in Seq(NodeKey) /\ m.kids \in Seq(Nodes[h - 1])
        /\ Len(m.kids) = Len(m.keys) + 1
    BY <1>1, NodeIs
  <2> QED BY <2>1, <1>4
<1>6. /\ keys \in [1 .. len -> NodeKey]
      /\ \A j \in 1 .. len : keys[j] = IF j = i THEN x ELSE m.keys[j]
  BY <1>1, <1>3, <1>5
<1>7. /\ kids \in [1 .. len + 1 -> S]
      /\ \A j \in 1 .. len + 1 :
            kids[j] = IF j = i THEN l ELSE IF j = i + 1 THEN r ELSE m.kids[j]
  <2>1. i \in 1 .. len + 1 /\ i + 1 \in 1 .. len + 1 /\ i + 1 # i
    BY <1>1
  <2>2. l \in S /\ r \in S
    BY <1>3, <1>4
  <2> HIDE DEF len
  <2> QED BY <1>5, <2>1, <2>2
<1>8. p.keys = keys /\ p.kids = kids
  OBVIOUS
<1> HIDE DEF keys, kids
<1>9. keys \in Seq(NodeKey) /\ Len(keys) = len /\ kids \in Seq(S) /\ Len(kids) = len + 1
  <2> HIDE DEF len
  <2>1. len + 1 \in Nat
    BY <1>1
  <2>2. keys \in Seq(NodeKey) /\ Len(keys) = len
    BY <1>1, <1>6, SeqFrom
  <2>3. kids \in Seq(S) /\ Len(kids) = len + 1
    BY <2>1, <1>7, SeqFrom
  <2> QED BY <2>2, <2>3
<1>10. p \in Nodes[h]
  BY <1>4, <1>9, NodeFrom
<1> HIDE DEF p
<1>11. Opened(p, q, i, l, x, r)
  <2>1. /\ Len(m.keys) = Len(q.keys) + 1
        /\ \A j \in 1 .. Len(q.keys) :
              /\ j < i => m.keys[j] = q.keys[j]
              /\ i <= j => m.keys[j + 1] = q.keys[j]
        /\ \A j \in 1 .. Len(q.keys) + 1 :
              /\ j < i => m.kids[j] = q.kids[j]
              /\ i < j => m.kids[j + 1] = q.kids[j]
    BY <1>2 DEF Opened
  <2> DEFINE lq == Len(q.keys)
  <2>2. lq = len - 1 /\ i \in 1 .. len /\ len \in Nat
    BY <1>1, <1>2
  <2>3. Len(p.keys) = lq + 1
    BY <1>1, <1>8, <1>9, <2>2
  <2> HIDE DEF len, lq
  <2>4. ASSUME NEW j \in 1 .. lq
        PROVE  /\ j < i => keys[j] = m.keys[j]
               /\ i <= j => keys[j + 1] = m.keys[j + 1]
    <3>1. j \in 1 .. len /\ j + 1 \in 1 .. len
      BY <2>2
    <3> QED BY <1>6, <3>1
  <2>5. ASSUME NEW j \in 1 .. lq + 1
        PROVE  /\ j < i => kids[j] = m.kids[j]
               /\ i < j => kids[j + 1] = m.kids[j + 1]
    <3>1. j \in 1 .. len + 1 /\ j + 1 \in 1 .. len + 1
      BY <2>2
    <3> QED BY <1>7, <3>1
  <2>6. keys[i] = x /\ kids[i] = l /\ kids[i + 1] = r
    <3>1. i \in 1 .. len + 1 /\ i + 1 \in 1 .. len + 1 /\ i + 1 # i
      BY <2>2
    <3> QED BY <1>6, <1>7, <2>2, <3>1
  <2> QED BY <1>8, <2>1, <2>3, <2>4, <2>5, <2>6 DEF Opened, lq
<1>12. i \in 1 .. Len(q.keys) + 1
  BY <1>1, <1>2
<1>13. \A y \in PartedHeld(l, x, r, h - 1) : InGap(q, i, y)
  BY <1>2
<1>14. /\ InGap(q, i, x)
       /\ \A y \in HeldBelow[h - 1][l] : InGap(q, i, y)
       /\ \A y \in HeldBelow[h - 1][r] : InGap(q, i, y)
  BY <1>13 DEF PartedHeld
<1>15. Shape(p, h)
  BY <1>2, <1>3, <1>10, <1>11, <1>12, <1>14, OpenedShape
<1>16. HeldBelow[h][p] = Others(q, h, i) \cup PartedHeld(l, x, r, h - 1)
  <2>1. HeldBelow[h][p] = Others(q, h, i) \cup HeldBelow[h - 1][l] \cup {x} \cup HeldBelow[h - 1][r]
    BY <1>10, <1>11, <1>12, OpenedHeld
  <2> QED BY <2>1 DEF PartedHeld
<1>17. HeldBelow[h][m] = Others(q, h, i) \cup PartedHeld(m.kids[i], m.keys[i], m.kids[i + 1], h - 1)
  <2>1. HeldBelow[h][m] = Others(q, h, i) \cup HeldBelow[h - 1][m.kids[i]] \cup {m.keys[i]}
                            \cup HeldBelow[h - 1][m.kids[i + 1]]
    BY <1>1, <1>2, <1>12, OpenedHeld
  <2> QED BY <2>1 DEF PartedHeld
<1>18. HeldBelow[h][p]
         = (HeldBelow[h][m] \ PartedHeld(m.kids[i], m.keys[i], m.kids[i + 1], h - 1))
           \cup PartedHeld(l, x, r, h - 1)
  <2> DEFINE old == PartedHeld(m.kids[i], m.keys[i], m.kids[i + 1], h - 1)
  <2>1. ASSUME NEW y \in old PROVE y \notin Others(q, h, i)
    <3>1. InGap(q, i, y)
      BY <1>2
    <3>2. y \in NodeKey
      <4>1. HeldBelow[h][m] \subseteq NodeKey
        BY <1>1, HeldIn
      <4> QED BY <1>17, <4>1
    <3> QED BY <1>2, <1>12, <3>1, <3>2, GapHoldsNoOther
  <2> HIDE DEF old
  <2>2. HeldBelow[h][m] \ old = Others(q, h, i)
    <3>1. HeldBelow[h][m] = Others(q, h, i) \cup old
      BY <1>17 DEF old
    <3> QED BY <2>1, <3>1
  <2> QED BY <1>16, <2>2 DEF old
<1>19. Len(p.keys) = Len(m.keys)
  BY <1>8, <1>9
<1> QED BY <1>7, <1>8, <1>15, <1>18, <1>19 DEF p, keys, kids, Exchanged

\* Two neighbours may be exchanged for one that holds the same.
LEMMA Merge ==
    ASSUME NEW h \in Nat \ {0}, NEW m, Shape(m, h), NEW i \in 1 .. Len(m.keys),
           NEW k \in Sound[h - 1],
           HeldBelow[h - 1][k] = PartedHeld(m.kids[i], m.keys[i], m.kids[i + 1], h - 1)
    PROVE  LET p == Merged(m, i, k)
           IN  /\ Shape(p, h) /\ HeldBelow[h][p] = HeldBelow[h][m]
               /\ Len(p.keys) = Len(m.keys) - 1
               /\ \A j \in 1 .. Len(p.keys) + 1 :
                     \/ p.kids[j] = k
                     \/ \E c \in (1 .. Len(m.keys) + 1) \ {i, i + 1} : p.kids[j] = m.kids[c]
<1> DEFINE p == RemoveTrgt([m EXCEPT !.kids[i] = k], i - 1).node
           l == m.kids[i]  x == m.keys[i]  r == m.kids[i + 1]
<1>1. m \in Nodes[h] /\ Len(m.keys) \in Nat /\ k \in Nodes[h - 1]
  <2>1. h - 1 \in Nat
    OBVIOUS
  <2> QED BY <2>1, NodeIs, SoundInNodes DEF Shape
<1>2. /\ p \in Nodes[h] /\ Len(p.keys) = Len(m.keys) - 1 /\ p.kids[i] = k
      /\ Opened(m, p, i, m.kids[i], m.keys[i], m.kids[i + 1])
  BY <1>1, RemoveTrgtCloses
<1> HIDE DEF p
<1>3. HeldBelow[h - 1][k] = HeldBelow[h - 1][l] \cup {x} \cup HeldBelow[h - 1][r]
  BY DEF PartedHeld
<1> HIDE DEF l, x, r
<1>4. Opened(m, p, i, l, x, r)
  BY <1>2 DEF l, x, r
<1>5. i \in 1 .. Len(p.keys) + 1
  BY <1>1, <1>2
<1>6. Shape(p, h)
  BY <1>2, <1>3, <1>4, <1>5, ClosedShape
<1>7. HeldBelow[h][m] = Others(p, h, i) \cup HeldBelow[h - 1][l] \cup {x} \cup HeldBelow[h - 1][r]
  BY <1>1, <1>2, <1>4, <1>5, OpenedHeld, SMTT(30)
<1>8. HeldBelow[h][p] = Others(p, h, i) \cup HeldBelow[h - 1][k]
  BY <1>2, <1>5, OthersHeld
<1>9. HeldBelow[h][p] = HeldBelow[h][m]
  BY <1>3, <1>7, <1>8
<1>10. \A j \in (1 .. Len(p.keys) + 1) \ {i} :
          p.kids[j] \in {m.kids[c] : c \in (1 .. Len(m.keys) + 1) \ {i, i + 1}}
  BY <1>1, <1>2, <1>4, <1>5, OpenedKids
<1> QED BY <1>2, <1>6, <1>9, <1>10 DEF p, Merged

\* What is left of a node when an item was removed from it.
Shrunk(r, h, n, rest) ==
    /\ r.node \in Sound[h] /\ HeldBelow[h][r.node] = rest
    /\ r.under \in BOOLEAN
    /\ IF r.under THEN Len(r.node.keys) = Len(n.keys) - 1 /\ Len(r.node.keys) < NodeMin
       ELSE Len(r.node.keys) = Len(n.keys) \/ Len(r.node.keys) >= NodeMin

\* _remove_item_trgt tells whether the node is too small.
LEMMA UnderIs ==
    ASSUME NEW n, NEW pos
    PROVE  /\ RemoveTrgt(n, pos).under \in BOOLEAN
           /\ RemoveTrgt(n, pos).under <=> Len(n.keys) - 1 < NodeMin
<1> DEFINE few == Len(n.keys) - 1 < NodeMin
<1>1. RemoveTrgt(n, pos).under = few
  BY DEF RemoveTrgt
<1>2. few \in BOOLEAN
  OBVIOUS
<1> HIDE DEF few
<1>3. RemoveTrgt(n, pos).under \in BOOLEAN
  BY <1>1, <1>2
<1>4. RemoveTrgt(n, pos).under <=> few
  BY <1>1, Zenon
<1> QED BY <1>3, <1>4 DEF few

\* Restoring a child by combining it with a neighbour.
LEMMA CombineRestores ==
    ASSUME NEW h \in Nat \ {0}, h > 1, NEW m, Shape(m, h), NEW i \in 1 .. Len(m.keys),
           Len(m.keys) <= NodeCount,
           Len(m.kids[i].keys) + 1 + Len(m.kids[i + 1].keys) \in NodeMin .. NodeCount,
           \A j \in (1 .. Len(m.keys) + 1) \ {i, i + 1} : Len(m.kids[j].keys) >= NodeMin
    PROVE  Shrunk(Combine(m, i), h, m, HeldBelow[h][m])
<1> DEFINE l == m.kids[i]  x == m.keys[i]  r == m.kids[i + 1]
           k == [keys |-> Append(l.keys, x) \o r.keys, kids |-> l.kids \o r.kids]
           c == Combine(m, i)
<1>1. m \in Nodes[h] /\ Len(m.keys) \in Nat /\ h - 1 \in Nat \ {0}
  BY NodeIs DEF Shape
<1>2. Parted(l, x, r, h - 1)
  BY Neighbours
<1> DEFINE size == Len(l.keys) + 1 + Len(r.keys)
<1>10. size >= NodeMin /\ size <= NodeCount
  <2>1. Len(l.keys) \in Nat /\ Len(r.keys) \in Nat
    BY <1>1, <1>2, NodeIs, SoundInNodes DEF Parted
  <2>2. size \in NodeMin .. NodeCount
    OBVIOUS
  <2>3. size \in Int
    BY <2>1
  <2> HIDE DEF size
  <2> QED BY <2>2, <2>3, NodeAssumption
<1>3. /\ k \in Sound[h - 1] /\ Len(k.keys) = size
      /\ HeldBelow[h - 1][k] = PartedHeld(l, x, r, h - 1)
  <2>1. Len(l.keys) + 1 + Len(r.keys) <= NodeCount
    BY <1>10
  <2> HIDE DEF l, x, r
  <2> QED BY <1>1, <1>2, <2>1, Fuse
<1> HIDE DEF size
<1>4. c = RemoveTrgt([m EXCEPT !.kids[i] = k], i - 1)
  BY DEF Combine
<1> HIDE DEF c, k
<1> DEFINE p == Merged(m, i, k)
<1>9. /\ Shape(p, h) /\ HeldBelow[h][p] = HeldBelow[h][m]
      /\ Len(p.keys) = Len(m.keys) - 1
      /\ \A j \in 1 .. Len(p.keys) + 1 :
            \/ p.kids[j] = k
            \/ \E e \in (1 .. Len(m.keys) + 1) \ {i, i + 1} : p.kids[j] = m.kids[e]
  BY <1>3, Merge
<1>11. c.node = p
  BY <1>4 DEF Merged
<1> HIDE DEF p
<1>5. /\ Shape(c.node, h) /\ HeldBelow[h][c.node] = HeldBelow[h][m]
      /\ Len(c.node.keys) = Len(m.keys) - 1
      /\ \A j \in 1 .. Len(c.node.keys) + 1 :
            \/ c.node.kids[j] = k
            \/ \E e \in (1 .. Len(m.keys) + 1) \ {i, i + 1} : c.node.kids[j] = m.kids[e]
  BY <1>9, <1>11
<1>6. /\ c.under \in BOOLEAN
      /\ c.under <=> Len(m.keys) - 1 < NodeMin
  <2>1. m = [keys |-> m.keys, kids |-> m.kids]
    BY <1>1, NodeIs
  <2>2. [m EXCEPT !.kids[i] = k].keys = m.keys
    BY <2>1
  <2> QED BY <1>4, <2>2, UnderIs
<1>7. c.node \in Sound[h]
  <2>1. Len(k.keys) >= NodeMin
    BY <1>3, <1>10
  <2>2. \A j \in 1 .. Len(c.node.keys) + 1 : Len(c.node.kids[j].keys) >= NodeMin
    BY <1>5, <2>1
  <2>3. Len(c.node.keys) <= NodeCount
    BY <1>1, <1>5, NodeAssumption
  <2> QED BY <1>5, <2>2, <2>3, SoundParts
<1>8. /\ c.under => Len(c.node.keys) < NodeMin
      /\ ~c.under => Len(c.node.keys) >= NodeMin
      /\ c.under \in BOOLEAN
  <2>1. Len(c.node.keys) \in Int /\ NodeMin \in Int
    BY <1>1, <1>5, NodeAssumption
  <2>2. c.under <=> Len(c.node.keys) < NodeMin
    BY <1>5, <1>6
  <2>3. c.under => Len(c.node.keys) < NodeMin
    BY <2>2
  <2>4. ~c.under => ~(Len(c.node.keys) < NodeMin)
    BY <2>2
  <2> QED BY <1>6, <2>1, <2>3, <2>4
<1> QED BY <1>5, <1>7, <1>8 DEF Shrunk, c

\* Restoring a child by taking a key from a neighbour.
LEMMA MoveRestores ==
    ASSUME NEW h \in Nat \ {0}, h > 1, NEW m, Shape(m, h), NEW i \in 1 .. Len(m.keys),
           Len(m.keys) <= NodeCount,
           NEW l, NEW x, NEW r, Parted(l, x, r, h - 1),
           PartedHeld(l, x, r, h - 1)
             = PartedHeld(m.kids[i], m.keys[i], m.kids[i + 1], h - 1),
           Len(l.keys) >= NodeMin, Len(r.keys) >= NodeMin,
           \A j \in (1 .. Len(m.keys) + 1) \ {i, i + 1} : Len(m.kids[j].keys) >= NodeMin
    PROVE  Shrunk([node |-> Exchanged(m, i, l, x, r), under |-> FALSE], h, m, HeldBelow[h][m])
<1> DEFINE p == Exchanged(m, i, l, x, r)
           old == PartedHeld(m.kids[i], m.keys[i], m.kids[i + 1], h - 1)
<1>4. /\ Shape(p, h)
      /\ HeldBelow[h][p] = (HeldBelow[h][m] \ old) \cup PartedHeld(l, x, r, h - 1)
      /\ Len(p.keys) = Len(m.keys)
      /\ \A j \in 1 .. Len(m.keys) + 1 :
            p.kids[j] = IF j = i THEN l ELSE IF j = i + 1 THEN r ELSE m.kids[j]
  BY Exchange
<1>5. old \subseteq HeldBelow[h][m]
  <2>1. m \in Nodes[h] /\ Len(m.keys) \in Nat
    BY NodeIs DEF Shape
  <2>2. i \in 1 .. Len(m.keys) + 1 /\ i + 1 \in 1 .. Len(m.keys) + 1
    BY <2>1
  <2> QED BY <2>1, <2>2, HeldIn DEF PartedHeld
<1>6. PartedHeld(l, x, r, h - 1) = old
  OBVIOUS
<1> HIDE DEF p, old
<1>1. /\ Shape(p, h) /\ HeldBelow[h][p] = HeldBelow[h][m]
      /\ Len(p.keys) = Len(m.keys)
      /\ \A j \in 1 .. Len(m.keys) + 1 :
            p.kids[j] = IF j = i THEN l ELSE IF j = i + 1 THEN r ELSE m.kids[j]
  BY <1>4, <1>5, <1>6
<1> HIDE DEF p
<1>2. \A j \in 1 .. Len(p.keys) + 1 : Len(p.kids[j].keys) >= NodeMin
  BY <1>1
<1>3. p \in Sound[h]
  BY <1>1, <1>2, SoundParts
<1>7. Shrunk([node |-> p, under |-> FALSE], h, m, HeldBelow[h][m])
  BY <1>1, <1>3 DEF Shrunk
<1> QED BY <1>7 DEF p

\* _remove_item_restore: the node holds what it did, no child is too small.
LEMMA RestoreRight ==
    ASSUME NEW h \in Nat \ {0}, h > 1, NEW m, Shape(m, h), NEW at \in 0 .. Len(m.keys),
           Len(m.keys) >= 1, Len(m.keys) <= NodeCount,
           Len(m.kids[at + 1].keys) = NodeMin - 1,
           \A j \in (1 .. Len(m.keys) + 1) \ {at + 1} : Len(m.kids[j].keys) >= NodeMin
    PROVE  Shrunk(Restore(m, at), h, m, HeldBelow[h][m])
<1> DEFINE len == Len(m.keys)
<1>1. m \in Nodes[h] /\ len \in Nat /\ h - 1 \in Nat \ {0}
  BY NodeIs DEF Shape
<1>2. \A j \in 1 .. len + 1 : Len(m.kids[j].keys) \in Nat /\ Len(m.kids[j].keys) <= NodeCount
  <2>1. \A j \in 1 .. len + 1 : m.kids[j] \in Sound[h - 1] /\ m.kids[j] \in Nodes[h - 1]
    BY <1>1, NodeIs, SoundInNodes DEF Shape
  <2> QED BY <1>1, <2>1, NodeIs, SoundParts
<1>3. NodeMin \in Nat \ {0} /\ NodeCount = 2 * NodeMin
  BY NodeAssumption
<1>4. CASE at > 0
  <2> DEFINE l == m.kids[at]  x == m.keys[at]  r == m.kids[at + 1]
  <2>1. at \in 1 .. len /\ at \in 1 .. len + 1 /\ at + 1 \in 1 .. len + 1 /\ at # at + 1
    BY <1>1, <1>4
  <2>2. Len(r.keys) = NodeMin - 1 /\ Len(l.keys) >= NodeMin /\ Len(l.keys) \in Nat
    BY <1>2, <2>1
  <2>3. Parted(l, x, r, h - 1)
    BY <2>1, Neighbours
  <2>4. \A j \in (1 .. len + 1) \ {at, at + 1} : Len(m.kids[j].keys) >= NodeMin
    OBVIOUS
  <2>5. CASE Len(l.keys) > NodeMin
    <3> DEFINE ll == LessLast(l)
               rr == WithFirst(Last(l.kids), x, r)
               y == Last(l.keys)
    <3>1. Restore(m, at) =
            [node |-> Exchanged(m, at, ll, y, rr), under |-> FALSE]
      BY <1>4, <2>5 DEF Restore, MoveRight, Exchanged, LessLast, WithFirst
    <3>2. /\ Parted(ll, y, rr, h - 1)
          /\ PartedHeld(ll, y, rr, h - 1) = PartedHeld(l, x, r, h - 1)
          /\ Len(ll.keys) = Len(l.keys) - 1 /\ Len(rr.keys) = Len(r.keys) + 1
      <4>1. Len(r.keys) < NodeCount
        BY <1>3, <2>2
      <4> HIDE DEF l, x, r
      <4> QED BY <1>1, <2>3, <2>5, <4>1, ShiftRight
    <3> HIDE DEF ll, rr, y
    <3>3. Len(ll.keys) >= NodeMin /\ Len(rr.keys) >= NodeMin
      <4>1. PICK a \in Nat : a = Len(l.keys)
        BY <2>2
      <4>2. a > NodeMin /\ Len(ll.keys) = a - 1 /\ Len(rr.keys) = (NodeMin - 1) + 1
        BY <2>2, <2>5, <3>2, <4>1
      <4>3. a - 1 >= NodeMin /\ (NodeMin - 1) + 1 = NodeMin
        BY <1>3, <4>2
      <4> QED BY <1>3, <4>2, <4>3
    <3> QED BY <2>1, <2>4, <3>1, <3>2, <3>3, MoveRestores
  <2>6. CASE ~(Len(l.keys) > NodeMin)
    <3>1. Restore(m, at) = Combine(m, at)
      BY <1>4, <2>6 DEF Restore
    <3>2. Len(l.keys) + 1 + Len(r.keys) \in NodeMin .. NodeCount
      BY <1>3, <2>2, <2>6
    <3> QED BY <2>1, <2>4, <3>1, <3>2, CombineRestores
  <2> QED BY <2>5, <2>6
<1>5. CASE ~(at > 0)
  <2> DEFINE l == m.kids[1]  x == m.keys[1]  r == m.kids[1 + 1]
  <2>1. at = 0 /\ 1 \in 1 .. len /\ 1 \in 1 .. len + 1 /\ 1 + 1 \in 1 .. len + 1 /\ 1 + 1 = 2
    BY <1>1, <1>5
  <2>2. Len(l.keys) = NodeMin - 1 /\ Len(r.keys) >= NodeMin /\ Len(r.keys) \in Nat
    <3>1. 1 + 1 \in (1 .. len + 1) \ {at + 1}
      BY <2>1
    <3> QED BY <1>2, <2>1, <3>1
  <2>3. Parted(l, x, r, h - 1)
    BY <2>1, Neighbours
  <2>4. \A j \in (1 .. len + 1) \ {1, 1 + 1} : Len(m.kids[j].keys) >= NodeMin
    BY <2>1
  <2>5. CASE Len(r.keys) > NodeMin
    <3> DEFINE ll == WithLast(l, x, Head(r.kids))
               rr == LessFirst(r)
               y == Head(r.keys)
    <3>1. Restore(m, at) =
            [node |-> Exchanged(m, 1, ll, y, rr), under |-> FALSE]
      BY <1>5, <2>1, <2>5 DEF Restore, MoveLeft, Exchanged, LessFirst, WithLast
    <3>2. /\ Parted(ll, y, rr, h - 1)
          /\ PartedHeld(ll, y, rr, h - 1) = PartedHeld(l, x, r, h - 1)
          /\ Len(ll.keys) = Len(l.keys) + 1 /\ Len(rr.keys) = Len(r.keys) - 1
      <4>1. Len(l.keys) < NodeCount
        BY <1>3, <2>2
      <4> HIDE DEF l, x, r
      <4> QED BY <1>1, <2>3, <2>5, <4>1, ShiftLeft
    <3> HIDE DEF ll, rr, y
    <3>3. Len(ll.keys) >= NodeMin /\ Len(rr.keys) >= NodeMin
      <4> HIDE DEF l, x, r
      <4> QED BY <1>3, <2>2, <2>5, <3>2
    <3> QED BY <2>1, <2>4, <3>1, <3>2, <3>3, MoveRestores
  <2>6. CASE ~(Len(r.keys) > NodeMin)
    <3>1. Restore(m, at) = Combine(m, 1)
      BY <1>5, <2>1, <2>6 DEF Restore
    <3>2. Len(l.keys) + 1 + Len(r.keys) \in NodeMin .. NodeCount
      BY <1>3, <2>2, <2>6
    <3> QED BY <2>1, <2>4, <3>1, <3>2, CombineRestores
  <2> QED BY <2>5, <2>6
<1> QED BY <1>1, <1>4, <1>5

\* What the removal of an item from a node of height h comes to.
Removed(r, h, n, x) ==
    /\ Shrunk(r, h, n, HeldBelow[h][n] \ {x})
    /\ h = 0 => ~r.under
    /\ r.deleted \in BOOLEAN
    /\ ~r.deleted => r.node = n

\* The removal from a node of height h is right.
RemovesRight(h) ==
    \A n \in Sound[h], x \in NodeKey :
       (h > 0 => n.keys # <<>>) => Removed(RemoveItem[h][n][x], h, n, x)

RemoveLevel == INSTANCE Recursion WITH
    Base <- RemoveNowhere, Step <- RemoveAbove, P <- RemovesRight

\* The removal, unfolded by one level.
LEMMA RemoveIs ==
    /\ RemoveItem[0] = RemoveNowhere
    /\ \A h \in Nat \ {0} : RemoveItem[h] = RemoveAbove(RemoveItem[h - 1], h)
<1>1. \E f : f = [h \in Nat |-> IF h = 0 THEN RemoveNowhere ELSE RemoveAbove(f[h - 1], h)]
  BY RemoveLevel!Defined
<1>2. RemoveItem = [h \in Nat |->
        IF h = 0 THEN RemoveNowhere ELSE RemoveAbove(RemoveItem[h - 1], h)]
  BY <1>1 DEF RemoveItem
<1> QED BY <1>2

\* _remove_item_trgt takes out a key and the child after it.
LEMMA RemoveTrgtOpens ==
    ASSUME NEW h \in Nat \ {0}, NEW n \in Nodes[h], NEW i \in 1 .. Len(n.keys)
    PROVE  LET q == RemoveTrgt(n, i - 1).node
           IN  /\ q \in Nodes[h] /\ Len(q.keys) = Len(n.keys) - 1 /\ q.kids[i] = n.kids[i]
               /\ Opened(n, q, i, n.kids[i], n.keys[i], n.kids[i + 1])
<1> DEFINE k == n.kids[i]
           q == RemoveTrgt(n, i - 1).node
<1>1. /\ n = [keys |-> n.keys, kids |-> n.kids] /\ DOMAIN n.kids = 1 .. Len(n.keys) + 1
      /\ n.kids \in Seq(Nodes[h - 1]) /\ Len(n.keys) \in Nat
      /\ \A j \in 1 .. Len(n.keys) + 1 : n.kids[j] \in Nodes[h - 1]
  BY NodeIs
<1>2. k \in Nodes[h - 1]
  BY <1>1
<1>3. q = RemoveTrgt([n EXCEPT !.kids[i] = k], i - 1).node
  <2>1. [n.kids EXCEPT ![i] = k] = n.kids
    BY <1>1
  <2>2. [n EXCEPT !.kids[i] = k] = n
    BY <1>1, <2>1
  <2> QED BY <2>2
<1> HIDE DEF q, k
<1> DEFINE p == RemoveTrgt([n EXCEPT !.kids[i] = k], i - 1).node
<1>4. /\ p \in Nodes[h] /\ Len(p.keys) = Len(n.keys) - 1 /\ p.kids[i] = k
      /\ Opened(n, p, i, n.kids[i], n.keys[i], n.kids[i + 1])
  BY <1>2, RemoveTrgtCloses
<1> QED BY <1>3, <1>4 DEF q, k

\* The node is a leaf: the item goes, and an empty child with it.
LEMMA LeafRemoves ==
    ASSUME NEW h \in Nat \ {0}, h = 1, NEW n \in Sound[h], NEW i \in 1 .. Len(n.keys)
    PROVE  Shrunk(RemoveTrgt(n, i - 1), h, n, HeldBelow[h][n] \ {n.keys[i]})
<1> DEFINE k == n.kids[i]
           t == RemoveTrgt(n, i - 1)
           x == n.keys[i]
<1>1. /\ h - 1 = 0 /\ Shape(n, h) /\ n \in Nodes[h]
      /\ Len(n.keys) \in Nat /\ Len(n.keys) <= NodeCount
  BY SoundParts, NodeIs DEF Shape
<1>2. /\ i \in 1 .. Len(n.keys) + 1 /\ i + 1 \in 1 .. Len(n.keys) + 1
      /\ \A j \in 1 .. Len(n.keys) + 1 : n.kids[j] = NoNode
  <2>1. \A j \in 1 .. Len(n.keys) + 1 : n.kids[j] \in Sound[h - 1]
    BY <1>1, NodeIs DEF Shape
  <2> QED BY <1>1, <2>1, Nowhere
<1>4. k = NoNode /\ k \in Sound[h - 1] /\ k \in Nodes[h - 1] /\ HeldBelow[h - 1][k] = {}
  BY <1>1, <1>2, Nowhere, SoundInNodes
<1>5. /\ t.node \in Nodes[h] /\ Len(t.node.keys) = Len(n.keys) - 1 /\ t.node.kids[i] = k
      /\ Opened(n, t.node, i, k, x, n.kids[i + 1])
  BY <1>1, RemoveTrgtOpens
<1>6. /\ t.under \in BOOLEAN
      /\ t.under <=> Len(n.keys) - 1 < NodeMin
  BY UnderIs
<1> HIDE DEF t, k
<1>7. i \in 1 .. Len(t.node.keys) + 1
  BY <1>1, <1>5
<1> DEFINE r == n.kids[i + 1]
<1>8. r = NoNode /\ HeldBelow[h - 1][r] = {}
  BY <1>1, <1>2, Nowhere
<1> HIDE DEF r, x
<1>9. Opened(n, t.node, i, k, x, r)
  BY <1>5 DEF r
<1>10. Shape(t.node, h) /\ x \in NodeKey /\ InGap(t.node, i, x)
  BY <1>1, <1>4, <1>5, <1>7, <1>9, ClosedShape
<1>11. t.node \in Sound[h]
  <2>1. Len(t.node.keys) <= NodeCount /\ ~(h > 1)
    BY <1>1, <1>5, NodeAssumption
  <2> QED BY <1>1, <1>10, <2>1, SoundParts
<1>12. HeldBelow[h][t.node] = HeldBelow[h][n] \ {x}
  <2>1. HeldBelow[h][n] = Others(t.node, h, i) \cup HeldBelow[h - 1][k] \cup {x} \cup HeldBelow[h - 1][r]
    BY <1>1, <1>5, <1>7, <1>9, OpenedHeld
  <2>2. HeldBelow[h][t.node] = Others(t.node, h, i) \cup HeldBelow[h - 1][k]
    BY <1>1, <1>5, <1>7, OthersHeld
  <2>3. x \notin Others(t.node, h, i)
    BY <1>1, <1>7, <1>10, GapHoldsNoOther
  <2> QED BY <1>4, <1>8, <2>1, <2>2, <2>3
<1>13. IF t.under THEN Len(t.node.keys) = Len(n.keys) - 1 /\ Len(t.node.keys) < NodeMin
       ELSE Len(t.node.keys) = Len(n.keys) \/ Len(t.node.keys) >= NodeMin
  <2>1. Len(t.node.keys) \in Int /\ NodeMin \in Int
    BY <1>1, <1>5, NodeAssumption
  <2>2. t.under => Len(t.node.keys) < NodeMin
    BY <1>5, <1>6
  <2>3. ~t.under => ~(Len(t.node.keys) < NodeMin)
    BY <1>5, <1>6
  <2> QED BY <1>5, <2>1, <2>2, <2>3
<1> QED BY <1>6, <1>11, <1>12, <1>13 DEF Shrunk, t, x

\* One child of a node was removed from; the node may have to be restored.
Settled(m, at, sub) ==
    IF sub.under THEN Restore(m, at) ELSE [node |-> m, under |-> FALSE]

\* After a removal from a child the node is sound, or itself too small.
LEMMA Settles ==
    ASSUME NEW h \in Nat \ {0}, NEW n \in Sound[h], n.keys # <<>>,
           NEW m, Shape(m, h), Len(m.keys) = Len(n.keys),
           NEW at \in 0 .. Len(n.keys), NEW sub, NEW rest,
           \A j \in (1 .. Len(n.keys) + 1) \ {at + 1} : m.kids[j] = n.kids[j],
           m.kids[at + 1] = sub.node,
           Shrunk(sub, h - 1, n.kids[at + 1], rest), h = 1 => ~sub.under
    PROVE  Shrunk(Settled(m, at, sub),
                  h, n, HeldBelow[h][m])
<1> DEFINE len == Len(n.keys)
           kid == n.kids[at + 1]
<1>1. /\ Shape(n, h) /\ n \in Nodes[h] /\ len <= NodeCount /\ len \in Nat /\ len > 0
      /\ NodeMin \in Nat \ {0} /\ NodeCount = 2 * NodeMin
  BY SoundParts, NodeIs, LengthIsKeys, NodeAssumption DEF Shape
<1>2. h > 1 => \A j \in 1 .. len + 1 : Len(n.kids[j].keys) >= NodeMin
  BY SoundParts
<1>3. at + 1 \in 1 .. len + 1
  BY <1>1
<1>4. h > 1 => Len(kid.keys) \in Nat /\ Len(kid.keys) >= NodeMin /\ Len(sub.node.keys) \in Nat
  <2>1. kid \in Sound[h - 1] /\ sub.node \in Sound[h - 1]
    BY <1>1, <1>3, NodeIs DEF Shape, Shrunk
  <2>2. h > 1 => h - 1 \in Nat \ {0} /\ kid \in Nodes[h - 1] /\ sub.node \in Nodes[h - 1]
    BY <2>1, SoundInNodes
  <2> QED BY <1>2, <1>3, <2>2, NodeIs
<1>5. /\ sub.under => Len(sub.node.keys) = Len(kid.keys) - 1 /\ Len(sub.node.keys) < NodeMin
      /\ ~sub.under => Len(sub.node.keys) = Len(kid.keys) \/ Len(sub.node.keys) >= NodeMin
  BY DEF Shrunk
<1> HIDE DEF len, kid
<1>6. CASE sub.under
  <2>1. h > 1
    BY <1>6
  <2>2. Len(sub.node.keys) = NodeMin - 1
    <3>1. Len(sub.node.keys) = Len(kid.keys) - 1 /\ Len(sub.node.keys) < NodeMin
      BY <1>5, <1>6
    <3>2. Len(kid.keys) \in Nat /\ Len(kid.keys) >= NodeMin
      BY <1>4, <2>1
    <3> QED BY <1>1, <3>1, <3>2
  <2>3. \A j \in (1 .. Len(m.keys) + 1) \ {at + 1} : Len(m.kids[j].keys) >= NodeMin
    BY <1>2, <2>1 DEF len
  <2>4. at \in 0 .. Len(m.keys) /\ Len(m.keys) >= 1 /\ Len(m.keys) <= NodeCount
    BY <1>1 DEF len
  <2>5. Shrunk(Restore(m, at), h, m, HeldBelow[h][m])
    BY <2>1, <2>2, <2>3, <2>4, RestoreRight
  <2> DEFINE r == Restore(m, at)
  <2> HIDE DEF r
  <2>6. Shrunk(r, h, n, HeldBelow[h][m])
    BY <2>5 DEF Shrunk, r
  <2> QED BY <1>6, <2>6 DEF r, Settled
<1>7. CASE ~sub.under
  <2>1. ASSUME h > 1 PROVE \A j \in 1 .. Len(m.keys) + 1 : Len(m.kids[j].keys) >= NodeMin
    <3>1. Len(sub.node.keys) >= NodeMin
      BY <1>4, <1>5, <1>7, <2>1
    <3> QED BY <1>2, <2>1, <3>1 DEF len
  <2>2. m \in Sound[h]
    BY <1>1, <2>1, SoundParts DEF len
  <2>3. Shrunk([node |-> m, under |-> FALSE], h, n, HeldBelow[h][m])
    BY <2>2 DEF Shrunk
  <2> QED BY <1>7, <2>3 DEF Settled
<1>8. sub.under \in BOOLEAN
  BY DEF Shrunk
<1> QED BY <1>6, <1>7, <1>8 DEF Settled

\* A node with another child.
WithKid(n, pos, k) == [keys |-> n.keys, kids |-> [n.kids EXCEPT ![pos + 1] = k]]

\* The item is not a key of the node: it is removed from a child.
LEMMA PassedOn ==
    ASSUME NEW h \in Nat \ {0}, NEW n \in Sound[h], n.keys # <<>>, NEW x \in NodeKey,
           ~HasAt(n, Pos(n, x), x),
           NEW sub, Removed(sub, h - 1, n.kids[Pos(n, x) + 1], x)
    PROVE  LET pos == Pos(n, x)
               m == WithKid(n, pos, sub.node)
           IN  /\ Shrunk(Settled(m, pos, sub),
                         h, n, HeldBelow[h][n] \ {x})
               /\ ~sub.deleted => ~sub.under /\ m = n
<1> DEFINE len == Len(n.keys)
           pos == Pos(n, x)
           i == pos + 1
           kid == n.kids[i]
           kids == [n.kids EXCEPT ![i] = sub.node]
           m == [keys |-> n.keys, kids |-> kids]
<1>1. /\ Shape(n, h) /\ n \in Nodes[h] /\ len \in Nat
      /\ n = [keys |-> n.keys, kids |-> n.kids]
      /\ n.keys \in Seq(NodeKey) /\ n.kids \in Seq(Nodes[h - 1]) /\ Len(n.kids) = len + 1
  BY SoundParts, NodeIs DEF Shape
<1>2. pos \in 0 .. len /\ InGap(n, i, x)
  BY <1>1, PosIs, PosIsGap
<1>3. i \in 1 .. len + 1
  BY <1>1, <1>2
<1>4. kid \in Sound[h - 1] /\ kid \in Nodes[h - 1]
  BY <1>1, <1>3, NodeIs, SoundInNodes DEF Shape
<1>5. /\ Shrunk(sub, h - 1, kid, HeldBelow[h - 1][kid] \ {x})
      /\ h = 1 => ~sub.under
      /\ sub.node \in Sound[h - 1] /\ sub.node \in Nodes[h - 1]
      /\ HeldBelow[h - 1][sub.node] = HeldBelow[h - 1][kid] \ {x}
  BY SoundInNodes DEF Removed, Shrunk
<1>6. PICK S : S = Nodes[h - 1]
  OBVIOUS
<1>7. /\ kids \in Seq(S) /\ Len(kids) = len + 1
      /\ \A j \in 1 .. len + 1 : kids[j] = IF j = i THEN sub.node ELSE n.kids[j]
  <2>1. n.kids \in [1 .. len + 1 -> S]
    BY <1>1, <1>6
  <2>2. sub.node \in S
    BY <1>5, <1>6
  <2> HIDE DEF len, i
  <2>3. /\ kids \in [1 .. len + 1 -> S]
        /\ \A j \in 1 .. len + 1 : kids[j] = IF j = i THEN sub.node ELSE n.kids[j]
    BY <1>3, <2>1, <2>2
  <2> HIDE DEF kids
  <2>4. len + 1 \in Nat
    BY <1>1
  <2> QED BY <2>3, <2>4, SeqFrom
<1> HIDE DEF kids
<1>8. m \in Nodes[h]
  BY <1>1, <1>6, <1>7, NodeFrom
<1>9. m.keys = n.keys /\ m.kids = kids
  OBVIOUS
<1> HIDE DEF m, kid
<1>10. Replaced(m, n, i, sub.node)
  BY <1>3, <1>7, <1>9 DEF Replaced
<1>11. \A y \in HeldBelow[h - 1][kid] : InGap(n, i, y)
  BY <1>1, <1>3, AscendingIs DEF Shape, kid
<1>12. Shape(m, h) /\ HeldBelow[h][m] = Others(n, h, i) \cup HeldBelow[h - 1][sub.node]
  BY <1>1, <1>3, <1>5, <1>8, <1>10, <1>11, ReplacedShape
<1>13. HeldBelow[h][m] = HeldBelow[h][n] \ {x}
  <2>1. HeldBelow[h][n] = Others(n, h, i) \cup HeldBelow[h - 1][kid]
    BY <1>1, <1>3, OthersHeld DEF kid
  <2>2. x \notin Others(n, h, i)
    BY <1>1, <1>2, <1>3, GapHoldsNoOther
  <2> QED BY <1>5, <1>12, <2>1, <2>2
<1>14. Shrunk(Settled(m, pos, sub),
              h, n, HeldBelow[h][m])
  <2>1. \A j \in (1 .. len + 1) \ {pos + 1} : m.kids[j] = n.kids[j]
    BY <1>7, <1>9
  <2>2. m.kids[pos + 1] = sub.node
    BY <1>3, <1>7, <1>9
  <2>3. Shrunk(sub, h - 1, n.kids[pos + 1], HeldBelow[h - 1][kid] \ {x})
    BY <1>5 DEF kid
  <2>4. Len(m.keys) = Len(n.keys)
    BY <1>9
  <2> DEFINE rest == HeldBelow[h - 1][kid] \ {x}
  <2> HIDE DEF rest
  <2>5. Shrunk(sub, h - 1, n.kids[pos + 1], rest)
    BY <2>3 DEF rest
  <2> QED BY <1>2, <1>5, <1>12, <2>1, <2>2, <2>4, <2>5, Settles
<1>15. ASSUME ~sub.deleted PROVE ~sub.under /\ m = n
  <2>1. sub.node = kid
    BY <1>15 DEF Removed, kid
  <2>2. ~sub.under
    <3>1. CASE h = 1
      BY <1>5, <3>1
    <3>2. CASE h # 1
      <4>1. Len(kid.keys) \in Nat
        BY <1>4, <3>2, NodeIs
      <4>2. sub.under => Len(sub.node.keys) = Len(kid.keys) - 1
        BY <1>5 DEF Shrunk
      <4> QED BY <2>1, <4>1, <4>2
    <3> QED BY <3>1, <3>2
  <2>3. kids = n.kids
    <3>1. \A j \in 1 .. len + 1 : kids[j] = n.kids[j]
      BY <1>7, <2>1 DEF kid
    <3>2. n.kids \in Seq(S)
      BY <1>1, <1>6
    <3> HIDE DEF len
    <3> QED BY <1>1, <1>7, <3>1, <3>2, SeqEqual
  <2> QED BY <1>1, <2>2, <2>3 DEF m
<1> QED BY <1>13, <1>14, <1>15 DEF m, kids, WithKid

\* The item is a key of an inner node: the next one takes its place.
LEMMA Succeeded ==
    ASSUME NEW h \in Nat \ {0}, h > 1, NEW n \in Sound[h], n.keys # <<>>,
           NEW i \in 1 .. Len(n.keys),
           RemovesRight(h - 1)
    PROVE  LET kid == n.kids[i + 1]
               y == Leftmost[h - 1][kid]
               sub == RemoveItem[h - 1][kid][y]
               m == [keys |-> [n.keys EXCEPT ![i] = y],
                     kids |-> [n.kids EXCEPT ![i + 1] = sub.node]]
           IN  Shrunk(Settled(m, i, sub),
                      h, n, HeldBelow[h][n] \ {n.keys[i]})
<1> DEFINE len == Len(n.keys)
           x == n.keys[i]
           l == n.kids[i]
           kid == n.kids[i + 1]
           y == Leftmost[h - 1][kid]
           sub == RemoveItem[h - 1][kid][y]
           m == [keys |-> [n.keys EXCEPT ![i] = y],
                 kids |-> [n.kids EXCEPT ![i + 1] = sub.node]]
<1>1. /\ Shape(n, h) /\ n \in Nodes[h] /\ len \in Nat /\ h - 1 \in Nat \ {0}
      /\ n.kids \in Seq(Nodes[h - 1]) /\ Len(n.kids) = len + 1
      /\ DOMAIN n.kids = 1 .. len + 1
  BY SoundParts, NodeIs DEF Shape
<1>2. i \in 1 .. len + 1 /\ i + 1 \in 1 .. len + 1 /\ i # i + 1
  BY <1>1
<1>3. Parted(l, x, kid, h - 1)
  BY <1>1, Neighbours
<1>4. /\ kid \in Sound[h - 1] /\ kid \in Nodes[h - 1] /\ kid.keys # <<>>
      /\ l \in Sound[h - 1] /\ l \in Nodes[h - 1] /\ x \in NodeKey
      /\ HeldBelow[h - 1][kid] \subseteq NodeKey /\ HeldBelow[h - 1][l] \subseteq NodeKey
  <2>1. kid \in Sound[h - 1] /\ kid \in Nodes[h - 1]
    BY <1>1, <1>3, SoundInNodes DEF Parted
  <2>2. l \in Sound[h - 1] /\ l \in Nodes[h - 1] /\ x \in NodeKey
    BY <1>1, <1>3, SoundInNodes DEF Parted
  <2>3. Len(kid.keys) >= NodeMin
    BY <1>2, SoundParts
  <2>4. kid.keys # <<>>
    <3>1. Len(kid.keys) > 0
      BY <1>1, <2>1, <2>3, NodeIs, NodeAssumption
    <3> QED BY <1>1, <2>1, <3>1, LengthIsKeys
  <2> QED BY <1>1, <2>1, <2>2, <2>4, HeldIn
<1>5. /\ y \in HeldBelow[h - 1][kid]
      /\ \A z \in HeldBelow[h - 1][kid] : z = y \/ Before(y, z)
  BY <1>1, <1>4, LeftmostAll DEF LeftmostRight
<1>6. y \in NodeKey
  BY <1>4, <1>5
<1>7. Removed(sub, h - 1, kid, y)
  <2> HIDE DEF y, kid
  <2> QED BY <1>1, <1>4, <1>6 DEF RemovesRight
<1>8. m = Exchanged(n, i, l, y, sub.node)
  <2>1. [n.kids EXCEPT ![i + 1] = sub.node] = [n.kids EXCEPT ![i] = l, ![i + 1] = sub.node]
    <3> HIDE DEF sub
    <3>1. [n.kids EXCEPT ![i] = l] = n.kids
      BY <1>1, <1>2
    <3> QED BY <3>1
  <2> QED BY <2>1 DEF Exchanged
<1> HIDE DEF m, sub, y, kid, l, x
<1>9. /\ sub.node \in Sound[h - 1]
      /\ HeldBelow[h - 1][sub.node] = HeldBelow[h - 1][kid] \ {y}
      /\ Shrunk(sub, h - 1, kid, HeldBelow[h - 1][kid] \ {y})
  BY <1>7 DEF Removed, Shrunk
<1>10. /\ \A z \in HeldBelow[h - 1][l] : Before(z, x)
       /\ \A z \in HeldBelow[h - 1][kid] : Before(x, z)
  BY <1>3 DEF Parted
<1>11. Parted(l, y, sub.node, h - 1)
  <2>1. Before(x, y)
    BY <1>5, <1>10
  <2>2. \A z \in HeldBelow[h - 1][l] : Before(z, y)
    BY <1>4, <1>6, <1>10, <2>1, BeforeOrder
  <2>3. \A z \in HeldBelow[h - 1][sub.node] : Before(y, z)
    BY <1>5, <1>9
  <2> QED BY <1>4, <1>6, <1>9, <2>2, <2>3 DEF Parted
<1>12. /\ PartedHeld(l, y, sub.node, h - 1) \subseteq PartedHeld(l, x, kid, h - 1)
       /\ PartedHeld(l, y, sub.node, h - 1) = PartedHeld(l, x, kid, h - 1) \ {x}
  <2>1. x \notin HeldBelow[h - 1][l] /\ x \notin HeldBelow[h - 1][kid]
    BY <1>4, <1>10, BeforeOrder
  <2> QED BY <1>5, <1>9, <2>1 DEF PartedHeld
<1>13. /\ Shape(m, h) /\ Len(m.keys) = len
       /\ HeldBelow[h][m] = (HeldBelow[h][n] \ PartedHeld(l, x, kid, h - 1))
                            \cup PartedHeld(l, y, sub.node, h - 1)
       /\ \A j \in 1 .. len + 1 :
             m.kids[j] = IF j = i THEN l ELSE IF j = i + 1 THEN sub.node ELSE n.kids[j]
  <2> DEFINE p == Exchanged(n, i, l, y, sub.node)
  <2>1. PartedHeld(l, y, sub.node, h - 1)
          \subseteq PartedHeld(n.kids[i], n.keys[i], n.kids[i + 1], h - 1)
    BY <1>12 DEF l, x, kid
  <2>2. /\ Shape(p, h) /\ Len(p.keys) = len
        /\ HeldBelow[h][p]
             = (HeldBelow[h][n] \ PartedHeld(n.kids[i], n.keys[i], n.kids[i + 1], h - 1))
               \cup PartedHeld(l, y, sub.node, h - 1)
        /\ \A j \in 1 .. len + 1 :
              p.kids[j] = IF j = i THEN l ELSE IF j = i + 1 THEN sub.node ELSE n.kids[j]
    BY <1>1, <1>11, <2>1, Exchange
  <2> HIDE DEF p
  <2>3. m = p
    BY <1>8 DEF p
  <2>4. n.kids[i] = l /\ n.keys[i] = x /\ n.kids[i + 1] = kid
    BY DEF l, x, kid
  <2> QED BY <2>2, <2>3, <2>4
<1>14. HeldBelow[h][m] = HeldBelow[h][n] \ {x}
  <2>1. PartedHeld(l, x, kid, h - 1) \subseteq HeldBelow[h][n]
    <3>1. /\ HeldBelow[h - 1][n.kids[i]] \subseteq HeldBelow[h][n]
          /\ HeldBelow[h - 1][n.kids[i + 1]] \subseteq HeldBelow[h][n]
          /\ n.keys[i] \in HeldBelow[h][n]
      BY <1>1, <1>2, HeldIn
    <3> QED BY <3>1 DEF PartedHeld, l, x, kid
  <2>2. x \in PartedHeld(l, x, kid, h - 1)
    BY DEF PartedHeld
  <2> QED BY <1>12, <1>13, <2>1, <2>2
<1>15. Shrunk(Settled(m, i, sub),
              h, n, HeldBelow[h][m])
  <2>1. \A j \in (1 .. len + 1) \ {i + 1} : m.kids[j] = n.kids[j]
    BY <1>13 DEF l
  <2>2. m.kids[i + 1] = sub.node
    BY <1>2, <1>13
  <2>3. i \in 0 .. len
    BY <1>1
  <2> DEFINE rest == HeldBelow[h - 1][kid] \ {y}
  <2>4. Shrunk(sub, h - 1, n.kids[i + 1], rest)
    BY <1>9 DEF kid
  <2> HIDE DEF rest
  <2>5. h = 1 => ~sub.under
    OBVIOUS
  <2> QED BY <1>13, <2>1, <2>2, <2>3, <2>4, <2>5, Settles
<1>16. Shrunk(Settled(m, i, sub),
              h, n, HeldBelow[h][n] \ {x})
  BY <1>14, <1>15
<1> QED BY <1>16 DEF m, sub, y, kid, x

\* _remove_item_recursive keeps a node sound, if it does the nodes below.
LEMMA RemoveStep ==
    ASSUME NEW h \in Nat \ {0}, RemovesRight(h - 1)
    PROVE  RemovesRight(h)
<1> SUFFICES ASSUME NEW n \in Sound[h], NEW x \in NodeKey, n.keys # <<>>
             PROVE  Removed(RemoveItem[h][n][x], h, n, x)
  BY DEF RemovesRight
<1> DEFINE r == RemoveItem[h][n][x]
           pos == Pos(n, x)
           len == Len(n.keys)
<1>1. /\ Shape(n, h) /\ n \in Nodes[h] /\ len \in Nat
      /\ \A j \in 1 .. len + 1 : n.kids[j] \in Sound[h - 1]
  BY SoundParts, NodeIs DEF Shape
<1>2. pos \in 0 .. len
  BY <1>1, PosIs
<1>3. r = RemoveFrom(RemoveItem[h - 1], h, n, x)
  <2>1. RemoveItem[h] = RemoveAbove(RemoveItem[h - 1], h)
    BY RemoveIs
  <2> QED BY <1>1, <2>1 DEF RemoveAbove
<1> HIDE DEF r
<1>4. CASE HasAt(n, pos, x) /\ h = 1
  <2>1. pos + 1 \in 1 .. len /\ n.keys[pos + 1] = x /\ (pos + 1) + 1 \in 1 .. len + 1
    BY <1>1, <1>2, <1>4 DEF HasAt
  <2>2. IsNoNode(n.kids[(pos + 1) + 1])
    BY <1>1, <1>4, <2>1, IsLeaf
  <2> DEFINE t == RemoveTrgt(n, pos)
  <2>3. r = [node |-> t.node, under |-> t.under, deleted |-> TRUE]
    BY <1>3, <1>4, <2>2 DEF RemoveFrom
  <2>4. Shrunk(t, h, n, HeldBelow[h][n] \ {x})
    <3>1. (pos + 1) - 1 = pos
      BY <1>2
    <3>2. Shrunk(RemoveTrgt(n, (pos + 1) - 1), h, n, HeldBelow[h][n] \ {n.keys[pos + 1]})
      <4>1. PICK i \in 1 .. len : i = pos + 1
        BY <2>1
      <4>2. Shrunk(RemoveTrgt(n, i - 1), h, n, HeldBelow[h][n] \ {n.keys[i]})
        BY <1>4, LeafRemoves
      <4> QED BY <4>1, <4>2
    <3> QED BY <2>1, <3>1, <3>2
  <2> HIDE DEF t
  <2>5. r.node = t.node /\ r.under = t.under /\ r.deleted = TRUE
    BY <2>3
  <2> QED BY <2>4, <2>5 DEF Removed, Shrunk, r
<1>5. CASE HasAt(n, pos, x) /\ h # 1
  <2>1. pos + 1 \in 1 .. len /\ n.keys[pos + 1] = x /\ (pos + 1) + 1 \in 1 .. len + 1
    BY <1>1, <1>2, <1>5 DEF HasAt
  <2>2. ~IsNoNode(n.kids[(pos + 1) + 1])
    BY <1>1, <1>5, <2>1, IsLeaf
  <2> DEFINE i == pos + 1
             kid == n.kids[i + 1]
             y == Leftmost[h - 1][kid]
             sub == RemoveItem[h - 1][kid][y]
             m == [keys |-> [n.keys EXCEPT ![i] = y],
                   kids |-> [n.kids EXCEPT ![i + 1] = sub.node]]
             after == Settled(m, i, sub)
  <2>3. r = [node |-> after.node, under |-> after.under, deleted |-> TRUE]
    BY <1>3, <1>5, <2>2 DEF RemoveFrom, Settled
  <2>4. Shrunk(after, h, n, HeldBelow[h][n] \ {x})
    <3>1. h > 1
      BY <1>5
    <3>2. PICK c \in 1 .. len : c = i
      BY <2>1
    <3>3. LET kid1 == n.kids[c + 1]
              y1 == Leftmost[h - 1][kid1]
              sub1 == RemoveItem[h - 1][kid1][y1]
              m1 == [keys |-> [n.keys EXCEPT ![c] = y1],
                     kids |-> [n.kids EXCEPT ![c + 1] = sub1.node]]
          IN  Shrunk(Settled(m1, c, sub1),
                     h, n, HeldBelow[h][n] \ {n.keys[c]})
      BY <3>1, Succeeded
    <3>4. Shrunk(after, h, n, HeldBelow[h][n] \ {n.keys[i]})
      BY <3>2, <3>3
    <3> QED BY <2>1, <3>4
  <2> HIDE DEF after
  <2>5. r.node = after.node /\ r.under = after.under /\ r.deleted = TRUE
    BY <2>3
  <2> QED BY <2>4, <2>5 DEF Removed, Shrunk, r
<1>6. CASE ~HasAt(n, pos, x)
  <2> DEFINE kid == n.kids[pos + 1]
             sub == RemoveItem[h - 1][kid][x]
             m == WithKid(n, pos, sub.node)
             after == Settled(m, pos, sub)
  <2>1. r = [node |-> after.node, under |-> after.under, deleted |-> FALSE \/ sub.deleted]
    BY <1>3, <1>6 DEF RemoveFrom, WithKid, Settled
  <2>2. Removed(sub, h - 1, kid, x)
    <3>1. pos + 1 \in 1 .. len + 1
      BY <1>1, <1>2
    <3>2. kid \in Sound[h - 1]
      BY <1>1, <3>1
    <3>3. ASSUME h - 1 > 0 PROVE kid.keys # <<>>
      <4>4. h > 1 /\ h - 1 \in Nat \ {0}
        BY <3>3
      <4>5. \A j \in 1 .. len + 1 : Len(n.kids[j].keys) >= NodeMin
        BY <4>4, SoundParts
      <4>1. Len(kid.keys) >= NodeMin /\ h - 1 \in Nat \ {0}
        BY <3>1, <4>4, <4>5
      <4>2. kid \in Nodes[h - 1]
        BY <3>2, <4>1, SoundInNodes
      <4>3. Len(kid.keys) > 0
        BY <4>1, <4>2, NodeIs, NodeAssumption
      <4> QED BY <4>1, <4>2, <4>3, LengthIsKeys
    <3> HIDE DEF kid
    <3> QED BY <3>2, <3>3 DEF RemovesRight
  <2> HIDE DEF sub
  <2>3. /\ Shrunk(after, h, n, HeldBelow[h][n] \ {x})
        /\ ~sub.deleted => ~sub.under /\ m = n
    <3> HIDE DEF kid
    <3>1. Removed(sub, h - 1, n.kids[pos + 1], x)
      BY <2>2 DEF kid
    <3>3. /\ Shrunk(Settled(WithKid(n, pos, sub.node), pos, sub),
                    h, n, HeldBelow[h][n] \ {x})
          /\ ~sub.deleted => ~sub.under /\ WithKid(n, pos, sub.node) = n
      BY <1>6, <3>1, PassedOn, ZenonT(40)
    <3> QED BY <3>3
  <2>4. sub.deleted \in BOOLEAN
    BY <2>2 DEF Removed
  <2>5. ~sub.deleted => after.node = n
    BY <2>3 DEF Settled
  <2> HIDE DEF after, m, kid
  <2>6. r.node = after.node /\ r.under = after.under /\ r.deleted = sub.deleted
    BY <2>1, <2>4
  <2> QED BY <2>3, <2>4, <2>5, <2>6 DEF Removed, Shrunk, r
<1> QED BY <1>4, <1>5, <1>6

\* _remove_item_recursive is right for nodes of any height.
LEMMA RemovesAll == \A h \in Nat : RemovesRight(h)
<1>1. RemovesRight(0)
  <2> SUFFICES ASSUME NEW n \in Sound[0], NEW x \in NodeKey
               PROVE  Removed(RemoveItem[0][n][x], 0, n, x)
    BY DEF RemovesRight
  <2>1. n = NoNode
    BY Nowhere
  <2>2. RemoveItem[0][n][x] = [node |-> NoNode, under |-> FALSE, deleted |-> FALSE]
    BY <2>1, RemoveIs DEF RemoveNowhere
  <2>3. HeldBelow[0][n] \ {x} = HeldBelow[0][n]
    BY <2>1, Nowhere
  <2> QED BY <2>1, <2>2, <2>3 DEF Removed, Shrunk
<1>2. \A h \in Nat : RemovesRight(h) => RemovesRight(h + 1)
  <2> TAKE h \in Nat
  <2>1. h + 1 \in Nat \ {0} /\ (h + 1) - 1 = h
    OBVIOUS
  <2> QED BY <2>1, RemoveStep
<1> QED BY RemoveLevel!Induction, <1>1, <1>2

\* remove_tree_safe removes the item, nothing else, and leaves the tree sound.
LEMMA RemoveTreeRight ==
    ASSUME NEW t, SoundTree(t), NEW x \in NodeKey
    PROVE  SoundTree(RemoveTree(t, x)) /\ Within(RemoveTree(t, x)) = Within(t) \ {x}
<1> DEFINE h == t.height
           r == RemoveItem[h][t.top][x]
           u == RemoveTree(t, x)
<1>1. /\ h \in Nat /\ t.top \in Sound[h] /\ t = [height |-> h, top |-> t.top]
      /\ h > 0 => t.top.keys # <<>>
  BY DEF SoundTree
<1>2. Removed(r, h, t.top, x)
  <2> HIDE DEF h
  <2> QED BY <1>1, RemovesAll DEF RemovesRight
<1>3. u = IF r.deleted /\ r.node.keys = <<>> THEN [height |-> h - 1, top |-> r.node.kids[1]]
          ELSE [t EXCEPT !.top = r.node]
  BY DEF RemoveTree
<1> HIDE DEF r, u
<1>4. /\ r.node \in Sound[h] /\ HeldBelow[h][r.node] = HeldBelow[h][t.top] \ {x}
      /\ ~r.deleted => r.node = t.top
  BY <1>2 DEF Removed, Shrunk
<1>5. CASE r.deleted /\ r.node.keys = <<>>
  <2>1. h # 0
    <3>1. ASSUME h = 0 PROVE FALSE
      <4>1. t.top = NoNode
        BY <1>1, <3>1, Nowhere
      <4>2. RemoveItem[0][NoNode][x] = [node |-> NoNode, under |-> FALSE, deleted |-> FALSE]
        BY RemoveIs DEF RemoveNowhere
      <4>3. r.deleted = FALSE
        BY <3>1, <4>1, <4>2 DEF r
      <4> QED BY <1>5, <4>3
    <3> QED BY <3>1
  <2>2. h \in Nat \ {0} /\ h - 1 \in Nat /\ r.node \in Nodes[h]
    BY <1>1, <1>4, <2>1, SoundInNodes
  <2> DEFINE kid == r.node.kids[1]
  <2>3. Len(r.node.keys) = 0
    BY <1>5, <2>2, LengthIsKeys, NodeIs
  <2>4. kid \in Sound[h - 1]
    BY <1>4, <2>2, <2>3, SoundParts, NodeIs DEF Shape
  <2>5. HeldBelow[h][r.node] = HeldBelow[h - 1][kid]
    <3>1. 1 \in 1 .. 0 + 1 /\ \A i \in 1 .. 0 + 1 : i = 1
      OBVIOUS
    <3>2. ~(\E i \in 1 .. 0 : TRUE)
      OBVIOUS
    <3>3. \A y \in HeldBelow[h][r.node] : y \in HeldBelow[h - 1][kid]
      <4>1. \A y \in HeldBelow[h][r.node] :
               \/ \E i \in 1 .. 0 : y = r.node.keys[i]
               \/ \E i \in 1 .. 0 + 1 : y \in HeldBelow[h - 1][r.node.kids[i]]
        BY <2>2, <2>3, HeldIn
      <4> QED BY <3>1, <3>2, <4>1
    <3>4. HeldBelow[h - 1][kid] \subseteq HeldBelow[h][r.node]
      BY <2>2, <2>3, <3>1, HeldIn
    <3> QED BY <3>3, <3>4
  <2>6. ASSUME h - 1 > 0 PROVE kid.keys # <<>>
    <3>1. h > 1 /\ 1 \in 1 .. 0 + 1 /\ h - 1 \in Nat \ {0}
      BY <2>2, <2>6
    <3>2. Len(kid.keys) >= NodeMin
      BY <1>4, <2>2, <2>3, <3>1, SoundParts
    <3>3. kid \in Nodes[h - 1]
      BY <2>2, <2>4, SoundInNodes
    <3>4. Len(kid.keys) > 0
      BY <3>1, <3>2, <3>3, NodeIs, NodeAssumption
    <3> QED BY <3>1, <3>3, <3>4, LengthIsKeys
  <2>7. u = [height |-> h - 1, top |-> kid]
    BY <1>3, <1>5
  <2>8. u.height = h - 1 /\ u.top = kid
    BY <2>7
  <2> HIDE DEF kid, u
  <2> QED BY <1>4, <2>2, <2>4, <2>5, <2>6, <2>7, <2>8 DEF SoundTree, Within, u
<1>6. CASE ~(r.deleted /\ r.node.keys = <<>>)
  <2>1. u = [height |-> h, top |-> r.node]
    BY <1>1, <1>3, <1>6
  <2>2. u.height = h /\ u.top = r.node
    BY <2>1
  <2>3. h > 0 => r.node.keys # <<>>
    BY <1>1, <1>4, <1>6
  <2> QED BY <1>1, <1>4, <2>1, <2>2, <2>3 DEF SoundTree, Within, u
<1> QED BY <1>5, <1>6

-----------------------------------------------------------------------------
(* The tree over its life *)

\* The tree at the start.
LEMMA EmptyTreeRight == SoundTree(EmptyTree) /\ Within(EmptyTree) = {}
BY Nowhere DEF SoundTree, Within, EmptyTree

\* No operation leaves an unsound tree.
LEMMA RootStep ==
    ASSUME SoundTree(root), [Next]_root
    PROVE  SoundTree(root)'
<1>1. ASSUME NEW x \in Items, Add(x)
      PROVE  SoundTree(root)'
  <2>1. x \in NodeKey
    BY ItemsAssumption
  <2>2. SoundTree(AddTree(root, x))
    BY <2>1, AddTreeRight
  <2> QED BY <1>1, <2>2 DEF Add
<1>2. ASSUME NEW x \in Items, Drop(x)
      PROVE  SoundTree(root)'
  <2>1. x \in NodeKey
    BY ItemsAssumption
  <2>2. SoundTree(RemoveTree(root, x))
    BY <2>1, RemoveTreeRight
  <2> QED BY <1>2, <2>2 DEF Drop
<1>3. CASE UNCHANGED root
  BY <1>3
<1> QED BY <1>1, <1>2, <1>3 DEF Next

(* The index is a sound tree at any time: its keys ascend and part what is  *)
(* below, all leaves are at one depth, and no node is too full or, below    *)
(* the root, too empty (smmr_tree.c:344-388, 781-936).  This is the         *)
(* inductive invariant.                                                     *)
THEOREM RootIsSound == Spec => []SoundTree(root)
<1>1. Init => SoundTree(root)
  BY EmptyTreeRight DEF Init
<1>2. SoundTree(root) /\ [Next]_root => SoundTree(root)'
  BY RootStep
<1> QED BY <1>1, <1>2, PTL DEF Spec

(* Splitting, borrowing and combining nodes keep the search tree balanced   *)
(* and without duplicates, for any sizes of nodes and any history           *)
(* (smmr_tree.c:344-388, 781-936).                                          *)
THEOREM TreeStaysSound == Spec => []TreeSound
<1>1. SoundTree(root) => TreeSound
  BY DEF SoundTree, TreeSound
<1> QED BY <1>1, RootIsSound, PTL

(* add_tree_safe and remove_tree_safe do to the set of items in the tree    *)
(* what an insertion and a removal do to a set: none other gets lost or     *)
(* appears (smmr_tree.c:222-388, 627-936).                                  *)
THEOREM TreeImplementsIndex == Spec => ImplementsIndex
<1>1. Init => Index!IndexInit
  BY EmptyTreeRight DEF Init, Index!IndexInit, Contents, Within
<1>2. ASSUME SoundTree(root), [Next]_root
      PROVE  [Index!IndexNext]_Contents
  <2>1. ASSUME NEW x \in Items, Add(x)
        PROVE  Index!IndexNext
    <3>1. x \in NodeKey
      BY ItemsAssumption
    <3>2. Within(AddTree(root, x)) = Within(root) \cup {x}
      BY <1>2, <3>1, AddTreeRight
    <3>3. Contents' = Contents \cup {x}
      BY <2>1, <3>2 DEF Add, Contents, Within
    <3> QED BY <3>3 DEF Index!IndexNext, Index!Insertion
  <2>2. ASSUME NEW x \in Items, Drop(x)
        PROVE  Index!IndexNext
    <3>1. x \in NodeKey
      BY ItemsAssumption
    <3>2. Within(RemoveTree(root, x)) = Within(root) \ {x}
      BY <1>2, <3>1, RemoveTreeRight
    <3>3. Contents' = Contents \ {x}
      BY <2>2, <3>2 DEF Drop, Contents, Within
    <3> QED BY <3>3 DEF Index!IndexNext, Index!Removal
  <2>3. CASE UNCHANGED root
    BY <2>3 DEF Contents
  <2> QED BY <1>2, <2>1, <2>2, <2>3 DEF Next
<1> QED BY <1>1, <1>2, RootIsSound, PTL DEF Spec, ImplementsIndex, Index!IndexSpec

-----------------------------------------------------------------------------
(* Search *)

\* The search for an item below a node of height h is right.
FindsRight(h) ==
    \A n \in Sound[h], x \in NodeKey : Finds[h][n][x] <=> x \in HeldBelow[h][n]

FindsNowhere == [n \in {NoNode} |-> [x \in NodeKey |-> FALSE]]

FindsLevel == INSTANCE Recursion WITH
    Base <- FindsNowhere, Step <- FindsAbove, P <- FindsRight

\* The search for one item, unfolded by one level.
LEMMA FindsIs ==
    /\ Finds[0] = FindsNowhere
    /\ \A h \in Nat \ {0} : Finds[h] = FindsAbove(Finds[h - 1], h)
<1>1. \E f : f = [h \in Nat |-> IF h = 0 THEN FindsNowhere ELSE FindsAbove(f[h - 1], h)]
  BY FindsLevel!Defined
<1>2. Finds = [h \in Nat |-> IF h = 0 THEN FindsNowhere ELSE FindsAbove(Finds[h - 1], h)]
  BY <1>1 DEF Finds, FindsNowhere
<1> QED BY <1>2

\* _search_item_recurcive finds what is below a node, if it does further down.
LEMMA FindsStep ==
    ASSUME NEW h \in Nat \ {0}, FindsRight(h - 1)
    PROVE  FindsRight(h)
<1> SUFFICES ASSUME NEW n \in Sound[h], NEW x \in NodeKey
             PROVE  Finds[h][n][x] <=> x \in HeldBelow[h][n]
  BY DEF FindsRight
<1> DEFINE len == Len(n.keys)
           pos == Pos(n, x)
           kid == n.kids[pos + 1]
<1>1. /\ Shape(n, h) /\ n \in Nodes[h] /\ len \in Nat
      /\ \A j \in 1 .. len + 1 : n.kids[j] \in Sound[h - 1]
  BY SoundParts, NodeIs DEF Shape
<1>2. pos \in 0 .. len /\ pos + 1 \in 1 .. len + 1
  <2>1. pos \in 0 .. len
    BY <1>1, PosIs
  <2> HIDE DEF pos, len
  <2> QED BY <1>1, <2>1
<1>3. Finds[h][n][x] <=> HasAt(n, pos, x) \/ Finds[h - 1][kid][x]
  <2>1. Finds[h] = FindsAbove(Finds[h - 1], h)
    BY FindsIs
  <2>2. Finds[h][n][x] = (HasAt(n, pos, x) \/ Finds[h - 1][kid][x])
    BY <1>1, <2>1 DEF FindsAbove
  <2> HIDE DEF pos, kid
  <2> QED BY <2>2, Zenon
<1>4. Finds[h - 1][kid][x] <=> x \in HeldBelow[h - 1][kid]
  <2>1. kid \in Sound[h - 1]
    BY <1>1, <1>2
  <2> HIDE DEF kid
  <2> QED BY <2>1 DEF FindsRight
<1>5. CASE HasAt(n, pos, x)
  <2>1. pos + 1 \in 1 .. len /\ n.keys[pos + 1] = x
    BY <1>1, <1>2, <1>5 DEF HasAt
  <2>2. x \in HeldBelow[h][n]
    BY <1>1, <2>1, HeldIn
  <2> QED BY <1>3, <1>5, <2>2
<1>6. CASE ~HasAt(n, pos, x)
  <2>1. InGap(n, pos + 1, x)
    BY <1>1, <1>6, PosIsGap
  <2>2. x \notin Others(n, h, pos + 1)
    BY <1>1, <1>2, <2>1, GapHoldsNoOther
  <2>3. HeldBelow[h][n] = Others(n, h, pos + 1) \cup HeldBelow[h - 1][kid]
    BY <1>1, <1>2, OthersHeld
  <2> HIDE DEF pos, kid
  <2> QED BY <1>3, <1>4, <1>6, <2>2, <2>3
<1> QED BY <1>5, <1>6

\* _search_item_recurcive finds what is there, at any height.
LEMMA FindsAll == \A h \in Nat : FindsRight(h)
<1>1. FindsRight(0)
  <2>1. ASSUME NEW n \in Sound[0], NEW x \in NodeKey
        PROVE  Finds[0][n][x] <=> x \in HeldBelow[0][n]
    <3>1. n = NoNode /\ HeldBelow[0][n] = {}
      BY Nowhere
    <3>2. Finds[0][n][x] = FALSE
      BY <3>1, FindsIs DEF FindsNowhere
    <3>3. ~Finds[0][n][x]
      BY <3>2, Zenon
    <3> QED BY <3>1, <3>3
  <2> QED BY <2>1 DEF FindsRight
<1>2. \A h \in Nat : FindsRight(h) => FindsRight(h + 1)
  <2> TAKE h \in Nat
  <2>1. h + 1 \in Nat \ {0} /\ (h + 1) - 1 = h
    OBVIOUS
  <2> QED BY <2>1, FindsStep
<1> QED BY FindsLevel!Induction, <1>1, <1>2

-----------------------------------------------------------------------------
(* Sequences of hits *)

\* What FlattenSeq has put together after each of the sequences.
Flat(ss, f) ==
    f = [i \in 1 .. Len(ss) |-> IF i = 1 THEN ss[i] ELSE f[i - 1] \o ss[i]]

FlatNothing == [ss \in Seq(Seq(NodeKey)) |-> <<>>]
FlatNext(below, i) ==
    [ss \in Seq(Seq(NodeKey)) |-> IF i = 1 THEN ss[i] ELSE below[ss] \o ss[i]]

FlatLevel == INSTANCE Recursion WITH
    Base <- FlatNothing, Step <- FlatNext, P <- LAMBDA n : TRUE

\* Sequences can be put together one after the other.
LEMMA FlatExists == \A ss \in Seq(Seq(NodeKey)) : \E f : Flat(ss, f)
<1> SUFFICES ASSUME NEW ss \in Seq(Seq(NodeKey)) PROVE \E f : Flat(ss, f)
  OBVIOUS
<1>1. PICK g : g = [n \in Nat |-> IF n = 0 THEN FlatNothing ELSE FlatNext(g[n - 1], n)]
  BY FlatLevel!Defined
<1>2. \A n \in Nat \ {0} : g[n][ss] = IF n = 1 THEN ss[n] ELSE g[n - 1][ss] \o ss[n]
  <2> TAKE n \in Nat \ {0}
  <2>1. g[n] = FlatNext(g[n - 1], n)
    BY <1>1
  <2> QED BY <2>1 DEF FlatNext
<1> DEFINE f == [i \in 1 .. Len(ss) |-> g[i][ss]]
<1>3. ASSUME NEW i \in 1 .. Len(ss)
      PROVE  f[i] = IF i = 1 THEN ss[i] ELSE f[i - 1] \o ss[i]
  <2>1. Len(ss) \in Nat /\ i \in Nat \ {0}
    OBVIOUS
  <2>2. i # 1 => i - 1 \in 1 .. Len(ss)
    BY <2>1
  <2>3. i # 1 => f[i - 1] = g[i - 1][ss]
    BY <2>2
  <2> QED BY <1>2, <2>1, <2>3
<1>4. Flat(ss, f)
  <2>1. f = [i \in 1 .. Len(ss) |-> f[i]]
    OBVIOUS
  <2> HIDE DEF f
  <2> QED BY <1>3, <2>1 DEF Flat
<1> QED BY <1>4

\* FlattenSeq puts the sequences together one after the other.
LEMMA FlattenIs ==
    ASSUME NEW ss \in Seq(Seq(NodeKey)), Len(ss) > 0
    PROVE  \E f : Flat(ss, f) /\ FlattenSeq(ss) = f[Len(ss)]
<1> DEFINE f == CHOOSE g : Flat(ss, g)
<1>1. Flat(ss, f)
  BY FlatExists
<1>2. FlattenSeq(ss) = f[Len(ss)]
  BY DEF FlattenSeq, Flat
<1> QED BY <1>1, <1>2

\* s has each element of M once.
Lists(s, M) == s \in Seq(M) /\ IsInjective(s) /\ ToSet(s) = M

\* The members of a sequence.
LEMMA ToSetIs ==
    ASSUME NEW S, NEW s \in Seq(S)
    PROVE  ToSet(s) = {s[i] : i \in 1 .. Len(s)} /\ ToSet(s) \subseteq S
BY DEF ToSet

\* Hits of two scans one after the other.
LEMMA ConcatHits ==
    ASSUME NEW M, NEW s \in Seq(M), NEW t \in Seq(M)
    PROVE  s \o t \in Seq(M) /\ ToSet(s \o t) = ToSet(s) \cup ToSet(t)
<1> DEFINE u == s \o t  ls == Len(s)  lt == Len(t)
<1>1. /\ u \in Seq(M) /\ Len(u) = ls + lt
      /\ \A i \in 1 .. ls + lt : u[i] = IF i <= ls THEN s[i] ELSE t[i - ls]
  BY ConcatProperties
<1>2. ls \in Nat /\ lt \in Nat
  OBVIOUS
<1> HIDE DEF u
<1>3. /\ ToSet(s) = {s[i] : i \in 1 .. ls} /\ ToSet(t) = {t[i] : i \in 1 .. lt}
      /\ ToSet(u) = {u[i] : i \in 1 .. ls + lt}
  BY <1>1, ToSetIs
<1> HIDE DEF ls, lt
<1>4. ASSUME NEW y \in ToSet(u) PROVE y \in ToSet(s) \cup ToSet(t)
  <2>1. PICK i \in 1 .. ls + lt : y = u[i]
    BY <1>3
  <2>2. CASE i <= ls
    <3>1. i \in 1 .. ls /\ y = s[i]
      BY <1>1, <1>2, <2>1, <2>2
    <3> QED BY <1>3, <3>1
  <2>3. CASE ~(i <= ls)
    <3>1. i - ls \in 1 .. lt /\ y = t[i - ls]
      BY <1>1, <1>2, <2>1, <2>3
    <3> QED BY <1>3, <3>1
  <2> QED BY <2>2, <2>3
<1>5. ASSUME NEW y \in ToSet(s) PROVE y \in ToSet(u)
  <2>1. PICK i \in 1 .. ls : y = s[i]
    BY <1>3
  <2>2. i \in 1 .. ls + lt /\ y = u[i]
    BY <1>1, <1>2, <2>1
  <2> QED BY <1>3, <2>2
<1>6. ASSUME NEW y \in ToSet(t) PROVE y \in ToSet(u)
  <2>1. PICK i \in 1 .. lt : y = t[i]
    BY <1>3
  <2>2. ls + i \in 1 .. ls + lt /\ ~(ls + i <= ls) /\ (ls + i) - ls = i
    BY <1>2
  <2>3. y = u[ls + i]
    BY <1>1, <2>1, <2>2
  <2> QED BY <1>3, <2>2, <2>3
<1> QED BY <1>1, <1>4, <1>5, <1>6 DEF u

\* Hits without repetition, one after the other.
LEMMA ConcatLists ==
    ASSUME NEW A, NEW B, A \cap B = {}, NEW s, NEW t, Lists(s, A), Lists(t, B)
    PROVE  Lists(s \o t, A \cup B)
<1> DEFINE u == s \o t  ls == Len(s)  lt == Len(t)
<1>1. s \in Seq(A) /\ t \in Seq(B)
  BY DEF Lists
<1>2. s \in Seq(A \cup B) /\ t \in Seq(A \cup B)
  BY <1>1
<1>3. u \in Seq(A \cup B) /\ ToSet(u) = ToSet(s) \cup ToSet(t)
  BY <1>2, ConcatHits
<1>4. /\ Len(u) = ls + lt
      /\ \A i \in 1 .. ls + lt : u[i] = IF i <= ls THEN s[i] ELSE t[i - ls]
  BY <1>2, ConcatProperties
<1>5. ls \in Nat /\ lt \in Nat
  BY <1>1
<1>6. /\ \A i \in 1 .. ls : s[i] \in A
      /\ \A i \in 1 .. lt : t[i] \in B
  BY <1>1
<1>7. /\ \A i, j \in 1 .. ls : s[i] = s[j] => i = j
      /\ \A i, j \in 1 .. lt : t[i] = t[j] => i = j
  BY <1>1 DEF Lists, IsInjective
<1>8. DOMAIN u = 1 .. ls + lt
  BY <1>3, <1>4
<1> HIDE DEF u, ls, lt
<1>9. ASSUME NEW i \in 1 .. ls + lt, NEW j \in 1 .. ls + lt, u[i] = u[j]
      PROVE  i = j
  <2>1. /\ i <= ls => i \in 1 .. ls /\ u[i] = s[i]
        /\ ~(i <= ls) => i - ls \in 1 .. lt /\ u[i] = t[i - ls]
    BY <1>4, <1>5
  <2>2. /\ j <= ls => j \in 1 .. ls /\ u[j] = s[j]
        /\ ~(j <= ls) => j - ls \in 1 .. lt /\ u[j] = t[j - ls]
    BY <1>4, <1>5
  <2>3. CASE i <= ls /\ j <= ls
    BY <1>7, <1>9, <2>1, <2>2, <2>3
  <2>4. CASE ~(i <= ls) /\ ~(j <= ls)
    <3>1. i - ls = j - ls
      BY <1>7, <1>9, <2>1, <2>2, <2>4
    <3> QED BY <1>5, <3>1
  <2>5. CASE (i <= ls) # (j <= ls)
    BY <1>6, <1>9, <2>1, <2>2, <2>5
  <2> QED BY <2>3, <2>4, <2>5
<1>10. IsInjective(u)
  BY <1>8, <1>9 DEF IsInjective
<1>11. ToSet(u) = A \cup B
  BY <1>3 DEF Lists
<1> QED BY <1>3, <1>10, <1>11 DEF Lists, u

\* The hits of several scans.
LEMMA FlattenHits ==
    ASSUME NEW ss \in Seq(Seq(NodeKey)), Len(ss) > 0, NEW M \in SUBSET NodeKey,
           \A i \in 1 .. Len(ss) : ss[i] \in Seq(M)
    PROVE  /\ FlattenSeq(ss) \in Seq(M)
           /\ \A i \in 1 .. Len(ss) : ToSet(ss[i]) \subseteq ToSet(FlattenSeq(ss))
<1> DEFINE len == Len(ss)
<1>1. PICK f : Flat(ss, f) /\ FlattenSeq(ss) = f[len]
  BY FlattenIs
<1>2. len \in Nat \ {0}
  OBVIOUS
<1>3. \A i \in 1 .. len : f[i] = IF i = 1 THEN ss[i] ELSE f[i - 1] \o ss[i]
  BY <1>1 DEF Flat
<1> HIDE DEF len
<1> DEFINE OK(i) == f[i] \in Seq(M) /\ \A j \in 1 .. i : ToSet(ss[j]) \subseteq ToSet(f[i])
           S == {i \in 1 .. len : ~OK(i)}
<1>4. ASSUME NEW i \in 1 .. len, i = 1 \/ OK(i - 1) PROVE OK(i)
  <2>1. CASE i = 1
    <3>1. f[i] = ss[i] /\ ss[i] \in Seq(M) /\ \A j \in 1 .. i : j = i
      BY <1>3, <2>1 DEF len
    <3> QED BY <3>1
  <2>2. CASE i # 1
    <3>1. f[i] = f[i - 1] \o ss[i] /\ ss[i] \in Seq(M) /\ f[i - 1] \in Seq(M)
      BY <1>3, <1>4, <2>2 DEF len
    <3>2. f[i] \in Seq(M) /\ ToSet(f[i]) = ToSet(f[i - 1]) \cup ToSet(ss[i])
      BY <3>1, ConcatHits
    <3>3. \A j \in 1 .. i - 1 : ToSet(ss[j]) \subseteq ToSet(f[i - 1])
      BY <1>4, <2>2
    <3>4. \A j \in 1 .. i : j = i \/ j \in 1 .. i - 1
      BY <1>2
    <3> QED BY <3>2, <3>3, <3>4
  <2> QED BY <2>1, <2>2
<1> HIDE DEF OK
<1>5. S = {}
  <2>1. SUFFICES ASSUME S # {} PROVE FALSE
    OBVIOUS
  <2>2. S \in SUBSET Nat
    BY <1>2
  <2> HIDE DEF S
  <2>3. PICK i \in S : \A j \in S : i <= j
    BY <2>1, <2>2, FlatLevel!Least
  <2> USE DEF S
  <2>4. i \in 1 .. len /\ ~OK(i)
    BY <2>3
  <2>5. i # 1 => i - 1 \in 1 .. len /\ i - 1 \notin S
    BY <1>2, <2>3, <2>4
  <2> QED BY <1>4, <2>4, <2>5
<1>6. len \in 1 .. len
  BY <1>2
<1>7. OK(len)
  BY <1>5, <1>6
<1> QED BY <1>1, <1>7 DEF OK, len

\* The hits of several scans without repetition.
LEMMA FlattenLists ==
    ASSUME NEW ss \in Seq(Seq(NodeKey)), Len(ss) > 0, NEW W,
           \A i \in 1 .. Len(ss) : Lists(ss[i], W[i]),
           \A i, j \in 1 .. Len(ss) : i # j => W[i] \cap W[j] = {}
    PROVE  Lists(FlattenSeq(ss), UNION {W[i] : i \in 1 .. Len(ss)})
<1> DEFINE len == Len(ss)
           Upto(i) == UNION {W[j] : j \in 1 .. i}
<1>1. PICK f : Flat(ss, f) /\ FlattenSeq(ss) = f[len]
  BY FlattenIs
<1>2. len \in Nat \ {0}
  OBVIOUS
<1>3. \A i \in 1 .. len : f[i] = IF i = 1 THEN ss[i] ELSE f[i - 1] \o ss[i]
  BY <1>1 DEF Flat
<1>4. /\ \A i \in 1 .. len : Lists(ss[i], W[i])
      /\ \A i, j \in 1 .. len : i # j => W[i] \cap W[j] = {}
  OBVIOUS
<1> HIDE DEF len
<1> DEFINE OK(i) == Lists(f[i], Upto(i))
           S == {i \in 1 .. len : ~OK(i)}
<1>5. ASSUME NEW i \in 1 .. len, i = 1 \/ OK(i - 1) PROVE OK(i)
  <2>1. CASE i = 1
    <3>1. f[i] = ss[i] /\ Lists(ss[i], W[i])
      BY <1>3, <1>4, <2>1
    <3>2. Upto(i) = W[i]
      <4>1. \A j : j \in 1 .. i <=> j = i
        BY <2>1
      <4> QED BY <4>1
    <3> QED BY <3>1, <3>2
  <2>2. CASE i # 1
    <3>1. f[i] = f[i - 1] \o ss[i] /\ Lists(ss[i], W[i]) /\ Lists(f[i - 1], Upto(i - 1))
      BY <1>3, <1>4, <1>5, <2>2
    <3>2. Upto(i) = Upto(i - 1) \cup W[i]
      <4>1. \A j : j \in 1 .. i <=> j = i \/ j \in 1 .. i - 1
        BY <1>2
      <4> QED BY <4>1
    <3>3. Upto(i - 1) \cap W[i] = {}
      <4>1. \A j \in 1 .. i - 1 : j \in 1 .. len /\ j # i
        BY <1>2
      <4> QED BY <1>4, <4>1
    <3>4. PICK A : A = Upto(i - 1)
      OBVIOUS
    <3>5. PICK B : B = W[i]
      OBVIOUS
    <3>6. Lists(f[i - 1], A) /\ Lists(ss[i], B) /\ A \cap B = {} /\ Upto(i) = A \cup B
      BY <3>1, <3>2, <3>3, <3>4, <3>5, Zenon
    <3>7. Lists(f[i - 1] \o ss[i], A \cup B)
      BY <3>6, ConcatLists
    <3> HIDE DEF Upto
    <3> QED BY <3>1, <3>6, <3>7
  <2> QED BY <2>1, <2>2
<1> HIDE DEF OK
<1>6. S = {}
  <2>1. SUFFICES ASSUME S # {} PROVE FALSE
    OBVIOUS
  <2>2. S \in SUBSET Nat
    BY <1>2
  <2> HIDE DEF S
  <2>3. PICK i \in S : \A j \in S : i <= j
    BY <2>1, <2>2, FlatLevel!Least
  <2> USE DEF S
  <2>4. i \in 1 .. len /\ ~OK(i)
    BY <2>3
  <2>5. i # 1 => i - 1 \in 1 .. len /\ i - 1 \notin S
    BY <1>2, <2>3, <2>4
  <2> QED BY <1>5, <2>4, <2>5
<1>7. len \in 1 .. len
  BY <1>2
<1>8. OK(len)
  BY <1>6, <1>7
<1> QED BY <1>1, <1>8 DEF OK, len

-----------------------------------------------------------------------------
(* The scan for a hash *)

\* The items of hash a in a node and below it.
Of(h, n, a) == {y \in HeldBelow[h][n] : HashOfItem(y) = a}

\* The order of the items goes by hash first.
LEMMA HashOrder ==
    /\ \A x \in NodeKey : HashOfItem(x) \in Nat
    /\ \A x, y \in NodeKey : Before(x, y) => HashOfItem(x) <= HashOfItem(y)
BY DEF NodeKey, HashOfItem, Before

\* The keys below a hash come first in a node.
LEMMA FirstIs ==
    ASSUME NEW h \in Nat \ {0}, NEW n, Shape(n, h), NEW a \in Nat
    PROVE  /\ FirstNotBelow(n, a) \in 1 .. Len(n.keys) + 1
           /\ \A j \in 1 .. Len(n.keys) : HashOfItem(n.keys[j]) < a <=> j < FirstNotBelow(n, a)
<1> DEFINE len == Len(n.keys)
           S == {i \in DOMAIN n.keys : HashOfItem(n.keys[i]) < a}
           c == Cardinality(S)
<1>1. n \in Nodes[h] /\ len \in Nat /\ DOMAIN n.keys = 1 .. len
  BY NodeIs DEF Shape
<1>2. /\ \A i \in 1 .. len : n.keys[i] \in NodeKey
      /\ \A i, j \in 1 .. len : i < j => Before(n.keys[i], n.keys[j])
  BY <1>1, NodeIs, AscendingIs DEF Shape
<1>3. S \in SUBSET (1 .. len) /\ \A i \in S : \A j \in 1 .. i : j \in S
  <2>1. S \in SUBSET (1 .. len)
    BY <1>1
  <2>2. ASSUME NEW i \in S, NEW j \in 1 .. i PROVE j \in S
    <3>1. i \in 1 .. len /\ j \in 1 .. len /\ HashOfItem(n.keys[i]) < a
      BY <1>1
    <3>2. j = i \/ j < i
      BY <3>1
    <3>3. HashOfItem(n.keys[j]) <= HashOfItem(n.keys[i])
      BY <1>2, <3>1, <3>2, HashOrder
    <3>4. HashOfItem(n.keys[j]) \in Nat /\ HashOfItem(n.keys[i]) \in Nat
      BY <1>2, <3>1, HashOrder
    <3>5. HashOfItem(n.keys[j]) < a
      BY <3>1, <3>3, <3>4
    <3> QED BY <1>1, <3>1, <3>5
  <2> QED BY <2>1, <2>2
<1>4. /\ c \in 0 .. len
      /\ \A j \in 1 .. len : j \in S <=> j <= c
  <2> HIDE DEF S, len
  <2> QED BY <1>1, <1>3, Prefix
<1>5. FirstNotBelow(n, a) = 1 + c
  BY DEF FirstNotBelow
<1> HIDE DEF c, len
<1>6. \A j \in 1 .. len : HashOfItem(n.keys[j]) < a <=> j <= c
  BY <1>1, <1>4
<1> HIDE DEF S
<1>7. 1 + c \in 1 .. len + 1 /\ \A j \in 1 .. len : j <= c <=> j < 1 + c
  BY <1>1, <1>4
<1> QED BY <1>5, <1>6, <1>7 DEF len

\* No two places of a node hold the same item.
LEMMA PlacesDiffer ==
    ASSUME NEW h \in Nat \ {0}, NEW n, Shape(n, h)
    PROVE  /\ \A i, j \in 1 .. Len(n.keys) : i # j => n.keys[i] # n.keys[j]
           /\ \A i \in 1 .. Len(n.keys), j \in 1 .. Len(n.keys) + 1 :
                 n.keys[i] \notin HeldBelow[h - 1][n.kids[j]]
           /\ \A i, j \in 1 .. Len(n.keys) + 1 :
                 i # j => HeldBelow[h - 1][n.kids[i]] \cap HeldBelow[h - 1][n.kids[j]] = {}
<1> DEFINE len == Len(n.keys)
           In(i) == HeldBelow[h - 1][n.kids[i]]
<1>1. n \in Nodes[h] /\ len \in Nat
  BY NodeIs DEF Shape
<1>2. /\ \A i \in 1 .. len : n.keys[i] \in NodeKey
      /\ \A i \in 1 .. len + 1 : In(i) \subseteq NodeKey
  BY <1>1, NodeIs, HeldIn
<1>3. /\ \A i, j \in 1 .. len : i < j => Before(n.keys[i], n.keys[j])
      /\ \A i \in 1 .. len + 1 : \A y \in In(i) : \A j \in 1 .. len :
           IF i <= j THEN Before(y, n.keys[j]) ELSE Before(n.keys[j], y)
  BY <1>1, AscendingIs DEF Shape, InGap
<1> HIDE DEF len, In
<1>4. ASSUME NEW i \in 1 .. len, NEW j \in 1 .. len, i # j
      PROVE  n.keys[i] # n.keys[j]
  <2>1. i < j \/ j < i
    BY <1>1, <1>4
  <2>2. Before(n.keys[i], n.keys[j]) \/ Before(n.keys[j], n.keys[i])
    BY <1>3, <2>1
  <2> QED BY <1>2, <2>2, BeforeOrder
<1>5. ASSUME NEW i \in 1 .. len, NEW j \in 1 .. len + 1
      PROVE  n.keys[i] \notin In(j)
  <2>1. ASSUME NEW y \in In(j) PROVE Before(y, n.keys[i]) \/ Before(n.keys[i], y)
    BY <1>3
  <2>2. ~Before(n.keys[i], n.keys[i])
    BY <1>2, BeforeOrder
  <2> QED BY <2>1, <2>2
<1>6. ASSUME NEW i \in 1 .. len + 1, NEW j \in 1 .. len + 1, i < j, NEW y, y \in In(i), y \in In(j)
      PROVE  FALSE
  <2>1. i \in 1 .. len /\ ~(j <= i) /\ i <= i
    BY <1>1, <1>6
  <2>2. Before(y, n.keys[i]) /\ Before(n.keys[i], y)
    BY <1>3, <1>6, <2>1
  <2>3. y \in NodeKey /\ n.keys[i] \in NodeKey
    BY <1>2, <1>6, <2>1
  <2> QED BY <2>2, <2>3, BeforeOrder
<1>7. ASSUME NEW i \in 1 .. len + 1, NEW j \in 1 .. len + 1, i # j
      PROVE  In(i) \cap In(j) = {}
  <2>1. i < j \/ j < i
    BY <1>1, <1>7
  <2> QED BY <1>6, <2>1
<1> QED BY <1>4, <1>5, <1>7 DEF len, In

\* Where the items of a hash are.
LEMMA OfIs ==
    ASSUME NEW h \in Nat \ {0}, NEW n, Shape(n, h), NEW a \in Nat
    PROVE  LET first == FirstNotBelow(n, a)
           IN  /\ Of(h, n, a) \subseteq NodeKey
               /\ \A i \in 1 .. Len(n.keys) : HashOfItem(n.keys[i]) = a =>
                     first <= i /\ n.keys[i] \in Of(h, n, a)
               /\ \A i \in 1 .. Len(n.keys) + 1 : Of(h - 1, n.kids[i], a) \subseteq Of(h, n, a)
               /\ \A y \in Of(h, n, a) :
                     \/ \E i \in first .. Len(n.keys) : y = n.keys[i] /\ HashOfItem(y) = a
                     \/ \E i \in first .. Len(n.keys) + 1 : y \in Of(h - 1, n.kids[i], a)
               /\ (Len(n.keys) > 0 /\ HashOfItem(n.keys[1]) > a)
                     => Of(h, n, a) = Of(h - 1, n.kids[1], a)
<1> DEFINE len == Len(n.keys)
           first == FirstNotBelow(n, a)
           In(i) == HeldBelow[h - 1][n.kids[i]]
<1>1. n \in Nodes[h] /\ len \in Nat
  BY NodeIs DEF Shape
<1>2. /\ HeldBelow[h][n] \subseteq NodeKey
      /\ \A i \in 1 .. len + 1 : In(i) \subseteq HeldBelow[h][n] /\ In(i) \subseteq NodeKey
      /\ \A i \in 1 .. len : n.keys[i] \in HeldBelow[h][n] /\ n.keys[i] \in NodeKey
      /\ \A y \in HeldBelow[h][n] : \/ \E i \in 1 .. len : y = n.keys[i]
                                    \/ \E i \in 1 .. len + 1 : y \in In(i)
  BY <1>1, HeldIn, NodeIs
<1>3. \A i \in 1 .. len + 1 : \A y \in In(i) : \A j \in 1 .. len :
         IF i <= j THEN Before(y, n.keys[j]) ELSE Before(n.keys[j], y)
  BY <1>1, AscendingIs DEF Shape, InGap
<1>4. /\ first \in 1 .. len + 1
      /\ \A j \in 1 .. len : HashOfItem(n.keys[j]) < a <=> j < first
  BY FirstIs
<1>5. /\ \A y : y \in Of(h, n, a) <=> y \in HeldBelow[h][n] /\ HashOfItem(y) = a
      /\ \A i : \A y : y \in Of(h - 1, n.kids[i], a) <=> y \in In(i) /\ HashOfItem(y) = a
  BY DEF Of
<1> HIDE DEF len, first, In
<1>6. Of(h, n, a) \subseteq NodeKey
  BY <1>2, <1>5
<1>7. ASSUME NEW i \in 1 .. len, HashOfItem(n.keys[i]) = a
      PROVE  first <= i /\ n.keys[i] \in Of(h, n, a)
  <2>1. ~(i < first)
    BY <1>4, <1>7
  <2> QED BY <1>1, <1>2, <1>4, <1>5, <1>7, <2>1
<1>8. \A i \in 1 .. len + 1 : Of(h - 1, n.kids[i], a) \subseteq Of(h, n, a)
  BY <1>2, <1>5
<1>9. ASSUME NEW y \in Of(h, n, a)
      PROVE  \/ \E i \in first .. len : y = n.keys[i] /\ HashOfItem(y) = a
             \/ \E i \in first .. len + 1 : y \in Of(h - 1, n.kids[i], a)
  <2>1. y \in HeldBelow[h][n] /\ HashOfItem(y) = a /\ y \in NodeKey
    BY <1>2, <1>5
  <2>2. CASE \E i \in 1 .. len : y = n.keys[i]
    <3>1. PICK i \in 1 .. len : y = n.keys[i]
      BY <2>2
    <3>2. first <= i
      BY <1>7, <2>1, <3>1
    <3>3. i \in first .. len
      BY <1>4, <3>2
    <3> QED BY <2>1, <3>1, <3>3
  <2>3. CASE \E i \in 1 .. len + 1 : y \in In(i)
    <3>1. PICK i \in 1 .. len + 1 : y \in In(i)
      BY <2>3
    <3>2. ASSUME i < first PROVE FALSE
      <4>1. i \in 1 .. len /\ i <= i
        BY <1>1, <1>4, <3>2
      <4>2. HashOfItem(n.keys[i]) < a /\ n.keys[i] \in NodeKey
        BY <1>2, <1>4, <3>2, <4>1
      <4>3. Before(y, n.keys[i])
        BY <1>3, <3>1, <4>1
      <4>4. HashOfItem(y) <= HashOfItem(n.keys[i]) /\ HashOfItem(n.keys[i]) \in Nat
        BY <2>1, <4>2, <4>3, HashOrder
      <4> QED BY <2>1, <4>2, <4>4
    <3>3. i \in first .. len + 1
      BY <1>1, <1>4, <3>2
    <3> QED BY <1>5, <2>1, <3>1, <3>3
  <2> QED BY <1>2, <2>1, <2>2, <2>3
<1>10. ASSUME len > 0, HashOfItem(n.keys[1]) > a
       PROVE  Of(h, n, a) = Of(h - 1, n.kids[1], a)
  <2>1. 1 \in 1 .. len /\ 1 \in 1 .. len + 1 /\ HashOfItem(n.keys[1]) \in Nat
    BY <1>1, <1>2, <1>10, HashOrder
  <2>2. \A i \in 1 .. len : HashOfItem(n.keys[i]) > a
    <3> TAKE i \in 1 .. len
    <3>1. i = 1 \/ 1 < i
      BY <1>1
    <3>2. CASE 1 < i
      <4>1. Before(n.keys[1], n.keys[i])
        BY <1>1, <2>1, <3>2, AscendingIs DEF Shape, len
      <4>2. HashOfItem(n.keys[1]) <= HashOfItem(n.keys[i]) /\ HashOfItem(n.keys[i]) \in Nat
        BY <1>2, <2>1, <4>1, HashOrder
      <4> QED BY <1>10, <2>1, <4>2
    <3> QED BY <1>10, <3>1, <3>2
  <2>3. ASSUME NEW i \in 1 .. len + 1, i # 1, NEW y \in In(i) PROVE HashOfItem(y) # a
    <3>1. ~(i <= 1)
      BY <1>1, <2>3
    <3>2. Before(n.keys[1], y)
      BY <1>3, <2>1, <2>3, <3>1
    <3>3. HashOfItem(n.keys[1]) <= HashOfItem(y) /\ HashOfItem(y) \in Nat
      BY <1>2, <2>1, <2>3, <3>2, HashOrder
    <3> QED BY <1>10, <2>1, <3>3
  <2>4. \A y \in Of(h, n, a) : y \in Of(h - 1, n.kids[1], a)
    <3> TAKE y \in Of(h, n, a)
    <3>1. y \in HeldBelow[h][n] /\ HashOfItem(y) = a
      BY <1>5
    <3>2. ~\E i \in 1 .. len : y = n.keys[i]
      BY <2>2, <3>1
    <3>3. PICK i \in 1 .. len + 1 : y \in In(i)
      BY <1>2, <3>1, <3>2
    <3>4. i = 1
      BY <2>3, <3>1, <3>3
    <3> QED BY <1>5, <3>1, <3>3, <3>4
  <2> QED BY <1>8, <2>1, <2>4
<1> QED BY <1>6, <1>7, <1>8, <1>9, <1>10 DEF len, first

\* A scan of a node ends at the first key that stops it, or behind the last.
LEMMA EndIs ==
    ASSUME NEW h \in Nat \ {0}, NEW n, Shape(n, h), NEW a \in Nat, NEW stops,
           NEW first \in 1 .. Len(n.keys) + 1
    PROVE  LET end == ScanEnd(n, first, a, stops)
           IN  /\ end \in first .. Len(n.keys) + 1
               /\ end # Len(n.keys) + 1 => HashOfItem(n.keys[end]) = a /\ n.keys[end] \in stops
               /\ end = Len(n.keys) + 1 =>
                     \A i \in first .. Len(n.keys) :
                        HashOfItem(n.keys[i]) = a => n.keys[i] \notin stops
<1> DEFINE len == Len(n.keys)
           halts == {i \in first .. len : HashOfItem(n.keys[i]) = a /\ n.keys[i] \in stops}
           end == ScanEnd(n, first, a, stops)
<1>1. len \in Nat
  BY NodeIs DEF Shape
<1>2. end = IF halts = {} THEN len + 1 ELSE Min(halts)
  BY DEF ScanEnd
<1> DEFINE Right ==
             /\ end \in first .. len + 1
             /\ end # len + 1 => HashOfItem(n.keys[end]) = a /\ n.keys[end] \in stops
             /\ end = len + 1 =>
                   \A i \in first .. len : HashOfItem(n.keys[i]) = a => n.keys[i] \notin stops
<1> SUFFICES Right
  OBVIOUS
<1>3. CASE halts = {}
  <2>1. \A i \in first .. len : HashOfItem(n.keys[i]) = a => n.keys[i] \notin stops
    BY <1>3
  <2>2. end = len + 1
    BY <1>2, <1>3
  <2>3. end \in first .. len + 1
    BY <1>1, <2>2
  <2> HIDE DEF end, len
  <2> QED BY <2>1, <2>2, <2>3
<1>4. CASE halts # {}
  <2>1. halts \in SUBSET Nat
    OBVIOUS
  <2>2. Min(halts) \in halts
    <3> HIDE DEF halts
    <3>1. \E i \in halts : \A j \in halts : i <= j
      BY <1>4, <2>1, FlatLevel!Least
    <3> QED BY <3>1 DEF Min
  <2>3. end \in halts
    BY <1>2, <1>4, <2>2
  <2> HIDE DEF end, len
  <2>4. end \in first .. len /\ HashOfItem(n.keys[end]) = a /\ n.keys[end] \in stops
    BY <2>3
  <2>5. end \in first .. len + 1 /\ end # len + 1
    BY <1>1, <2>4
  <2> QED BY <2>4, <2>5
<1> QED BY <1>3, <1>4

\* What the scan of a node of height h for a hash comes to, when it is stopped
\* by the items in stops.
Scans(hits, M, stops) ==
    /\ hits \in Seq(M)
    /\ stops \cap M = {} => Lists(hits, M)
    /\ stops \cap M # {} => stops \cap ToSet(hits) # {}

\* The scan of a node of height h is right.
ScanRight(h) ==
    \A n \in Sound[h], a \in Nat, stops \in SUBSET NodeKey :
       /\ Scans(Scan[h][n][a][stops], Of(h, n, a), stops)
       /\ Scan[h][n][a][stops] = Scan[h][n][a][stops \cap Of(h, n, a)]

ScanNowhere == [n \in {NoNode} |-> [a \in Nat |-> [stops \in SUBSET NodeKey |-> <<>>]]]

ScanLevel == INSTANCE Recursion WITH
    Base <- ScanNowhere, Step <- ScanAbove, P <- ScanRight

\* The scan, unfolded by one level.
LEMMA ScanIs ==
    /\ Scan[0] = ScanNowhere
    /\ \A h \in Nat \ {0} : \A n \in Nodes[h], a \in Nat, stops \in SUBSET NodeKey :
          Scan[h][n][a][stops] = ScanNode(Scan[h - 1], n, a, stops)
<1>1. \E f : f = [h \in Nat |-> IF h = 0 THEN ScanNowhere ELSE ScanAbove(f[h - 1], h)]
  BY ScanLevel!Defined
<1>2. Scan = [h \in Nat |-> IF h = 0 THEN ScanNowhere ELSE ScanAbove(Scan[h - 1], h)]
  BY <1>1 DEF Scan, ScanNowhere
<1>3. ASSUME NEW h \in Nat \ {0}, NEW n \in Nodes[h], NEW a \in Nat, NEW stops \in SUBSET NodeKey
      PROVE  Scan[h][n][a][stops] = ScanNode(Scan[h - 1], n, a, stops)
  <2>1. Scan[h] = ScanAbove(Scan[h - 1], h)
    BY <1>2
  <2> DEFINE below == Scan[h - 1]
  <2> HIDE DEF below
  <2>2. Scan[h] = ScanAbove(below, h)
    BY <2>1 DEF below
  <2>3. ScanAbove(below, h)[n][a][stops] = ScanNode(below, n, a, stops)
    BY DEF ScanAbove
  <2> QED BY <2>2, <2>3 DEF below
<1>4. Scan[0] = ScanNowhere
  BY <1>2
<1> QED BY <1>3, <1>4

\* Stopping items of no interest to the scan make no difference to it.
LEMMA ScanSame ==
    ASSUME NEW h \in Nat \ {0}, ScanRight(h - 1),
           NEW n \in Sound[h], NEW a \in Nat, NEW stops \in SUBSET NodeKey
    PROVE  Scan[h][n][a][stops] = Scan[h][n][a][stops \cap Of(h, n, a)]
<1> DEFINE len == Len(n.keys)
           first == FirstNotBelow(n, a)
           M == Of(h, n, a)
           some == stops \cap M
           S == Scan[h - 1]
<1>1. /\ Shape(n, h) /\ n \in Nodes[h] /\ len \in Nat /\ first \in 1 .. len + 1
      /\ some \in SUBSET NodeKey
      /\ \A i \in 1 .. len + 1 : n.kids[i] \in Sound[h - 1]
  BY SoundParts, NodeIs, FirstIs DEF Shape
<1>2. /\ \A i \in 1 .. len : HashOfItem(n.keys[i]) = a => n.keys[i] \in M
      /\ \A i \in 1 .. len + 1 : Of(h - 1, n.kids[i], a) \subseteq M
  BY <1>1, OfIs
<1> HIDE DEF M
<1>3. \A i \in 1 .. len + 1 : S[n.kids[i]][a][stops] = S[n.kids[i]][a][some]
  <2> TAKE i \in 1 .. len + 1
  <2> DEFINE C == Of(h - 1, n.kids[i], a)
  <2>1. n.kids[i] \in Sound[h - 1]
    BY <1>1
  <2>2. S[n.kids[i]][a][stops] = S[n.kids[i]][a][stops \cap C]
    BY <2>1 DEF ScanRight
  <2>3. S[n.kids[i]][a][some] = S[n.kids[i]][a][some \cap C]
    BY <1>1, <2>1 DEF ScanRight
  <2>4. some \cap C = stops \cap C
    BY <1>2
  <2> HIDE DEF S, some, C
  <2> QED BY <2>2, <2>3, <2>4
<1> DEFINE end == ScanEnd(n, first, a, stops)
<1>4. ScanEnd(n, first, a, stops) = ScanEnd(n, first, a, some)
  <2>1. {i \in first .. len : HashOfItem(n.keys[i]) = a /\ n.keys[i] \in stops}
          = {i \in first .. len : HashOfItem(n.keys[i]) = a /\ n.keys[i] \in some}
    BY <1>1, <1>2
  <2> QED BY <2>1 DEF ScanEnd
<1>5. end \in first .. len + 1
  BY <1>1, EndIs
<1> HIDE DEF some, S, end
<1>6. \A i \in first .. end :
         HitsAt(S, n, i, first, end, a, stops) = HitsAt(S, n, i, first, end, a, some)
  <2> HIDE DEF first, len
  <2> TAKE i \in first .. end
  <2>1. CASE i > len
    <3>1. /\ S[n.kids[len + 1]][a][stops] = S[n.kids[len + 1]][a][some]
          /\ S[n.kids[first]][a][stops] = S[n.kids[first]][a][some]
      BY <1>1, <1>3
    <3>2. OuterHits(S, n, first, a, stops) = OuterHits(S, n, first, a, some)
      BY <3>1 DEF OuterHits, len
    <3> QED BY <2>1, <3>2 DEF HitsAt, len
  <2>2. CASE ~(i > len)
    <3>1. i \in 1 .. len + 1
      BY <1>1, <1>5, <2>2
    <3>2. S[n.kids[i]][a][stops] = S[n.kids[i]][a][some]
      BY <1>3, <3>1
    <3> QED BY <2>2, <3>2 DEF HitsAt, len
  <2> QED BY <2>1, <2>2
<1>7. ScanNode(S, n, a, stops) = ScanNode(S, n, a, some)
  <2>1. [j \in 1 .. end - first + 1 |-> HitsAt(S, n, first + j - 1, first, end, a, stops)]
          = [j \in 1 .. end - first + 1 |-> HitsAt(S, n, first + j - 1, first, end, a, some)]
    <3> HIDE DEF first, len
    <3>1. \A j \in 1 .. end - first + 1 : first + j - 1 \in first .. end
      BY <1>1, <1>5
    <3> QED BY <1>6, <3>1
  <2>2. S[n.kids[1]][a][stops] = S[n.kids[1]][a][some]
    BY <1>1, <1>3
  <2> QED BY <1>4, <2>1, <2>2 DEF ScanNode, end
<1> QED BY <1>1, <1>7, ScanIs DEF S, some, M

\* No hit, and one.
LEMMA FewHits ==
    /\ \A M : <<>> \in Seq(M) /\ ToSet(<<>>) = {}
    /\ Lists(<<>>, {})
    /\ \A x, M : x \in M => <<x>> \in Seq(M)
    /\ \A x : Lists(<<x>>, {x}) /\ ToSet(<<x>>) = {x}
<1>1. \A M : <<>> \in Seq(M)
  OBVIOUS
<1>2. DOMAIN <<>> = {}
  OBVIOUS
<1>3. ToSet(<<>>) = {} /\ IsInjective(<<>>)
  BY <1>2 DEF ToSet, IsInjective
<1>4. \A x, M : x \in M => <<x>> \in Seq(M)
  OBVIOUS
<1>5. ASSUME NEW x PROVE Lists(<<x>>, {x}) /\ ToSet(<<x>>) = {x}
  <2>1. <<x>> \in Seq({x}) /\ DOMAIN <<x>> = {1} /\ <<x>>[1] = x
    OBVIOUS
  <2> DEFINE s == <<x>>
  <2> HIDE DEF s
  <2>2. s \in Seq({x}) /\ DOMAIN s = {1} /\ s[1] = x
    BY <2>1 DEF s
  <2>3. ToSet(s) = {x} /\ IsInjective(s)
    BY <2>2 DEF ToSet, IsInjective
  <2> QED BY <2>2, <2>3 DEF Lists, s
<1> QED BY <1>1, <1>3, <1>4, <1>5 DEF Lists

\* What a scan gathers at a node of len keys from the key first to the key end: P[i]
\* at key i, where own are the keys of the hash and S[i] is the scan of child i.
Gathers(len, first, end, own, key, S, P) ==
    \A i \in first .. end : P[i] =
       IF i > len THEN (IF first <= len THEN S[len + 1] ELSE <<>>) \o S[first]
       ELSE (IF i \in own THEN <<key[i]>> ELSE <<>>)
            \o (IF first < i /\ i < end THEN S[i] ELSE <<>>)

\* W[i]: the items that the piece P[i] of a scan that runs to the end lists.
Covers(len, first, own, key, C, W) ==
    \A i \in first .. len + 1 : W[i] =
       IF i > len THEN (IF first <= len THEN C[len + 1] ELSE {}) \cup C[first]
       ELSE (IF i \in own THEN {key[i]} ELSE {}) \cup (IF first < i THEN C[i] ELSE {})

\* The keys own and the children, with the items C[i], hold items of M only.
KeysWithin(len, own, key, M) == \A i \in 1 .. len : i \in own => key[i] \in M
KidsScan(len, S, C, M, stops) ==
    \A i \in 1 .. len + 1 : Scans(S[i], C[i], stops) /\ C[i] \subseteq M
KidsListed(len, S, C) == \A i \in 1 .. len + 1 : Lists(S[i], C[i])

\* No item is at two places of a node.
Apart(len, key, C) ==
    /\ \A i, j \in 1 .. len : i # j => key[i] # key[j]
    /\ \A i \in 1 .. len, j \in 1 .. len + 1 : key[i] \notin C[j]
    /\ \A i, j \in 1 .. len + 1 : i # j => C[i] \cap C[j] = {}

\* The keys and the children of a node that a scan gets to, one piece for each key.
LEMMA ScanPieces ==
    ASSUME NEW len \in Nat, NEW first \in 1 .. len + 1, NEW end \in first .. len + 1,
           NEW M \in SUBSET NodeKey, NEW stops, NEW own, NEW key, NEW S, NEW C, NEW P,
           KeysWithin(len, own, key, M), KidsScan(len, S, C, M, stops),
           Gathers(len, first, end, own, key, S, P)
    PROVE  /\ \A i \in first .. end : P[i] \in Seq(M)
           /\ \A i \in first .. end : i <= len /\ i \in own => key[i] \in ToSet(P[i])
           /\ \A i \in first .. end :
                 i <= len /\ first < i /\ i < end => ToSet(S[i]) \subseteq ToSet(P[i])
           /\ end = len + 1 => /\ ToSet(S[first]) \subseteq ToSet(P[end])
                               /\ first <= len => ToSet(S[len + 1]) \subseteq ToSet(P[end])
<1>1. \A i \in 1 .. len + 1 : S[i] \in Seq(M)
  <2> TAKE i \in 1 .. len + 1
  <2>1. S[i] \in Seq(C[i]) /\ C[i] \subseteq M
    BY DEF Scans, KidsScan
  <2> QED BY <2>1
<1>2. <<>> \in Seq(M)
  OBVIOUS
<1>3. ASSUME NEW i \in first .. end
      PROVE  /\ P[i] \in Seq(M)
             /\ i <= len /\ i \in own => key[i] \in ToSet(P[i])
             /\ i <= len /\ first < i /\ i < end => ToSet(S[i]) \subseteq ToSet(P[i])
             /\ i = len + 1 => /\ ToSet(S[first]) \subseteq ToSet(P[i])
                               /\ first <= len => ToSet(S[len + 1]) \subseteq ToSet(P[i])
  <2>1. CASE i > len
    <3> DEFINE s == IF first <= len THEN S[len + 1] ELSE <<>>
    <3>1. P[i] = s \o S[first]
      BY <2>1 DEF Gathers
    <3>2. s \in Seq(M) /\ S[first] \in Seq(M)
      BY <1>1, <1>2
    <3>3. first <= len => s = S[len + 1]
      OBVIOUS
    <3> HIDE DEF s
    <3>4. P[i] \in Seq(M) /\ ToSet(P[i]) = ToSet(s) \cup ToSet(S[first])
      BY <3>1, <3>2, ConcatHits
    <3> QED BY <2>1, <3>3, <3>4
  <2>2. CASE ~(i > len)
    <3> DEFINE s == IF i \in own THEN <<key[i]>> ELSE <<>>
               t == IF first < i /\ i < end THEN S[i] ELSE <<>>
    <3>1. P[i] = s \o t
      BY <2>2 DEF Gathers
    <3>2. i \in 1 .. len /\ i \in 1 .. len + 1
      BY <2>2
    <3>3. /\ s \in Seq(M)
          /\ i \in own => key[i] \in ToSet(s)
      <4>1. CASE i \in own
        <5>1. key[i] \in M
          BY <3>2, <4>1 DEF KeysWithin
        <5> QED BY <4>1, <5>1, FewHits
      <4>2. CASE i \notin own
        BY <1>2, <4>2
      <4> QED BY <4>1, <4>2
    <3>4. t \in Seq(M) /\ (first < i /\ i < end => t = S[i])
      BY <1>1, <1>2, <3>2
    <3> HIDE DEF s, t
    <3>5. P[i] \in Seq(M) /\ ToSet(P[i]) = ToSet(s) \cup ToSet(t)
      BY <3>1, <3>3, <3>4, ConcatHits
    <3> QED BY <3>2, <3>3, <3>4, <3>5
  <2> QED BY <2>1, <2>2
<1>4. end \in first .. end
  OBVIOUS
<1> QED BY <1>3, <1>4

\* The same for a scan that nothing stops.
LEMMA WholePieces ==
    ASSUME NEW len \in Nat, NEW first \in 1 .. len + 1,
           NEW own, NEW key, NEW S, NEW C, NEW P, NEW W,
           KidsListed(len, S, C), Apart(len, key, C),
           Gathers(len, first, len + 1, own, key, S, P),
           Covers(len, first, own, key, C, W)
    PROVE  /\ \A i \in first .. len + 1 : Lists(P[i], W[i])
           /\ \A i, j \in first .. len + 1 : i # j => W[i] \cap W[j] = {}
<1> USE DEF KidsListed, Apart, Gathers, Covers
<1>1. Lists(<<>>, {})
  BY FewHits
<1>2. ASSUME NEW i \in first .. len + 1 PROVE Lists(P[i], W[i])
  <2>1. CASE i > len
    <3> DEFINE s == IF first <= len THEN S[len + 1] ELSE <<>>
               A == IF first <= len THEN C[len + 1] ELSE {}
    <3>1. P[i] = s \o S[first] /\ W[i] = A \cup C[first]
      BY <2>1
    <3>2. Lists(s, A) /\ Lists(S[first], C[first])
      BY <1>1
    <3>3. A \cap C[first] = {}
      <4>1. first <= len => len + 1 # first /\ len + 1 \in 1 .. len + 1
        OBVIOUS
      <4> QED BY <4>1
    <3> HIDE DEF s, A
    <3> QED BY <3>1, <3>2, <3>3, ConcatLists
  <2>2. CASE ~(i > len)
    <3> DEFINE s == IF i \in own THEN <<key[i]>> ELSE <<>>
               A == IF i \in own THEN {key[i]} ELSE {}
               t == IF first < i THEN S[i] ELSE <<>>
               B == IF first < i THEN C[i] ELSE {}
    <3>1. i \in 1 .. len /\ i \in 1 .. len + 1 /\ i < len + 1
      BY <2>2
    <3>2. P[i] = s \o t /\ W[i] = A \cup B
      BY <2>2, <3>1
    <3>3. Lists(s, A)
      BY <1>1, FewHits
    <3>4. Lists(t, B)
      BY <1>1, <3>1
    <3>5. A \cap B = {}
      BY <3>1
    <3> HIDE DEF s, A, t, B
    <3> QED BY <3>2, <3>3, <3>4, <3>5, ConcatLists
  <2> QED BY <2>1, <2>2
<1>3. ASSUME NEW i \in first .. len + 1, NEW j \in first .. len + 1, i < j
      PROVE  W[i] \cap W[j] = {}
  <2>1. /\ i \in 1 .. len /\ i \in 1 .. len + 1 /\ first <= len /\ ~(i > len)
        /\ first \in 1 .. len + 1 /\ len + 1 \in 1 .. len + 1 /\ i # len + 1
    BY <1>3
  <2>2. W[i] = (IF i \in own THEN {key[i]} ELSE {}) \cup (IF first < i THEN C[i] ELSE {})
    BY <2>1
  <2>3. ASSUME NEW y, y \in W[i]
        PROVE  y = key[i] \/ (first < i /\ y \in C[i])
    BY <2>2, <2>3
  <2>4. CASE j > len
    <3>1. W[j] = C[len + 1] \cup C[first]
      BY <2>1, <2>4
    <3>2. /\ key[i] \notin C[len + 1] /\ key[i] \notin C[first]
          /\ C[i] \cap C[len + 1] = {}
          /\ first < i => C[i] \cap C[first] = {}
      BY <2>1
    <3> QED BY <2>3, <3>1, <3>2
  <2>5. CASE ~(j > len)
    <3>1. j \in 1 .. len /\ j \in 1 .. len + 1 /\ i # j
      BY <1>3, <2>5
    <3>2. W[j] = (IF j \in own THEN {key[j]} ELSE {}) \cup (IF first < j THEN C[j] ELSE {})
      BY <2>5
    <3>3. \A y \in W[j] : y = key[j] \/ y \in C[j]
      BY <3>2
    <3>4. key[i] # key[j] /\ key[i] \notin C[j] /\ key[j] \notin C[i] /\ C[i] \cap C[j] = {}
      BY <2>1, <3>1
    <3> QED BY <2>3, <3>3, <3>4
  <2> QED BY <2>4, <2>5
<1>4. ASSUME NEW i \in first .. len + 1, NEW j \in first .. len + 1, i # j
      PROVE  W[i] \cap W[j] = {}
  <2>1. i < j \/ j < i
    BY <1>4
  <2> QED BY <1>3, <2>1
<1> QED BY <1>2, <1>4

\* _search_item_only_keyhash_recurcive meets what is below a node, if it does further down.
LEMMA ScanStep ==
    ASSUME NEW h \in Nat \ {0}, ScanRight(h - 1)
    PROVE  ScanRight(h)
<1> SUFFICES ASSUME NEW n \in Sound[h], NEW a \in Nat, NEW stops \in SUBSET NodeKey
             PROVE  Scans(Scan[h][n][a][stops], Of(h, n, a), stops)
  <2>1. \A n \in Sound[h], a \in Nat, stops \in SUBSET NodeKey :
           Scan[h][n][a][stops] = Scan[h][n][a][stops \cap Of(h, n, a)]
    BY ScanSame
  <2>2. ScanRight(h) <=> \A n \in Sound[h], a \in Nat, stops \in SUBSET NodeKey :
           /\ Scans(Scan[h][n][a][stops], Of(h, n, a), stops)
           /\ Scan[h][n][a][stops] = Scan[h][n][a][stops \cap Of(h, n, a)]
    BY Zenon DEF ScanRight
  <2> QED BY <2>1, <2>2
<1> DEFINE len == Len(n.keys)
           first == FirstNotBelow(n, a)
           end == ScanEnd(n, first, a, stops)
           M == Of(h, n, a)
           below == Scan[h - 1]
           S == [i \in 1 .. len + 1 |-> below[n.kids[i]][a][stops]]
           C == [i \in 1 .. len + 1 |-> Of(h - 1, n.kids[i], a)]
           own == {i \in 1 .. len : HashOfItem(n.keys[i]) = a}
           key == n.keys
           P == [i \in first .. end |-> HitsAt(below, n, i, first, end, a, stops)]
           hits == Scan[h][n][a][stops]
<1>1. /\ Shape(n, h) /\ n \in Nodes[h] /\ len \in Nat
      /\ \A i \in 1 .. len + 1 : n.kids[i] \in Sound[h - 1]
      /\ n.keys = <<>> <=> len = 0
  BY SoundParts, NodeIs, LengthIsKeys DEF Shape
<1>2. /\ first \in 1 .. len + 1
      /\ end \in first .. len + 1
      /\ end # len + 1 => HashOfItem(n.keys[end]) = a /\ n.keys[end] \in stops
      /\ end = len + 1 =>
            \A i \in first .. len : HashOfItem(n.keys[i]) = a => n.keys[i] \notin stops
  <2>1. first \in 1 .. len + 1
    BY <1>1, FirstIs
  <2> HIDE DEF first
  <2> QED BY <1>1, <2>1, EndIs
<1>3. hits = IF n.keys # <<>> /\ HashOfItem(n.keys[1]) > a THEN below[n.kids[1]][a][stops]
             ELSE FlattenSeq([j \in 1 .. end - first + 1 |->
                      HitsAt(below, n, first + j - 1, first, end, a, stops)])
  <2>1. hits = ScanNode(below, n, a, stops)
    BY <1>1, ScanIs
  <2> HIDE DEF below, hits
  <2> QED BY <2>1 DEF ScanNode
<1>4. /\ M \in SUBSET NodeKey
      /\ \A i \in own : first <= i /\ key[i] \in M
      /\ \A i \in 1 .. len + 1 : C[i] \subseteq M
      /\ \A y \in M : \/ \E i \in first .. len : i \in own /\ y = key[i]
                      \/ \E i \in first .. len + 1 : y \in C[i]
      /\ len > 0 /\ HashOfItem(n.keys[1]) > a => M = C[1]
  <2>1. /\ M \subseteq NodeKey
        /\ \A i \in 1 .. len : HashOfItem(n.keys[i]) = a => first <= i /\ n.keys[i] \in M
        /\ \A i \in 1 .. len + 1 : Of(h - 1, n.kids[i], a) \subseteq M
        /\ \A y \in M : \/ \E i \in first .. len : y = n.keys[i] /\ HashOfItem(y) = a
                        \/ \E i \in first .. len + 1 : y \in Of(h - 1, n.kids[i], a)
        /\ len > 0 /\ HashOfItem(n.keys[1]) > a => M = Of(h - 1, n.kids[1], a)
    BY <1>1, OfIs
  <2> HIDE DEF M, len, first
  <2>2. \A i \in first .. len : i \in 1 .. len
    BY <1>1, <1>2
  <2>3. \A i \in first .. len + 1 : i \in 1 .. len + 1
    BY <1>1, <1>2
  <2>4. 1 \in 1 .. len + 1
    BY <1>1
  <2>5. \A i \in 1 .. len + 1 : C[i] = Of(h - 1, n.kids[i], a)
    OBVIOUS
  <2>6. \A i : i \in own <=> i \in 1 .. len /\ HashOfItem(n.keys[i]) = a
    OBVIOUS
  <2> HIDE DEF C, own
  <2> QED BY <2>1, <2>2, <2>3, <2>4, <2>5, <2>6
<1>5. \A i \in 1 .. len + 1 : Scans(S[i], C[i], stops)
  <2> TAKE i \in 1 .. len + 1
  <2>1. n.kids[i] \in Sound[h - 1]
    BY <1>1
  <2>2. Scans(below[n.kids[i]][a][stops], Of(h - 1, n.kids[i], a), stops)
    BY <2>1 DEF ScanRight
  <2> QED BY <2>2
<1>6. Gathers(len, first, end, own, key, S, P)
  <2> SUFFICES ASSUME NEW i \in first .. end
               PROVE  P[i] = IF i > len
                             THEN (IF first <= len THEN S[len + 1] ELSE <<>>) \o S[first]
                             ELSE (IF i \in own THEN <<key[i]>> ELSE <<>>)
                                  \o (IF first < i /\ i < end THEN S[i] ELSE <<>>)
    <3> HIDE DEF P, S, own, first, end, len, key
    <3> QED BY DEF Gathers
  <2> HIDE DEF first, end, below
  <2>1. P[i] = HitsAt(below, n, i, first, end, a, stops)
    OBVIOUS
  <2>2. CASE i > len
    <3>1. P[i] = OuterHits(below, n, first, a, stops)
      BY <2>1, <2>2 DEF HitsAt
    <3>2. S[len + 1] = below[n.kids[len + 1]][a][stops] /\ S[first] = below[n.kids[first]][a][stops]
      BY <1>1, <1>2
    <3> HIDE DEF P, S
    <3> QED BY <2>2, <3>1, <3>2 DEF OuterHits
  <2>3. CASE ~(i > len)
    <3>1. i \in 1 .. len /\ i \in 1 .. len + 1
      BY <1>1, <1>2, <2>3
    <3>2. S[i] = below[n.kids[i]][a][stops]
      BY <3>1
    <3>3. i \in own <=> HashOfItem(n.keys[i]) = a
      BY <3>1
    <3>4. P[i] = (IF HashOfItem(n.keys[i]) = a THEN <<n.keys[i]>> ELSE <<>>)
                 \o (IF first < i /\ i < end THEN below[n.kids[i]][a][stops] ELSE <<>>)
      BY <2>1, <2>3 DEF HitsAt
    <3> HIDE DEF P, S, own
    <3> QED BY <2>3, <3>2, <3>3, <3>4
  <2> QED BY <2>2, <2>3
<1>7. Apart(len, key, C)
  <2>1. /\ \A i, j \in 1 .. len : i # j => key[i] # key[j]
        /\ \A i \in 1 .. len, j \in 1 .. len + 1 : key[i] \notin C[j]
        /\ \A i, j \in 1 .. len + 1 : i # j => C[i] \cap C[j] = {}
    BY <1>1, PlacesDiffer, SMTT(30) DEF Of
  <2> HIDE DEF len, key, C
  <2> QED BY <2>1 DEF Apart
<1> DEFINE size == end - first + 1
           ss == [j \in 1 .. size |-> P[first + j - 1]]
<1>8. CASE n.keys # <<>> /\ HashOfItem(n.keys[1]) > a
  <2>1. 1 \in 1 .. len + 1 /\ len > 0
    BY <1>1, <1>8
  <2>2. hits = S[1] /\ M = C[1]
    BY <1>3, <1>4, <1>8, <2>1
  <2> HIDE DEF hits, S, C, M
  <2>3. Scans(hits, M, stops)
    BY <1>5, <2>1, <2>2
  <2> QED BY <2>3 DEF hits, M
<1>9. CASE ~(n.keys # <<>> /\ HashOfItem(n.keys[1]) > a)
  <2>1. hits = FlattenSeq(ss)
    <3> DEFINE tt == [j \in 1 .. end - first + 1 |->
                        HitsAt(below, n, first + j - 1, first, end, a, stops)]
    <3>1. hits = FlattenSeq(tt)
      BY <1>3, <1>9
    <3>2. ss = tt
      <4> HIDE DEF first, end, below
      <4>1. \A j \in 1 .. size : first + j - 1 \in first .. end
        BY <1>1, <1>2
      <4> QED BY <4>1
    <3> HIDE DEF ss, tt, hits
    <3> QED BY <3>1, <3>2
  <2> HIDE DEF hits, P, S, C, M, own, key, first, end, len, below
  <2>2. /\ \A i \in 1 .. len : i \in own => key[i] \in M
        /\ \A i \in 1 .. len + 1 : Scans(S[i], C[i], stops) /\ C[i] \subseteq M
    BY <1>4, <1>5
  <2>3. /\ \A i \in first .. end : P[i] \in Seq(M)
        /\ \A i \in first .. end : i <= len /\ i \in own => key[i] \in ToSet(P[i])
        /\ \A i \in first .. end :
              i <= len /\ first < i /\ i < end => ToSet(S[i]) \subseteq ToSet(P[i])
        /\ end = len + 1 => /\ ToSet(S[first]) \subseteq ToSet(P[end])
                            /\ first <= len => ToSet(S[len + 1]) \subseteq ToSet(P[end])
    <3>1. KeysWithin(len, own, key, M) /\ KidsScan(len, S, C, M, stops)
      BY <2>2 DEF KeysWithin, KidsScan
    <3>2. len \in Nat /\ first \in 1 .. len + 1 /\ end \in first .. len + 1
          /\ M \in SUBSET NodeKey
      BY <1>1, <1>2, <1>4
    <3> QED BY <1>6, <3>1, <3>2, ScanPieces, ZenonT(40)
  <2>4. /\ size \in Nat /\ size > 0
        /\ \A j \in 1 .. size : first + j - 1 \in first .. end
        /\ \A i \in first .. end : i - first + 1 \in 1 .. size /\ first + (i - first + 1) - 1 = i
    BY <1>1, <1>2
  <2>5. \A j \in 1 .. size : ss[j] = P[first + j - 1] /\ ss[j] \in Seq(M) /\ ss[j] \in Seq(NodeKey)
    <3> TAKE j \in 1 .. size
    <3>1. ss[j] = P[first + j - 1] /\ P[first + j - 1] \in Seq(M)
      BY <2>3, <2>4
    <3> QED BY <1>4, <3>1
  <2>6. ss \in [1 .. size -> Seq(NodeKey)]
    <3>1. ss = [j \in 1 .. size |-> ss[j]]
      OBVIOUS
    <3> HIDE DEF ss
    <3> QED BY <2>5, <3>1
  <2> HIDE DEF ss, size
  <2>7. ss \in Seq(Seq(NodeKey)) /\ Len(ss) = size
    BY <2>4, <2>6, SeqFrom
  <2>8. /\ hits \in Seq(M)
        /\ \A j \in 1 .. size : ToSet(ss[j]) \subseteq ToSet(hits)
    BY <1>4, <2>1, <2>4, <2>5, <2>7, FlattenHits
  <2>9. \A i \in first .. end : ToSet(P[i]) \subseteq ToSet(hits)
    <3> TAKE i \in first .. end
    <3>1. PICK j \in 1 .. size : first + j - 1 = i
      BY <2>4
    <3> QED BY <2>5, <2>8, <3>1
  <2>10. ASSUME stops \cap M # {} PROVE stops \cap ToSet(hits) # {}
    <3>1. CASE end # len + 1
      <4>1. end \in first .. end /\ end \in 1 .. len /\ end <= len
        BY <1>1, <1>2, <3>1
      <4>2. end \in own /\ key[end] \in stops
        BY <1>2, <3>1, <4>1 DEF own, key, len
      <4>3. key[end] \in ToSet(P[end])
        BY <2>3, <4>1, <4>2
      <4> QED BY <2>9, <4>1, <4>2, <4>3
    <3>2. CASE end = len + 1
      <4>1. PICK y \in M : y \in stops
        BY <2>10
      <4>2. ~\E i \in first .. len : i \in own /\ y = key[i]
        BY <1>2, <3>2, <4>1 DEF own, key, len
      <4>3. PICK i \in first .. len + 1 : y \in C[i]
        BY <1>4, <4>2
      <4>4. i \in 1 .. len + 1
        BY <1>1, <1>2
      <4>5. stops \cap ToSet(S[i]) # {}
        BY <2>2, <4>1, <4>3, <4>4 DEF Scans
      <4>6. end \in first .. end
        BY <1>1, <1>2
      <4>7. CASE i = first
        BY <2>3, <2>9, <3>2, <4>5, <4>6, <4>7
      <4>8. CASE i # first /\ i = len + 1
        <5>1. first <= len
          BY <1>1, <1>2, <4>8
        <5> QED BY <2>3, <2>9, <3>2, <4>5, <4>6, <4>8, <5>1
      <4>9. CASE i # first /\ i # len + 1
        <5>1. first < i /\ i < end /\ i <= len /\ i \in first .. end
          BY <1>1, <1>2, <3>2, <4>4, <4>9
        <5> QED BY <2>3, <2>9, <4>5, <5>1
      <4> QED BY <4>7, <4>8, <4>9
    <3> QED BY <3>1, <3>2
  <2>11. ASSUME stops \cap M = {} PROVE Lists(hits, M)
    <3>1. end = len + 1
      <4>1. ASSUME end # len + 1 PROVE FALSE
        <5>1. end \in 1 .. len
          BY <1>1, <1>2, <4>1
        <5>2. end \in own /\ key[end] \in stops
          BY <1>2, <4>1, <5>1 DEF own, key, len
        <5> QED BY <1>4, <2>11, <5>2
      <4> QED BY <4>1
    <3>2. \A i \in 1 .. len + 1 : Lists(S[i], C[i])
      <4> TAKE i \in 1 .. len + 1
      <4>1. stops \cap C[i] = {}
        BY <2>2, <2>11
      <4> QED BY <2>2, <4>1 DEF Scans
    <3> DEFINE W == [i \in first .. len + 1 |->
                IF i > len THEN (IF first <= len THEN C[len + 1] ELSE {}) \cup C[first]
                ELSE (IF i \in own THEN {key[i]} ELSE {}) \cup (IF first < i THEN C[i] ELSE {})]
    <3>3. \A i \in first .. len + 1 : W[i] =
                IF i > len THEN (IF first <= len THEN C[len + 1] ELSE {}) \cup C[first]
                ELSE (IF i \in own THEN {key[i]} ELSE {}) \cup (IF first < i THEN C[i] ELSE {})
      OBVIOUS
    <3> HIDE DEF W
    <3>4. /\ Gathers(len, first, len + 1, own, key, S, P)
          /\ Covers(len, first, own, key, C, W)
          /\ KidsListed(len, S, C)
          /\ len \in Nat /\ first \in 1 .. len + 1
      BY <1>1, <1>2, <1>6, <3>1, <3>2, <3>3 DEF Covers, KidsListed
    <3>5. /\ \A i \in first .. len + 1 : Lists(P[i], W[i])
          /\ \A i, j \in first .. len + 1 : i # j => W[i] \cap W[j] = {}
      BY <1>7, <3>4, WholePieces
    <3> DEFINE V == [j \in 1 .. size |-> W[first + j - 1]]
    <3>6. \A j \in 1 .. size : V[j] = W[first + j - 1] /\ first + j - 1 \in first .. len + 1
      BY <2>4, <3>1
    <3> HIDE DEF V
    <3>7. \A j \in 1 .. size : Lists(ss[j], V[j])
      BY <2>5, <3>5, <3>6
    <3>8. \A i, j \in 1 .. size : i # j => V[i] \cap V[j] = {}
      <4>1. \A i, j \in 1 .. size : i # j => first + i - 1 # first + j - 1
        BY <1>1, <1>2
      <4> QED BY <3>5, <3>6, <4>1
    <3>9. Lists(FlattenSeq(ss), UNION {V[j] : j \in 1 .. size})
      BY <2>4, <2>7, <3>7, <3>8, FlattenLists
    <3>10. UNION {V[j] : j \in 1 .. size} = M
      <4>1. ASSUME NEW i \in first .. len + 1 PROVE W[i] \subseteq M
        <5>1. i \in 1 .. len + 1 /\ len + 1 \in 1 .. len + 1 /\ first \in 1 .. len + 1
          BY <1>1, <1>2
        <5>2. C[i] \subseteq M /\ C[len + 1] \subseteq M /\ C[first] \subseteq M
          BY <1>4, <5>1
        <5>3. i \in own => key[i] \in M
          BY <1>4
        <5> QED BY <3>3, <5>2, <5>3
      <4>2. ASSUME NEW y \in M PROVE \E i \in first .. len + 1 : y \in W[i]
        <5>1. CASE \E i \in first .. len : i \in own /\ y = key[i]
          <6>1. PICK i \in first .. len : i \in own /\ y = key[i]
            BY <5>1
          <6>2. i \in first .. len + 1 /\ ~(i > len)
            BY <1>1, <1>2
          <6> QED BY <3>3, <6>1, <6>2
        <5>2. CASE \E i \in first .. len + 1 : y \in C[i]
          <6>1. PICK i \in first .. len + 1 : y \in C[i]
            BY <5>2
          <6>2. len + 1 \in first .. len + 1 /\ len + 1 > len
            BY <1>1, <1>2
          <6>3. W[len + 1] = (IF first <= len THEN C[len + 1] ELSE {}) \cup C[first]
            BY <3>3, <6>2
          <6>4. CASE i = first
            BY <6>1, <6>2, <6>3, <6>4
          <6>5. CASE i # first /\ i = len + 1
            <7>1. first <= len
              BY <1>1, <1>2, <6>5
            <7> QED BY <6>1, <6>2, <6>3, <6>5, <7>1
          <6>6. CASE i # first /\ i # len + 1
            <7>1. first < i /\ ~(i > len)
              BY <1>1, <1>2, <6>6
            <7> QED BY <3>3, <6>1, <7>1
          <6> QED BY <6>4, <6>5, <6>6
        <5> QED BY <1>4, <5>1, <5>2
      <4>3. \A i \in first .. len + 1 : \E j \in 1 .. size : V[j] = W[i]
        <5> TAKE i \in first .. len + 1
        <5>1. PICK j \in 1 .. size : first + j - 1 = i
          BY <2>4, <3>1
        <5> QED BY <3>6, <5>1
      <4> QED BY <3>6, <4>1, <4>2, <4>3
    <3> QED BY <2>1, <3>9, <3>10
  <2>12. Scans(hits, M, stops)
    BY <2>8, <2>10, <2>11 DEF Scans
  <2> QED BY <2>12 DEF hits, M
<1> QED BY <1>8, <1>9

\* _search_item_only_keyhash_recurcive meets what it should, at any height.
LEMMA ScansAll == \A h \in Nat : ScanRight(h)
<1>1. ScanRight(0)
  <2> SUFFICES ASSUME NEW n \in Sound[0], NEW a \in Nat, NEW stops \in SUBSET NodeKey
               PROVE  /\ Scans(Scan[0][n][a][stops], Of(0, n, a), stops)
                      /\ Scan[0][n][a][stops] = Scan[0][n][a][stops \cap Of(0, n, a)]
    BY DEF ScanRight
  <2>1. n = NoNode /\ Of(0, n, a) = {}
    BY Nowhere DEF Of
  <2>2. \A some \in SUBSET NodeKey : Scan[0][n][a][some] = <<>>
    BY <2>1, ScanIs DEF ScanNowhere
  <2>3. stops \cap {} = {}
    OBVIOUS
  <2>4. Scans(<<>>, {}, stops)
    BY FewHits DEF Scans
  <2> QED BY <2>1, <2>2, <2>3, <2>4
<1>2. \A h \in Nat : ScanRight(h) => ScanRight(h + 1)
  <2> TAKE h \in Nat
  <2>1. h + 1 \in Nat \ {0} /\ (h + 1) - 1 = h
    OBVIOUS
  <2> QED BY <2>1, ScanStep
<1> QED BY ScanLevel!Induction, <1>1, <1>2

\* What is in a tree are items.
LEMMA HeldKeys ==
    ASSUME NEW t, SoundTree(t)
    PROVE  Within(t) \subseteq NodeKey
<1> DEFINE h == t.height
<1>1. h \in Nat /\ t.top \in Sound[h]
  BY DEF SoundTree
<1>2. t.top \in Nodes[h]
  <2>1. CASE h = 0
    BY <1>1, <2>1, Nowhere, NodesIs
  <2>2. CASE h # 0
    BY <1>1, <2>2, SoundParts DEF Shape
  <2> QED BY <2>1, <2>2
<1> HIDE DEF h
<1>3. HeldBelow[h] \in [Nodes[h] -> SUBSET NodeKey]
  BY <1>1, HeldTyped
<1>4. HeldBelow[h][t.top] \in SUBSET NodeKey
  BY <1>2, <1>3
<1> QED BY <1>4 DEF Within, h

\* The items of hash a in a tree.
OfHash(t, a) == {y \in Within(t) : HashOfItem(y) = a}

\* What a scan of the tree comes to.
LEMMA HitsAre ==
    ASSUME NEW t, SoundTree(t), NEW a \in Nat, NEW stops \in SUBSET NodeKey
    PROVE  /\ Scans(Hits(t, a, stops), OfHash(t, a), stops)
           /\ Hits(t, a, stops) = Hits(t, a, stops \cap OfHash(t, a))
<1> DEFINE h == t.height
           n == t.top
<1>1. h \in Nat /\ n \in Sound[h]
  BY DEF SoundTree
<1> HIDE DEF h, n
<1>2. ScanRight(h)
  BY <1>1, ScansAll
<1>3. /\ Scans(Scan[h][n][a][stops], Of(h, n, a), stops)
      /\ Scan[h][n][a][stops] = Scan[h][n][a][stops \cap Of(h, n, a)]
  BY <1>1, <1>2 DEF ScanRight
<1>4. OfHash(t, a) = Of(h, n, a)
  BY DEF OfHash, Of, Within, h, n
<1>5. \A some : Hits(t, a, some) = Scan[h][n][a][some]
  BY DEF Hits, h, n
<1> QED BY <1>3, <1>4, <1>5

\* What a scan of the tree comes to that nothing stops.
LEMMA AllHits ==
    ASSUME NEW t, SoundTree(t), NEW a \in Nat
    PROVE  /\ IsInjective(Hits(t, a, {}))
           /\ ToSet(Hits(t, a, {})) = OfHash(t, a)
<1>1. {} \in SUBSET NodeKey /\ {} \cap OfHash(t, a) = {}
  OBVIOUS
<1>2. Scans(Hits(t, a, {}), OfHash(t, a), {})
  BY <1>1, HitsAre
<1> QED BY <1>1, <1>2 DEF Scans, Lists

\* In a sound tree a search by hash finds all.
LEMMA SoundSearch == SoundTree(root) => SearchFindsAll
<1> SUFFICES ASSUME SoundTree(root), NEW x \in Items
             PROVE  LET a == HashOfItem(x)
                        hits == Hits(root, a, {})
                    IN  /\ IsInjective(hits)
                        /\ ToSet(hits) = {y \in Contents : HashOfItem(y) = a}
  BY DEF SearchFindsAll
<1>1. HashOfItem(x) \in Nat
  BY HashOrder, ItemsAssumption
<1>2. /\ IsInjective(Hits(root, HashOfItem(x), {}))
      /\ ToSet(Hits(root, HashOfItem(x), {})) = OfHash(root, HashOfItem(x))
  BY <1>1, AllHits
<1> QED BY <1>2 DEF OfHash, Contents, Within

\* In a sound tree a search gets to an item at which it is to stop.
LEMMA SoundStop == SoundTree(root) => StopIsReached
<1> SUFFICES ASSUME SoundTree(root) PROVE StopIsReached
  OBVIOUS
<1>1. ASSUME NEW x \in Items
      PROVE  Finds[root.height][root.top][x] <=> x \in Contents
  <2>1. root.height \in Nat /\ root.top \in Sound[root.height] /\ x \in NodeKey
    BY ItemsAssumption DEF SoundTree
  <2>2. FindsRight(root.height)
    BY <2>1, FindsAll
  <2> QED BY <2>1, <2>2 DEF FindsRight, Contents
<1>2. ASSUME NEW x \in Items,
             NEW stops \in SUBSET {y \in Contents : HashOfItem(y) = HashOfItem(x)},
             stops # {}
      PROVE  ToSet(Hits(root, HashOfItem(x), stops)) \cap stops # {}
  <2> DEFINE a == HashOfItem(x)
  <2>1. a \in Nat
    BY HashOrder, ItemsAssumption
  <2>2. {y \in Contents : HashOfItem(y) = a} = OfHash(root, a)
    BY DEF OfHash, Contents, Within
  <2> HIDE DEF a
  <2>3. OfHash(root, a) \subseteq NodeKey
    BY HeldKeys DEF OfHash
  <2>4. stops \subseteq OfHash(root, a)
    BY <2>2 DEF a
  <2>5. stops \in SUBSET NodeKey /\ stops \cap OfHash(root, a) # {}
    BY <1>2, <2>3, <2>4
  <2>6. Scans(Hits(root, a, stops), OfHash(root, a), stops)
    BY <2>1, <2>5, HitsAre
  <2>7. stops \cap ToSet(Hits(root, a, stops)) # {}
    BY <2>5, <2>6 DEF Scans
  <2> QED BY <2>7 DEF a
<1> QED BY <1>1, <1>2 DEF StopIsReached

(* A search by hash calls back for every item of that hash, and once,       *)
(* wherever in the tree they are (smmr_tree.c:557-618).                     *)
THEOREM SearchFinds == Spec => []SearchFindsAll
BY SoundSearch, RootIsSound, PTL

(* A search gets to an item at which the caller stops if there is one, and  *)
(* the search for one item finds it if and only if it is there              *)
(* (smmr_tree.c:586-605, 484-503).                                          *)
THEOREM StopReached == Spec => []StopIsReached
BY SoundStop, RootIsSound, PTL

-----------------------------------------------------------------------------
(* The promise to the store *)

\* The trees, of any height, whose items are among E.
TreesOf(E) ==
    UNION {{[height |-> h, top |-> n] :
              n \in {m \in Sound[h] : HeldBelow[h][m] \subseteq E /\ (h > 0 => m.keys # <<>>)}} :
           h \in Nat}

\* TreesOf has the sound trees.
LEMMA TreesAre ==
    ASSUME NEW E, NEW t
    PROVE  t \in TreesOf(E) <=> SoundTree(t) /\ Within(t) \subseteq E
<1>1. ASSUME t \in TreesOf(E) PROVE SoundTree(t) /\ Within(t) \subseteq E
  <2>1. PICK h \in Nat : \E n \in {m \in Sound[h] : HeldBelow[h][m] \subseteq E
                                      /\ (h > 0 => m.keys # <<>>)} :
                            t = [height |-> h, top |-> n]
    BY <1>1 DEF TreesOf
  <2>2. PICK n \in {m \in Sound[h] : HeldBelow[h][m] \subseteq E
                                      /\ (h > 0 => m.keys # <<>>)} :
              t = [height |-> h, top |-> n]
    BY <2>1
  <2>3. t.height = h /\ t.top = n
    BY <2>2
  <2> QED BY <2>2, <2>3 DEF SoundTree, Within
<1>2. ASSUME SoundTree(t), Within(t) \subseteq E PROVE t \in TreesOf(E)
  <2>1. /\ t = [height |-> t.height, top |-> t.top]
        /\ t.height \in Nat
        /\ t.top \in {m \in Sound[t.height] : HeldBelow[t.height][m] \subseteq E
                                      /\ (t.height > 0 => m.keys # <<>>)}
    BY <1>2 DEF SoundTree, Within
  <2> QED BY <2>1 DEF TreesOf
<1> QED BY <1>1, <1>2

(* The trees that hold entries of E keep all that IndexAssumption of        *)
(* SmmrStore asks of an index: the theorems about the store, which rest on  *)
(* it, hold over the B-tree of smmr_tree.c.                                 *)
THEOREM TreeKeepsPromise ==
    ASSUME NEW E \in SUBSET NodeKey
    PROVE  /\ EmptyTree \in TreesOf(E)
           /\ \A a \in Nat : ToSet(Hits(EmptyTree, a, {})) = {}
           /\ \A t \in TreesOf(E), a \in Nat :
                LET held == ToSet(Hits(t, a, {}))
                IN  /\ held \subseteq {x \in E : HashOfItem(x) = a}
                    /\ \A stops \in SUBSET NodeKey :
                         LET hits == Hits(t, a, stops)
                             met  == stops \cap held
                         IN  /\ hits \in Seq(held) /\ hits = Hits(t, a, met)
                             /\ met # {} => ToSet(hits) \cap met # {}
           /\ \A t \in TreesOf(E), x \in E :
                /\ {AddTree(t, x), RemoveTree(t, x)} \subseteq TreesOf(E)
                /\ \A a \in Nat :
                     /\ ToSet(Hits(AddTree(t, x), a, {}))
                          = ToSet(Hits(t, a, {})) \cup (IF HashOfItem(x) = a THEN {x} ELSE {})
                     /\ ToSet(Hits(RemoveTree(t, x), a, {})) = ToSet(Hits(t, a, {})) \ {x}
<1>1. EmptyTree \in TreesOf(E)
  BY EmptyTreeRight, TreesAre
<1>2. ASSUME NEW a \in Nat PROVE ToSet(Hits(EmptyTree, a, {})) = {}
  <2>1. OfHash(EmptyTree, a) = {}
    BY EmptyTreeRight DEF OfHash
  <2> QED BY <2>1, EmptyTreeRight, AllHits
<1>3. ASSUME NEW t \in TreesOf(E), NEW a \in Nat
      PROVE  ToSet(Hits(t, a, {})) \subseteq {x \in E : HashOfItem(x) = a}
  <2>1. SoundTree(t) /\ Within(t) \subseteq E
    BY TreesAre
  <2>2. ToSet(Hits(t, a, {})) = OfHash(t, a)
    BY <2>1, AllHits
  <2> QED BY <2>1, <2>2 DEF OfHash
<1>4. ASSUME NEW t \in TreesOf(E), NEW a \in Nat, NEW stops \in SUBSET NodeKey
      PROVE  LET held == ToSet(Hits(t, a, {}))
                 hits == Hits(t, a, stops)
                 met  == stops \cap held
             IN  /\ hits \in Seq(held) /\ hits = Hits(t, a, met)
                 /\ met # {} => ToSet(hits) \cap met # {}
  <2>1. SoundTree(t)
    BY TreesAre
  <2>2. ToSet(Hits(t, a, {})) = OfHash(t, a)
    BY <2>1, AllHits
  <2>3. /\ Scans(Hits(t, a, stops), OfHash(t, a), stops)
        /\ Hits(t, a, stops) = Hits(t, a, stops \cap OfHash(t, a))
    BY <2>1, HitsAre
  <2>4. /\ Hits(t, a, stops) \in Seq(OfHash(t, a))
        /\ stops \cap OfHash(t, a) # {} => stops \cap ToSet(Hits(t, a, stops)) # {}
    BY <2>3 DEF Scans
  <2>5. ToSet(Hits(t, a, stops)) \subseteq OfHash(t, a)
    <3> DEFINE s == Hits(t, a, stops)
               M == OfHash(t, a)
    <3>1. s \in Seq(M)
      BY <2>4
    <3> HIDE DEF s, M
    <3>2. ToSet(s) \subseteq M
      BY <3>1 DEF ToSet
    <3> QED BY <3>2 DEF s, M
  <2> QED BY <2>2, <2>3, <2>4, <2>5
<1>5. ASSUME NEW t \in TreesOf(E), NEW x \in E
      PROVE  /\ {AddTree(t, x), RemoveTree(t, x)} \subseteq TreesOf(E)
             /\ \A a \in Nat :
                  /\ ToSet(Hits(AddTree(t, x), a, {}))
                       = ToSet(Hits(t, a, {})) \cup (IF HashOfItem(x) = a THEN {x} ELSE {})
                  /\ ToSet(Hits(RemoveTree(t, x), a, {})) = ToSet(Hits(t, a, {})) \ {x}
  <2>1. SoundTree(t) /\ Within(t) \subseteq E /\ x \in NodeKey
    BY TreesAre
  <2>2. SoundTree(AddTree(t, x)) /\ Within(AddTree(t, x)) = Within(t) \cup {x}
    BY <2>1, AddTreeRight
  <2>3. SoundTree(RemoveTree(t, x)) /\ Within(RemoveTree(t, x)) = Within(t) \ {x}
    BY <2>1, RemoveTreeRight
  <2>4. AddTree(t, x) \in TreesOf(E) /\ RemoveTree(t, x) \in TreesOf(E)
    BY <2>1, <2>2, <2>3, TreesAre
  <2>5. ASSUME NEW a \in Nat
        PROVE  /\ ToSet(Hits(AddTree(t, x), a, {}))
                    = ToSet(Hits(t, a, {})) \cup (IF HashOfItem(x) = a THEN {x} ELSE {})
               /\ ToSet(Hits(RemoveTree(t, x), a, {})) = ToSet(Hits(t, a, {})) \ {x}
    <3>1. /\ ToSet(Hits(AddTree(t, x), a, {})) = OfHash(AddTree(t, x), a)
          /\ ToSet(Hits(RemoveTree(t, x), a, {})) = OfHash(RemoveTree(t, x), a)
          /\ ToSet(Hits(t, a, {})) = OfHash(t, a)
      BY <2>1, <2>2, <2>3, AllHits
    <3> QED BY <2>2, <2>3, <3>1 DEF OfHash
  <2> QED BY <2>4, <2>5
<1> QED BY <1>1, <1>2, <1>3, <1>4, <1>5
=============================================================================
