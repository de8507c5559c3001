------------------------------ MODULE SmmrHeap ------------------------------
(***************************************************************************)
(* What an allocator shared by several processes promises: the memory in   *)
(* use is a set of blocks, a new block lies apart from all of them, and a  *)
(* block stays in use until it is given back - or until the page it lies   *)
(* in is taken away from under it.                                         *)
(***************************************************************************)
EXTENDS Integers

CONSTANTS
    Pages,          \* the pages blocks lie in
    Room            \* bytes a page has for blocks

VARIABLES
    inUse,          \* the blocks in use
    held,           \* how many a page has: none is given out twice
    gone            \* the pages that were taken away

Block == [page : Pages, at : 0 .. Room, len : 1 .. Room]

Disjoint(x, y) ==
    x.page # y.page \/ x.at + x.len <= y.at \/ y.at + y.len <= x.at

Start == inUse = {} /\ held = [n \in Pages |-> 0] /\ gone = {}

Give ==
    /\ \E b \in inUse' \ inUse :
          /\ b \in Block /\ b.page \notin gone /\ b.at + b.len <= Room
          /\ \A x \in inUse : Disjoint(b, x)
          /\ inUse' = inUse \cup {b}
          /\ held' = [held EXCEPT ![b.page] = @ + 1]
    /\ gone' = gone

TakeBack ==
    /\ \E b \in inUse \ inUse' :
          /\ inUse' = inUse \ {b}
          /\ held' = [held EXCEPT ![b.page] = @ - 1]
    /\ gone' = gone

TakePage ==
    \E n \in gone' \ gone :
        /\ gone' = gone \cup {n}
        /\ inUse' = {b \in inUse : b.page # n}
        /\ held' = [held EXCEPT ![n] = 0]

Promise == Start /\ [][Give \/ TakeBack \/ TakePage]_<<inUse, held, gone>>
=============================================================================
