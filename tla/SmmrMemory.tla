----------------------------- MODULE SmmrMemory -----------------------------
(***************************************************************************)
(* The allocator of deps/smmr, smmr_memory.c: what it does to one page and *)
(* how it chooses a page.                                                  *)
(*                                                                         *)
(* A page holds two lists of items, those handed out and those given back, *)
(* and behind all items one bucket from which new items are cut.  Bitmaps  *)
(* in the category's first page say where a request may be worth a look;   *)
(* only a rebuild writes them.  An item given back is never cut or merged: *)
(* it is handed out again whole, once a rebuild has made it known.         *)
(*                                                                         *)
(* A call that hands out or takes back an item has two halves: the item    *)
(* leaves the place it had, and is then linked to the end of a list.  In   *)
(* between no list holds it; it stays so when the process is killed there. *)
(*                                                                         *)
(* The linked lists are sequences in link order, and offsets count from    *)
(* the first byte behind the page's three root items.                      *)
(***************************************************************************)
EXTENDS Integers, Sequences, FiniteSets

CONSTANTS
    NPages,         \* pages of a category that hold items
    Room,           \* MMSIZ_BCKT_INIT_SIZE, what a page has for items
    Slack,          \* bytes the page has behind its bucket, MMPOS_ROOT_SIZE
    HeadSize,       \* size of an item's header
    HF,             \* MMSIZ_HF_SIZE, size of its header and footer
    Limit,          \* the sizes 32, 128, 512 and 2048 that part the bitmaps
    Word            \* 2^32, at which the size of the free room wraps

Pages == 1 .. NPages
\* Bitmap classes: 0 is for recycled items only.
DcClasses == 1 .. 4
RecycleClasses == 0 .. 4

ASSUME MemoryAssumption ==
    /\ NPages \in Nat \ {0}
    /\ HeadSize \in Nat \ {0} /\ HF \in Nat /\ HF > HeadSize
    /\ Slack \in Nat /\ Slack >= HeadSize
    /\ Room \in Nat /\ Room > HF
    /\ Limit \in [DcClasses -> Nat \ {0}]
    /\ \A i, j \in DcClasses : i < j => Limit[i] < Limit[j]
    /\ Word \in Nat /\ Word > Room + HF * Room

\* root: the item begins with the signature of a tree's root.
Item == [at : Nat, len : Nat \ {0}, root : BOOLEAN]

Page == [known : BOOLEAN,           \* its root items have been written
         used : Seq(Item), free : Seq(Item),
         moving : Seq(Item),        \* taken out and not linked again
         bucket : Nat, left : Nat,  \* where the bucket starts, and its length
         dc : SUBSET DcClasses, recycle : SUBSET RecycleClasses,
         err : BOOLEAN]

\* A page of a new category file: all zero.
Blank == [known |-> FALSE, used |-> <<>>, free |-> <<>>, moving |-> <<>>,
          bucket |-> 0, left |-> 0, dc |-> {}, recycle |-> {}, err |-> FALSE]

-----------------------------------------------------------------------------
(* Handing out *)

\* The smallest class whose items all hold a request of q bytes.
StartClass(q) ==
    IF q > Limit[3] THEN 3 ELSE IF q > Limit[2] THEN 2
    ELSE IF q > Limit[1] THEN 1 ELSE 0

DcClass(c) == IF c = 0 THEN 1 ELSE c

\* _find_freeitem_over_size: the items given back that hold q bytes.
Fitting(r, q) == {i \in DOMAIN r.free : r.free[i].len >= q + HF}

\* Slip: the header and the footer of the new item are not counted.
CanInsertBare(r, c, q) == DcClass(c) \in r.dc /\ r.left >= q

CanRecycle(r, c, q) == c \in r.recycle /\ Fitting(r, q) # {}
CanInsert(r, c, q) == DcClass(c) \in r.dc /\ r.left >= q + HF

\* Slip: the item stays in the list of those given back.
TakenTwice(r, i) == [r EXCEPT !.moving = Append(@, r.free[i])]

Without(s, i) == [j \in 1 .. Len(s) - 1 |-> IF j < i THEN s[j] ELSE s[j + 1]]

(* _operate_recycle up to 809: the item is cut out of those given back.     *)
Taken(r, i) ==
    [r EXCEPT !.free = Without(@, i), !.moving = Append(@, r.free[i])]

(* _operate_insert up to 711: it is cut from the start of the bucket.       *)
Cut(r, q) ==
    [r EXCEPT !.moving = Append(@, [at |-> r.bucket, len |-> q + HF, root |-> FALSE]),
              !.bucket = @ + q + HF,
              !.left = @ - (q + HF)]

FirstFit(r, q) == {i \in Fitting(r, q) : \A j \in Fitting(r, q) : i <= j}

(* What the first half of shmalloc makes of the page it chose.              *)
Picked(r, c, q) ==
    IF CanRecycle(r, c, q)
    THEN {Taken(r, i) : i \in FirstFit(r, q)}
    ELSE {Cut(r, q)}

(* The second half: the item becomes the last one of those handed out.      *)
Handed(r, i) ==
    [r EXCEPT !.moving = Without(@, i), !.used = Append(@, r.moving[i])]

\* The item just handed out becomes the root of a tree.
Signed(r) == [r EXCEPT !.used[Len(r.used)].root = TRUE]

(* Where shmalloc looks: class by class, in each class page by page.        *)
Offers(pages, q) ==
    {o \in (StartClass(q) .. 4) \X Pages :
        LET r == pages[o[2]]
        IN ~r.err /\ (CanRecycle(r, o[1], q) \/ CanInsert(r, o[1], q))}

\* The first of pairs, in a set; the empty set for a NULL result.
Foremost(S) ==
    {x \in S : \A y \in S : x[1] < y[1] \/ (x[1] = y[1] /\ x[2] <= y[2])}

-----------------------------------------------------------------------------
(* Giving back and rebuilding *)

\* Slip: the item is not taken out of the used list.
DroppedStays(r, i) == [r EXCEPT !.moving = Append(@, r.used[i])]

(* shmfree: the item is cut out of those handed out, and then becomes the   *)
(* last one of those given back; no bitmap learns of it.                    *)
Dropped(r, i) ==
    [r EXCEPT !.used = Without(@, i), !.moving = Append(@, r.used[i])]
Returned(r, i) ==
    [r EXCEPT !.moving = Without(@, i), !.free = Append(@, r.moving[i])]

\* _shrink_backet_recycle: nothing given back, and the bucket is all the room.
Shrunk(r) ==
    [r EXCEPT !.free = <<>>, !.moving = <<>>, !.bucket = 0, !.left = Room,
              !.dc = DcClasses, !.recycle = {}]

\* rebuild_pages_area writes the root items of a page that has none.
Prepared(r) ==
    IF r.known THEN r
    ELSE [Shrunk(r) EXCEPT !.known = TRUE, !.err = FALSE]

ClassesBelow(size) == {i \in DcClasses : size > Limit[i]}

Sizes(s) ==
    LET sum[n \in 0 .. Len(s)] == IF n = 0 THEN 0 ELSE sum[n - 1] + s[n].len
    IN sum[Len(s)]

(* The free room of a page for its bitmap: every item is charged with its   *)
(* length, which includes header and footer, and with these once more; the  *)
(* subtraction is one of 32 bits.                                           *)
Remain(r) == (Room - Sizes(r.used) - HF * Len(r.used)) % Word

\* What a rebuild has done to the page before it walks its lists.
Cleared(r) == [r EXCEPT !.dc = {}, !.recycle = {}]

(* A walk over the lists that meets an item which is not of the list it     *)
(* walks, be it that there is no list: the page is not used any more.       *)
Erroneous(r) == [Cleared(r) EXCEPT !.err = TRUE]

\* Slip: an item that is just large enough for a class is left out.
MarkedStrict(r) ==
    [r EXCEPT !.err = FALSE,
              !.dc = ClassesBelow(Remain(r)),
              !.recycle = UNION {ClassesBelow(r.free[i].len - HF - 1) : i \in DOMAIN r.free}]

(* _rebuild_bitmap_and_pagesummary up to the bitmaps.                       *)
Marked(r) ==
    IF ~r.known THEN Erroneous(r)
    ELSE [r EXCEPT !.err = FALSE,
                   !.dc = ClassesBelow(Remain(r)),
                   !.recycle = UNION {{0} \cup ClassesBelow(r.free[i].len - HF)
                                      : i \in DOMAIN r.free}]

-----------------------------------------------------------------------------
(* What the lists promise *)

Apart(x, y) == x.at + x.len <= y.at \/ y.at + y.len <= x.at

\* Items of one list, and of two, do not overlap.
ListApart(s) == \A i, j \in DOMAIN s : i # j => Apart(s[i], s[j])
ListsApart(s, t) == \A i \in DOMAIN s, j \in DOMAIN t : Apart(s[i], t[j])

Before(s, n) == \A i \in DOMAIN s : s[i].at + s[i].len <= n

(* All items lie before the bucket, and the header that is written at its   *)
(* start, however little is left of it, lies inside the page.               *)
PageSound(r) ==
    /\ ListApart(r.used) /\ ListApart(r.free) /\ ListApart(r.moving)
    /\ ListsApart(r.used, r.free) /\ ListsApart(r.used, r.moving)
    /\ ListsApart(r.free, r.moving)
    /\ \A s \in {r.used, r.free, r.moving} : Before(s, r.bucket)
    /\ r.bucket + r.left <= Room
    /\ r.bucket + HeadSize <= Room + Slack
=============================================================================
