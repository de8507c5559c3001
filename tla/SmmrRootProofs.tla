--------------------------- MODULE SmmrRootProofs ---------------------------
(***************************************************************************)
(* Proofs about the tree's root, the pages that are reset and the heap     *)
(* that all this is, for any number of processes that share a category.    *)
(*                                                                         *)
(* The argument: when everybody waited for the server, nobody rebuilds     *)
(* while the root is made, for a process that makes a root holds one       *)
(* mutex, and to be under the other it has to have a tree already.  From   *)
(* then on the root's page is never found empty, and nobody finds a reason *)
(* to make another root.  When nobody but the server rebuilds either, who  *)
(* rebuilds is alone with the category, so a page found empty is still     *)
(* empty, and nothing of it is on its way, when it is reset.               *)
(***************************************************************************)
EXTENDS SmmrCategoryProofs

\* What a process holds, or has, according to what it is about.
Owners == \A p \in Procs :
    /\ pc[p] \in {"making", "rebuilding"} => allMutex = p
    /\ pc[p] \in {"inside", "printing"} => catMutex = p
    /\ pc[p] \in {"idle", "wantCategory", "inside", "printing"} => tree[p] # NoItem
    /\ pc[p] = "preparing" => p = Server
    /\ pc[p] = "rebuilding" => again
    /\ call[p] # NoItem => pc[p] \in {"making", "inside", "dead"}

\* Nobody is there before the pages are prepared, unless somebody came early.
Timeline ==
    /\ pc[Server] \in {"off", "preparing"} => ~prepared
    /\ ~prepared => pc[Server] \in {"off", "preparing", "dead"}
    /\ ~prepared /\ ~early => \A p \in Procs \ {Server} : pc[p] = "off"

Resetting(p) == pc[p] \in Rebuilding /\ walk[p].todo = "reset"

\* Items that may become a tree's root.
RootSized(s) == \A i \in DOMAIN s : s[i].len = RootSize + HF

Unrooted ==
    /\ lost = {}
    /\ \A n \in Pages :
          pages[n].used = <<>> /\ pages[n].free = <<>> /\ RootSized(pages[n].moving)
    /\ \A p \in Procs : tree[p] = NoItem

\* The one root is the first item of page m, m is about to be reset by no one,
\* and nobody has an item for another root.
RootedAt(m) ==
    /\ m \notin lost
    /\ pages[m].used # <<>>
    /\ pages[m].used[1].root /\ pages[m].used[1].len = RootSize + HF
    /\ \A n \in Pages : \A i \in DOMAIN pages[n].used :
          pages[n].used[i].root => n = m /\ i = 1
    /\ \A p \in Procs : tree[p] # NoItem => tree[p] = RootOf(m, pages[m].used[1])
    /\ \A p \in Procs : Resetting(p) => walk[p].page # m
    /\ \A p \in Procs : pc[p] = "making" => call[p] = NoItem

OneRoot == ~early => Unrooted \/ \E m \in Pages : RootedAt(m)

Resets == ~early /\ ~again =>
    /\ lost = {}
    /\ \A p \in Procs : Resetting(p) => pages[walk[p].page].used = <<>>

-----------------------------------------------------------------------------
(* Making the tree, and the calls of the allocator *)

LEMMA MadeTree ==
    ASSUME TypeOK, PagesRight, NEW p \in Procs, MakeTree(p)
    PROVE  \/ \E x \in Roots :
                 /\ tree' = [tree EXCEPT ![p] = RootOf(x[1], pages[x[1]].used[x[2]])]
                 /\ RootOf(x[1], pages[x[1]].used[x[2]]) \in Handle
                 /\ Becomes(p, "idle") /\ allMutex' = NoProc /\ UNCHANGED <<pages, call>>
           \/ /\ Roots = {} /\ UNCHANGED <<pc, allMutex, tree>>
              /\ \E n \in Pages, x \in Item : \E r :
                    /\ Begins(p, n, r, x, "used")
                    /\ r.used = pages[n].used
                    /\ pages[n].free = <<>> => r.free = <<>> /\ x.len = RootSize + HF
           \/ /\ Becomes(p, "dead") \/ (p # Server /\ Becomes(p, "off"))
              /\ allMutex' = NoProc /\ UNCHANGED <<pages, call, tree>>
<1>1. pages \in [Pages -> Page] /\ lost = {}
  BY DEF TypeOK, MakeTree
<1>2. \A n \in Pages : PageRight(pages[n]) /\ pages[n].used \in Seq(Item)
  BY <1>1, PageParts DEF PagesRight, PageRight
<1>3. CASE \E x \in Foremost(Roots) :
              /\ tree' = [tree EXCEPT ![p] = RootOf(x[1], pages[x[1]].used[x[2]])]
              /\ allMutex' = NoProc
              /\ Becomes(p, "idle")
              /\ UNCHANGED <<pages, call>>
  <2>1. PICK x \in Roots :
              /\ tree' = [tree EXCEPT ![p] = RootOf(x[1], pages[x[1]].used[x[2]])]
              /\ allMutex' = NoProc
              /\ Becomes(p, "idle")
              /\ UNCHANGED <<pages, call>>
    BY <1>3 DEF Foremost
  <2>2. x[1] \in Pages /\ x[2] \in DOMAIN pages[x[1]].used
    BY DEF Roots
  <2>3. pages[x[1]].used[x[2]] \in Item
    BY <1>2, <2>2, ElementOfSeq, LenProperties
  <2> QED BY <2>1, <2>2, <2>3 DEF RootOf, Handle, Item
<1>4. CASE Roots = {} /\ Shmalloc(p, RootSize) /\ UNCHANGED <<pc, allMutex, tree>>
  <2>1. RootSize \in Nat
    BY CategoryAssumption
  <2> QED BY <1>1, <1>4, <2>1, Obtained
<1>5. CASE /\ Becomes(p, IF p = Server THEN "dead" ELSE "off")
           /\ allMutex' = NoProc
           /\ UNCHANGED <<pages, call, tree>>
  BY <1>5
<1> QED BY <1>3, <1>4, <1>5 DEF MakeTree

\* Page n gets one more item in use, and no other page changes.
Gets(n, x) ==
    /\ pages' = [pages EXCEPT ![n] = pages'[n]]
    /\ pages'[n].used = Append(pages[n].used, x)
    /\ x.at + x.len <= Room
    /\ \A j \in DOMAIN pages[n].used : Apart(x, pages[n].used[j])

LEMMA RootMadeIs ==
    ASSUME TypeOK, PagesRight, NEW p \in Procs, RootMade(p)
    PROVE  \E n \in Pages : \E i \in DOMAIN pages[n].moving : \E y \in Item :
              /\ y.root /\ y.len = pages[n].moving[i].len
              /\ Gets(n, y)
              /\ tree' = [tree EXCEPT ![p] = RootOf(n, y)] /\ RootOf(n, y) \in Handle
<1> DEFINE n == call[p].page
<1>1. pages \in [Pages -> Page] /\ call[p] # NoItem /\ lost = {}
  BY DEF TypeOK, RootMade
<1>2. PICK i \in OnTheWay(p) :
         /\ pages' = [pages EXCEPT ![n] = Signed(Handed(pages[n], i))]
         /\ tree' = [tree EXCEPT ![p] = RootOf(n, pages[n].moving[i])]
  BY <1>1 DEF RootMade
<1>3. n \in Pages /\ PageRight(pages[n]) /\ i \in DOMAIN pages[n].moving
  BY <1>1, OnTheWayIs
<1> HIDE DEF n
<1> DEFINE x == pages[n].moving[i]
<1>4. /\ PageRight(Handed(pages[n], i)) /\ Handed(pages[n], i).used = Append(pages[n].used, x)
      /\ x \in Item /\ x.at + x.len <= Room
      /\ \A j \in DOMAIN pages[n].used : Apart(x, pages[n].used[j])
  BY <1>3, HandedRight
<1>5. pages[n].used \in Seq(Item)
  BY <1>3, PageParts DEF PageRight
<1> HIDE DEF x
<1>6. PICK y \in Item : y = [x EXCEPT !.root = TRUE]
  BY <1>4 DEF Item
<1>7. Signed(Handed(pages[n], i)).used = Append(pages[n].used, y)
  BY <1>4, <1>5, <1>6, SignedRight
<1>8. pages'[n] = Signed(Handed(pages[n], i)) /\ pages' = [pages EXCEPT ![n] = pages'[n]]
  BY <1>1, <1>2, <1>3
<1>9. y.root /\ y.len = x.len /\ y.at = x.at
  BY <1>4, <1>6 DEF Item
<1>10. Gets(n, y)
  BY <1>4, <1>7, <1>8, <1>9 DEF Gets, Apart
<1>11. RootOf(n, x) = RootOf(n, y) /\ RootOf(n, y) \in Handle
  BY <1>3, <1>9 DEF RootOf, Handle, Item
<1> QED BY <1>2, <1>3, <1>9, <1>10, <1>11 DEF x

LEMMA LinkIs ==
    ASSUME TypeOK, PagesRight, NEW p \in Procs, Link(p)
    PROVE  \/ /\ call[p].to = "used"
              /\ \E n \in Pages, x \in Item : ~x.root /\ Gets(n, x)
           \/ /\ call[p].to # "used"
              /\ \A n \in Pages : pages'[n].used = pages[n].used
<1> DEFINE n == call[p].page
<1>1. pages \in [Pages -> Page] /\ call[p] # NoItem /\ lost = {}
  BY DEF TypeOK, Link
<1>2. PICK i \in OnTheWay(p) :
         pages' = [pages EXCEPT ![n] = IF call[p].to = "used" THEN Handed(pages[n], i)
                                                              ELSE Returned(pages[n], i)]
  BY <1>1 DEF Link
<1>3. n \in Pages /\ PageRight(pages[n]) /\ i \in DOMAIN pages[n].moving
  BY <1>1, OnTheWayIs
<1> HIDE DEF n
<1>4. CASE call[p].to = "used"
  <2> DEFINE x == pages[n].moving[i]
  <2>1. /\ Handed(pages[n], i).used = Append(pages[n].used, x)
        /\ x \in Item /\ ~x.root /\ x.at + x.len <= Room
        /\ \A j \in DOMAIN pages[n].used : Apart(x, pages[n].used[j])
    BY <1>3, HandedRight
  <2> HIDE DEF x
  <2>2. pages'[n] = Handed(pages[n], i) /\ pages' = [pages EXCEPT ![n] = pages'[n]]
    BY <1>1, <1>2, <1>3, <1>4
  <2>3. Gets(n, x)
    BY <2>1, <2>2 DEF Gets
  <2> QED BY <1>3, <1>4, <2>1, <2>3
<1>5. CASE call[p].to # "used"
  <2>1. Returned(pages[n], i).used = pages[n].used
    BY <1>3, ReturnedRight
  <2>2. pages' = [pages EXCEPT ![n] = Returned(pages[n], i)]
    BY <1>2, <1>5
  <2> QED BY <1>1, <1>3, <1>5, <2>1, <2>2
<1> QED BY <1>4, <1>5

LEMMA FreeIs ==
    ASSUME TypeOK, PagesRight, NEW p \in Procs, Free(p)
    PROVE  \E n \in Pages : \E i \in DOMAIN pages[n].used :
              /\ ~pages[n].used[i].root
              /\ pages' = [pages EXCEPT ![n] = pages'[n]]
              /\ pages'[n].used = Without(pages[n].used, i)
              /\ \E c : call' = [call EXCEPT ![p] = c]
<1>1. pages \in [Pages -> Page] /\ lost = {}
  BY DEF TypeOK, Free
<1>2. PICK n \in Pages : \E i \in DOMAIN pages[n].used :
         ~pages[n].used[i].root /\ Shmfree(p, n, i)
  BY DEF Free
<1>3. PICK i \in DOMAIN pages[n].used : ~pages[n].used[i].root /\ Shmfree(p, n, i)
  BY <1>2
<1>4. /\ Begins(p, n, Dropped(pages[n], i), pages[n].used[i], "free")
      /\ Dropped(pages[n], i).used = Without(pages[n].used, i)
  BY <1>1, <1>3, Released
<1>5. pages'[n] = Dropped(pages[n], i) /\ pages' = [pages EXCEPT ![n] = pages'[n]]
  BY <1>1, <1>4 DEF Begins
<1> QED BY <1>3, <1>4, <1>5 DEF Begins

-----------------------------------------------------------------------------
(* Who holds what, and what happened before *)

LEMMA PageDoneOwned ==
    ASSUME TypeOK, Owners, Timeline, NEW p \in Procs, pc[p] \in Rebuilding, PageDone(p),
           UNCHANGED <<call, tree, early, again>>
    PROVE  Owners' /\ Timeline'
<1>1. pc \in [Procs -> States] /\ Server \in Procs
  BY CategoryAssumption DEF TypeOK
<1>2. CASE walk[p].page < NPages
  BY <1>2 DEF PageDone, procVars, Owners, Timeline
<1>3. CASE ~(walk[p].page < NPages)
  <2>1. /\ pc' = [pc EXCEPT ![p] = IF pc[p] = "printing" THEN "idle" ELSE "wantTree"]
        /\ allMutex' = IF pc[p] = "rebuilding" THEN NoProc ELSE allMutex
        /\ catMutex' = IF pc[p] = "printing" THEN NoProc ELSE catMutex
        /\ prepared' = (prepared \/ pc[p] = "preparing")
    BY <1>3 DEF PageDone, Becomes
  <2>2. CASE pc[p] = "printing"
    BY <1>1, <2>1, <2>2 DEF Owners, Timeline
  <2>3. CASE pc[p] = "rebuilding"
    BY <1>1, <2>1, <2>3 DEF Owners, Timeline
  <2>4. CASE pc[p] = "preparing"
    BY <1>1, <2>1, <2>4 DEF Owners, Timeline
  <2> QED BY <2>2, <2>3, <2>4 DEF Rebuilding
<1> QED BY <1>2, <1>3

LEMMA OwnersStep ==
    ASSUME TypeOK, PagesRight, Owners, Timeline, [Next]_vars
    PROVE  Owners' /\ Timeline'
<1>1. /\ pc \in [Procs -> States] /\ Server \in Procs /\ NoProc \notin Procs
      /\ tree \in [Procs -> Handle \cup {NoItem}] /\ call \in [Procs -> Call \cup {NoItem}]
  BY CategoryAssumption DEF TypeOK
<1> DEFINE Kept == Owners' /\ Timeline'
<1>2. CASE ServerStart
  BY <1>1, <1>2 DEF ServerStart, Becomes, history, Owners, Timeline
<1>3. CASE ServerStop
  BY <1>1, <1>3 DEF ServerStop, Becomes, history, Owners, Timeline
<1>4. ASSUME NEW p \in Procs, ClientJoin(p) PROVE Kept
  BY <1>1, <1>4 DEF ClientJoin, Becomes, Owners, Timeline
<1>5. ASSUME NEW p \in Procs, ClientLeave(p) PROVE Kept
  BY <1>1, <1>5 DEF ClientLeave, Becomes, history, Owners, Timeline
<1>6. ASSUME NEW p \in Procs, Kill(p) PROVE Kept
  BY <1>1, <1>6 DEF Kill, Becomes, history, Owners, Timeline
<1>7. ASSUME NEW p \in Procs, RebuildBegin(p) PROVE Kept
  BY <1>1, <1>7 DEF RebuildBegin, Becomes, Owners, Timeline
<1>8. ASSUME NEW p \in Procs, PrintBegin(p) PROVE Kept
  BY <1>1, <1>8 DEF PrintBegin, Becomes, history, Owners, Timeline
<1>9. ASSUME NEW p \in Procs, RebuildClear(p) PROVE Kept
  BY <1>9 DEF RebuildClear, procVars, history, Owners, Timeline
<1>10. ASSUME NEW p \in Procs, RebuildMark(p) PROVE Kept
  <2>1. /\ pc[p] \in Rebuilding /\ UNCHANGED <<call, tree, early, again>>
        /\ UNCHANGED <<procVars, prepared>> \/ PageDone(p)
    BY <1>10 DEF RebuildMark, At, history
  <2>2. CASE UNCHANGED <<procVars, prepared>>
    BY <2>1, <2>2 DEF procVars, Owners, Timeline
  <2> QED BY <2>1, <2>2, PageDoneOwned
<1>11. ASSUME NEW p \in Procs, RebuildReset(p) PROVE Kept
  BY <1>11, PageDoneOwned DEF RebuildReset, At
<1>12. ASSUME NEW p \in Procs, TreeBegin(p) PROVE Kept
  BY <1>1, <1>12 DEF TreeBegin, Becomes, history, Owners, Timeline
<1>13. ASSUME NEW p \in Procs, MakeTree(p) PROVE Kept
  <2>1. pc[p] = "making" /\ call[p] = NoItem /\ UNCHANGED <<catMutex, prepared, early, again>>
    BY <1>13 DEF MakeTree, history
  <2>2. \/ /\ Becomes(p, "idle") /\ \E h \in Handle : tree' = [tree EXCEPT ![p] = h]
           /\ allMutex' = NoProc /\ call' = call
        \/ /\ UNCHANGED <<pc, allMutex, tree>>
           /\ \E c : call' = [call EXCEPT ![p] = c]
        \/ /\ Becomes(p, "dead") \/ (p # Server /\ Becomes(p, "off"))
           /\ allMutex' = NoProc /\ UNCHANGED <<call, tree>>
    BY <1>13, MadeTree DEF Begins
  <2>3. NoItem \notin Handle
    BY CategoryAssumption DEF Handle
  <2>4. CASE /\ Becomes(p, "idle") /\ \E h \in Handle : tree' = [tree EXCEPT ![p] = h]
             /\ allMutex' = NoProc /\ call' = call
    BY <1>1, <2>1, <2>3, <2>4 DEF Becomes, Owners, Timeline
  <2>5. CASE /\ UNCHANGED <<pc, allMutex, tree>>
             /\ \E c : call' = [call EXCEPT ![p] = c]
    BY <1>1, <2>1, <2>5 DEF Owners, Timeline
  <2>6. CASE /\ Becomes(p, "dead") \/ (p # Server /\ Becomes(p, "off"))
             /\ allMutex' = NoProc /\ UNCHANGED <<call, tree>>
    BY <1>1, <2>1, <2>6 DEF Becomes, Owners, Timeline
  <2> QED BY <2>2, <2>4, <2>5, <2>6
<1>20. ASSUME NEW p \in Procs, RootMade(p) PROVE Kept
  <2>1. /\ pc[p] = "making" /\ Becomes(p, "idle") /\ allMutex' = NoProc
        /\ call' = [call EXCEPT ![p] = NoItem] /\ UNCHANGED <<catMutex, prepared, early, again>>
    BY <1>20 DEF RootMade, history
  <2>2. \E h \in Handle : tree' = [tree EXCEPT ![p] = h]
    BY <1>20, RootMadeIs
  <2>3. NoItem \notin Handle
    BY CategoryAssumption DEF Handle
  <2> QED BY <1>1, <2>1, <2>2, <2>3 DEF Becomes, Owners, Timeline
<1>14. ASSUME NEW p \in Procs, WantCategory(p) PROVE Kept
  BY <1>1, <1>14 DEF WantCategory, Becomes, history, Owners, Timeline
<1>15. ASSUME NEW p \in Procs, CategoryBegin(p) PROVE Kept
  BY <1>1, <1>15 DEF CategoryBegin, Becomes, history, Owners, Timeline
\* Within an operation only its call changes.
<1>16. ASSUME NEW p \in Procs, pc[p] = "inside", UNCHANGED <<procVars, tree, prepared, history>>,
              \E c : call' = [call EXCEPT ![p] = c]
       PROVE  Kept
  BY <1>1, <1>16 DEF procVars, history, Owners, Timeline
<1>17. ASSUME NEW p \in Procs, Allocate(p) \/ Free(p) \/ Link(p) PROVE Kept
  <2>1. pc[p] = "inside" /\ UNCHANGED <<procVars, tree, prepared, history>>
    BY <1>17 DEF Allocate, Free, Link
  <2>2. \E c : call' = [call EXCEPT ![p] = c]
    BY <1>17 DEF Allocate, Free, Link, Shmalloc, Shmfree, Takes
  <2> QED BY <1>16, <2>1, <2>2
<1>18. ASSUME NEW p \in Procs, CategoryEnd(p) PROVE Kept
  BY <1>1, <1>18 DEF CategoryEnd, Becomes, history, Owners, Timeline
<1>19. CASE UNCHANGED vars
  BY <1>19 DEF vars, Owners, Timeline
<1> QED BY <1>2, <1>3, <1>4, <1>5, <1>6, <1>7, <1>8, <1>9, <1>10, <1>11, <1>12, <1>13, <1>14,
           <1>15, <1>17, <1>18, <1>19, <1>20 DEF Next

-----------------------------------------------------------------------------
(* Steps that hand out and take back nothing *)

\* Items are neither given back nor on the way where there were none.
Idle ==
    \A n \in Pages :
        /\ pages[n].free = <<>> => pages'[n].free = <<>>
        /\ pages'[n].moving \in {pages[n].moving, <<>>}

\* The items in use and the root stay; a page found empty may become one to
\* be reset, and a reset page with an item in use or on its way is lost.
Quiet ==
    /\ early' \in BOOLEAN /\ (early => early') /\ (again => again')
    /\ \A n \in Pages : pages'[n].used = pages[n].used
    /\ Idle \/ \E p \in Procs : pc[p] = "inside"
    /\ \A p \in Procs : tree'[p] \in {tree[p], NoItem}
    /\ \A p \in Procs : Resetting(p)' =>
          \/ Resetting(p) /\ walk'[p] = walk[p]
          \/ pages[walk'[p].page].used = <<>> /\ walk'[p].page \in Pages
    /\ \/ lost' = lost
       \/ \E n \in Pages :
             /\ lost' = lost \cup {n} /\ (pages[n].used # <<>> \/ Moved(n))
             /\ \E p \in Procs : Resetting(p) /\ walk[p].page = n
    /\ \A p \in Procs : pc'[p] = "making" /\ call'[p] # NoItem =>
          pc[p] = "making" /\ call[p] # NoItem

LEMMA PageDoneReset ==
    ASSUME TypeOK, NEW p \in Procs, walk[p].page \in Pages, PageDone(p)
    PROVE  \A q \in Procs : Resetting(q)' => Resetting(q) /\ walk'[q] = walk[q]
  BY PageDoneTyped DEF Resetting

LEMMA PageDoneMaking ==
    ASSUME TypeOK, NEW p \in Procs, PageDone(p), pc[p] \in Rebuilding, call' = call
    PROVE  \A q \in Procs : pc'[q] = "making" /\ call'[q] # NoItem =>
              pc[q] = "making" /\ call[q] # NoItem
  BY DEF PageDone, procVars, Becomes, Rebuilding, TypeOK

LEMMA PagesSame ==
    ASSUME NEW b \in Page
    PROVE  /\ \A r \in {Cleared(b), Erroneous(b), Marked(b)} :
                r.used = b.used /\ r.free = b.free /\ r.moving = b.moving
           /\ \A r \in {Shrunk(b), Prepared(b)} :
                /\ r.used = b.used /\ (b.free = <<>> => r.free = <<>>)
                /\ r.moving \in {b.moving, <<>>}
           /\ Prepared(b) \in Page
<1>1. /\ Cleared(b).used = b.used /\ Cleared(b).free = b.free /\ Cleared(b).moving = b.moving
      /\ Erroneous(b).used = b.used /\ Erroneous(b).free = b.free
      /\ Erroneous(b).moving = b.moving
  BY DEF Cleared, Erroneous, Page
<1>2. Marked(b).used = b.used /\ Marked(b).free = b.free /\ Marked(b).moving = b.moving
  <2>1. CASE ~b.known
    BY <1>1, <2>1 DEF Marked
  <2>2. CASE b.known
    <3> DEFINE d == ClassesBelow(Remain(b))
               c == UNION {{0} \cup ClassesBelow(b.free[i].len - HF) : i \in DOMAIN b.free}
    <3>1. Marked(b) = [b EXCEPT !.err = FALSE, !.dc = d, !.recycle = c]
      BY <2>2 DEF Marked
    <3> HIDE DEF d, c
    <3> QED BY <3>1 DEF Page
  <2> QED BY <2>1, <2>2
<1>3. Shrunk(b).used = b.used /\ Shrunk(b).free = <<>> /\ Shrunk(b).moving = <<>>
  BY DEF Shrunk, Page
<1>4. /\ Prepared(b).used = b.used /\ (b.free = <<>> => Prepared(b).free = <<>>)
      /\ Prepared(b).moving \in {b.moving, <<>>} /\ Prepared(b) \in Page
  <2>1. CASE b.known
    BY <2>1 DEF Prepared
  <2>2. CASE ~b.known
    <3>1. Shrunk(b) \in Page /\ Prepared(b) = [Shrunk(b) EXCEPT !.known = TRUE, !.err = FALSE]
      BY <2>2, ShrunkTyped DEF Prepared
    <3> QED BY <1>3, <3>1 DEF Page
  <2> QED BY <2>1, <2>2
<1> QED BY <1>1, <1>2, <1>3, <1>4

LEMMA QuietStep ==
    ASSUME TypeOK, PagesRight, Owners, TypeOK', [Next]_vars
    PROVE  \/ Quiet
           \/ \E p \in Procs :
                 \/ MakeTree(p) \/ RootMade(p) \/ Free(p)
                 \/ Link(p) /\ call[p].to = "used"
<1>1. /\ pages \in [Pages -> Page] /\ pc \in [Procs -> States] /\ Server \in Procs
      /\ tree \in [Procs -> Handle \cup {NoItem}]
      /\ walk \in [Procs -> [page : 0 .. NPages, todo : {"clear", "mark", "reset"}]]
      /\ call \in [Procs -> Call \cup {NoItem}]
      /\ early \in BOOLEAN /\ early' \in BOOLEAN
      /\ lost \subseteq Pages /\ lost' \subseteq Pages
  BY CategoryAssumption DEF TypeOK
<1>2. FirstPage.todo = "clear"
  BY DEF FirstPage, NoWalk
<1>3. CASE ServerStart
  BY <1>1, <1>2, <1>3 DEF ServerStart, Becomes, history, Quiet, Idle, Resetting
<1>4. CASE ServerStop
  BY <1>1, <1>4 DEF ServerStop, Becomes, history, Quiet, Idle, Resetting, Rebuilding
<1>5. ASSUME NEW p \in Procs, ClientJoin(p) PROVE Quiet
  BY <1>1, <1>5 DEF ClientJoin, Becomes, Quiet, Idle, Resetting, Rebuilding
<1>6. ASSUME NEW p \in Procs, ClientLeave(p) PROVE Quiet
  BY <1>1, <1>6 DEF ClientLeave, Becomes, history, Quiet, Idle, Resetting, Rebuilding
<1>7. ASSUME NEW p \in Procs, Kill(p) PROVE Quiet
  BY <1>1, <1>7 DEF Kill, Becomes, history, Quiet, Idle, Resetting, Rebuilding
<1>8. ASSUME NEW p \in Procs, RebuildBegin(p) PROVE Quiet
  BY <1>1, <1>2, <1>8 DEF RebuildBegin, Becomes, Quiet, Idle, Resetting
<1>9. ASSUME NEW p \in Procs, PrintBegin(p) PROVE Quiet
  BY <1>1, <1>2, <1>9 DEF PrintBegin, Becomes, history, Quiet, Idle, Resetting
<1>10. ASSUME NEW p \in Procs, RebuildClear(p) PROVE Quiet
  <2> DEFINE n == walk[p].page
             b == IF pc[p] = "printing" THEN pages[n] ELSE Prepared(pages[n])
  <2>1. n \in Pages /\ pages[n] \in Page /\ UNCHANGED <<pc, call, tree, early, again, lost>>
    BY <1>1, <1>10 DEF RebuildClear, At, procVars, history
  <2>2. /\ b \in Page /\ b.used = pages[n].used /\ (pages[n].free = <<>> => b.free = <<>>)
        /\ b.moving \in {pages[n].moving, <<>>}
    BY <2>1, PagesSame
  <2> HIDE DEF b
  <2>3. /\ Cleared(b).used = pages[n].used /\ (pages[n].free = <<>> => Cleared(b).free = <<>>)
        /\ Cleared(b).moving \in {pages[n].moving, <<>>}
    BY <2>2, PagesSame
  <2>4. pages' = [pages EXCEPT ![n] = Cleared(b)]
    BY <1>1, <1>10 DEF RebuildClear, b
  <2>5. \A m \in Pages :
          /\ pages'[m].used = pages[m].used
          /\ pages[m].free = <<>> => pages'[m].free = <<>>
          /\ pages'[m].moving \in {pages[m].moving, <<>>}
    BY <1>1, <2>1, <2>3, <2>4
  <2>6. walk' = [walk EXCEPT ![p] = [walk[p] EXCEPT !.todo = "mark"]]
    BY <1>1, <1>10 DEF RebuildClear
  <2>7. walk'[p].todo = "mark" /\ \A q \in Procs \ {p} : walk'[q] = walk[q]
    BY <1>1, <2>6
  <2> QED BY <1>1, <2>1, <2>5, <2>7 DEF Quiet, Idle, Resetting
<1>11. ASSUME NEW p \in Procs, RebuildMark(p) PROVE Quiet
  <2> DEFINE n == walk[p].page
  <2>1. /\ n \in Pages /\ pages[n] \in Page /\ pc[p] \in Rebuilding
        /\ UNCHANGED <<call, tree, early, again, lost>>
    BY <1>1, <1>11 DEF RebuildMark, At, history
  <2>2. PICK r \in {Marked(pages[n]), Erroneous(pages[n])} :
          /\ pages' = [pages EXCEPT ![n] = r]
          /\ IF ~r.err /\ r.used = <<>>
             THEN /\ walk' = [walk EXCEPT ![p].todo = "reset"]
                  /\ UNCHANGED <<procVars, prepared>>
             ELSE PageDone(p)
    BY <1>11 DEF RebuildMark
  <2>3. r.used = pages[n].used /\ r.free = pages[n].free /\ r.moving = pages[n].moving
    BY <2>1, PagesSame
  <2>4. \A m \in Pages : /\ pages'[m].used = pages[m].used /\ pages'[m].free = pages[m].free
                        /\ pages'[m].moving = pages[m].moving
    BY <1>1, <2>1, <2>2, <2>3
  <2>5. CASE ~r.err /\ r.used = <<>>
    <3>1. walk' = [walk EXCEPT ![p] = [walk[p] EXCEPT !.todo = "reset"]] /\ pc' = pc
      BY <1>1, <2>2, <2>5 DEF procVars
    <3>2. walk'[p].page = n /\ \A q \in Procs \ {p} : walk'[q] = walk[q]
      BY <1>1, <3>1
    <3> QED BY <1>1, <2>1, <2>3, <2>4, <2>5, <3>1, <3>2 DEF Quiet, Idle, Resetting
  <2>6. CASE PageDone(p)
    BY <1>1, <2>1, <2>4, <2>6, PageDoneReset, PageDoneMaking DEF Quiet, Idle
  <2> QED BY <2>2, <2>5, <2>6
<1>12. ASSUME NEW p \in Procs, RebuildReset(p) PROVE Quiet
  <2> DEFINE n == walk[p].page
  <2>1. /\ n \in Pages /\ pages[n] \in Page /\ Resetting(p) /\ PageDone(p)
        /\ pc[p] \in Rebuilding
        /\ UNCHANGED <<call, tree, early, again>>
    BY <1>1, <1>12 DEF RebuildReset, At, Resetting
  <2>2. pages' = [pages EXCEPT ![n] = Shrunk(pages[n])]
    BY <1>1, <1>12 DEF RebuildReset
  <2>3. \A m \in Pages :
          /\ pages'[m].used = pages[m].used
          /\ pages[m].free = <<>> => pages'[m].free = <<>>
          /\ pages'[m].moving \in {pages[m].moving, <<>>}
    BY <1>1, <2>1, <2>2, PagesSame
  <2>4. lost' = IF pages[n].used # <<>> \/ Moved(n) THEN lost \cup {n} ELSE lost
    BY <1>12 DEF RebuildReset
  <2> QED BY <1>1, <2>1, <2>3, <2>4, PageDoneReset, PageDoneMaking DEF Quiet, Idle
<1>13. ASSUME NEW p \in Procs, TreeBegin(p) PROVE Quiet
  BY <1>1, <1>13 DEF TreeBegin, Becomes, history, Owners, Quiet, Idle, Resetting, Rebuilding
<1>14. ASSUME NEW p \in Procs, WantCategory(p) PROVE Quiet
  BY <1>1, <1>14 DEF WantCategory, Becomes, history, Quiet, Idle, Resetting, Rebuilding
<1>15. ASSUME NEW p \in Procs, CategoryBegin(p) PROVE Quiet
  BY <1>1, <1>15 DEF CategoryBegin, Becomes, history, Quiet, Idle, Resetting, Rebuilding
<1>16. ASSUME NEW p \in Procs, CategoryEnd(p) PROVE Quiet
  BY <1>1, <1>16 DEF CategoryEnd, Becomes, history, Quiet, Idle, Resetting, Rebuilding
<1>17. CASE UNCHANGED vars
  BY <1>1, <1>17 DEF vars, Quiet, Idle, Resetting
<1>18. ASSUME NEW p \in Procs, pc[p] = "inside", UNCHANGED <<procVars, walk, tree, history>>,
              \A n \in Pages : pages'[n].used = pages[n].used,
              \E c : call' = [call EXCEPT ![p] = c]
       PROVE  Quiet
  BY <1>1, <1>18 DEF procVars, history, Quiet, Resetting
<1>19. ASSUME NEW p \in Procs, Allocate(p) PROVE Quiet
  <2>1. pc[p] = "inside" /\ lost = {} /\ UNCHANGED <<procVars, walk, tree, history>>
    BY <1>19 DEF Allocate
  <2>2. PICK q \in Requests : Shmalloc(p, q)
    BY <1>19 DEF Allocate
  <2>3. q \in Nat
    BY CategoryAssumption
  <2>4. PICK n, x, r :
           n \in Pages /\ x \in Item /\ Begins(p, n, r, x, "used") /\ r.used = pages[n].used
    BY <2>1, <2>2, <2>3, Obtained
  <2>5. \A m \in Pages : pages'[m].used = pages[m].used
    BY <1>1, <2>4 DEF Begins
  <2> QED BY <1>18, <2>1, <2>4, <2>5 DEF Begins
<1>20. ASSUME NEW p \in Procs, Link(p), call[p].to # "used" PROVE Quiet
  <2>1. /\ pc[p] = "inside" /\ UNCHANGED <<procVars, walk, tree, history>>
        /\ call' = [call EXCEPT ![p] = NoItem]
    BY <1>20 DEF Link
  <2>2. \A m \in Pages : pages'[m].used = pages[m].used
    BY <1>20, LinkIs
  <2> QED BY <1>18, <2>1, <2>2
<1> QED BY <1>3, <1>4, <1>5, <1>6, <1>7, <1>8, <1>9, <1>10, <1>11, <1>12, <1>13, <1>14, <1>15,
           <1>16, <1>17, <1>19, <1>20 DEF Next

-----------------------------------------------------------------------------
(* One root *)

LEMMA RootIsIt ==
    ASSUME TypeOK, NEW m \in Pages, RootedAt(m), pages[m].used \in Seq(Item)
    PROVE  <<m, 1>> \in Roots /\ \A x \in Roots : x = <<m, 1>>
<1>1. Room \in Nat /\ Room > HF /\ HF \in Nat
  BY MemoryAssumption
<1>2. 1 \in 1 .. Room
  BY <1>1
<1>3. 1 \in DOMAIN pages[m].used
  BY Opened DEF RootedAt
<1>4. <<m, 1>> \in Roots
  BY <1>2, <1>3 DEF RootedAt, Roots
<1>5. ASSUME NEW x \in Roots PROVE x = <<m, 1>>
  <2>1. /\ x \in Pages \X (1 .. Room) /\ x[2] \in DOMAIN pages[x[1]].used
        /\ pages[x[1]].used[x[2]].root
    BY DEF Roots
  <2>2. x[1] = m /\ x[2] = 1
    BY <2>1 DEF RootedAt
  <2> QED BY <2>1, <2>2
<1> QED BY <1>4, <1>5

LEMMA Alone ==
    ASSUME TypeOK, Owners, Timeline, ~early, NEW p \in Procs, NEW q \in Procs, q # p, Resetting(q)
    PROVE  /\ pc[p] = "making" => tree[q] # NoItem
           /\ pc[p] = "inside" => again
<1>1. pc[q] \in {"preparing", "rebuilding", "printing"}
  BY DEF Resetting, Rebuilding
<1>2. CASE pc[q] = "preparing"
  BY <1>2, CategoryAssumption DEF Owners, Timeline
<1>3. CASE pc[q] = "rebuilding"
  BY <1>3 DEF Owners
<1>4. CASE pc[q] = "printing"
  BY <1>4 DEF Owners
<1> QED BY <1>1, <1>2, <1>3, <1>4

LEMMA OneRootStep ==
    ASSUME TypeOK, PagesRight, Owners, Timeline, OneRoot, TypeOK', [Next]_vars
    PROVE  OneRoot'
<1>1. /\ pages \in [Pages -> Page] /\ pc \in [Procs -> States] /\ Server \in Procs
      /\ tree \in [Procs -> Handle \cup {NoItem}] /\ pages' \in [Pages -> Page]
      /\ call \in [Procs -> Call \cup {NoItem}] /\ early \in BOOLEAN
  BY CategoryAssumption DEF TypeOK
<1>2. \A n \in Pages : pages[n].used \in Seq(Item) /\ pages[n].moving \in Seq(Item)
  BY <1>1 DEF Page
<1>3. NoItem \notin Handle
  BY CategoryAssumption DEF Handle
<1> SUFFICES ASSUME ~early' PROVE Unrooted' \/ \E m \in Pages : RootedAt(m)'
  BY DEF OneRoot
<1>4. CASE Quiet
  <2>1. ~early
    BY <1>1, <1>4 DEF Quiet
  <2>2. CASE Unrooted
    <3>1. \A p \in Procs : pc[p] # "inside"
      BY <2>2 DEF Unrooted, Owners
    <3>2. ASSUME NEW n \in Pages, Moved(n), NEW p \in Procs, Resetting(p) PROVE FALSE
      <4>1. PICK q \in Procs : pc[q] # "dead" /\ call[q] # NoItem
        BY <3>2 DEF Moved
      <4>2. pc[q] = "making" /\ q # p
        BY <3>1, <3>2, <4>1 DEF Owners, Resetting, Rebuilding
      <4>3. tree[p] # NoItem
        BY <2>1, <3>2, <4>2, Alone
      <4> QED BY <2>2, <4>3 DEF Unrooted
    <3>3. lost' = {}
      BY <1>4, <2>2, <3>2 DEF Quiet, Unrooted
    <3>4. RootSized(<<>>)
      BY DEF RootSized
    <3>5. \A n \in Pages : pages'[n].used = <<>> /\ pages'[n].free = <<>> /\ RootSized(pages'[n].moving)
      BY <1>4, <2>2, <3>1, <3>4 DEF Quiet, Idle, Unrooted
    <3>6. \A p \in Procs : tree'[p] = NoItem
      BY <1>4, <2>2 DEF Quiet, Unrooted
    <3> QED BY <3>3, <3>5, <3>6 DEF Unrooted, RootSized
  <2>3. ASSUME NEW m \in Pages, RootedAt(m) PROVE RootedAt(m)'
    <3>1. m \notin lost'
      BY <1>4, <2>3 DEF Quiet, RootedAt
    <3>2. \A n \in Pages : pages'[n].used = pages[n].used
      BY <1>4 DEF Quiet
    <3>3. \A p \in Procs : tree'[p] # NoItem => tree'[p] = RootOf(m, pages'[m].used[1])
      BY <1>4, <2>3, <3>2 DEF Quiet, RootedAt
    <3>4. \A p \in Procs : Resetting(p)' => walk'[p].page # m
      BY <1>4, <2>3 DEF Quiet, RootedAt
    <3>5. /\ pages'[m].used # <<>>
          /\ pages'[m].used[1].root /\ pages'[m].used[1].len = RootSize + HF
      BY <2>3, <3>2 DEF RootedAt
    <3>6. \A n \in Pages : \A i \in DOMAIN pages'[n].used :
            pages'[n].used[i].root => n = m /\ i = 1
      BY <2>3, <3>2 DEF RootedAt
    <3>7. \A p \in Procs : pc'[p] = "making" => call'[p] = NoItem
      BY <1>4, <2>3 DEF Quiet, RootedAt
    <3> QED BY <3>1, <3>3, <3>4, <3>5, <3>6, <3>7 DEF RootedAt
  <2> QED BY <2>1, <2>2, <2>3 DEF OneRoot
<1>5. ASSUME NEW p \in Procs, MakeTree(p) PROVE Unrooted' \/ \E m \in Pages : RootedAt(m)'
  <2>1. /\ pc[p] = "making" /\ lost = {} /\ lost' = {} /\ walk' = walk /\ ~early
        /\ call[p] = NoItem
    BY <1>5 DEF MakeTree, history
  <2>2. \A s \in {"idle", "off", "dead"} : Becomes(p, s) =>
          /\ \A q \in Procs : Resetting(q)' => q # p /\ Resetting(q)
          /\ \A q \in Procs : pc'[q] = "making" => pc[q] = "making"
    BY <1>1, <2>1 DEF Becomes, Resetting, Rebuilding
  <2>3. CASE \E x \in Roots :
               /\ tree' = [tree EXCEPT ![p] = RootOf(x[1], pages[x[1]].used[x[2]])]
               /\ Becomes(p, "idle") /\ UNCHANGED <<pages, call>>
    <3>1. PICK x \in Roots :
               /\ tree' = [tree EXCEPT ![p] = RootOf(x[1], pages[x[1]].used[x[2]])]
               /\ Becomes(p, "idle") /\ UNCHANGED <<pages, call>>
      BY <2>3
    <3>2. x[1] \in Pages /\ x[2] \in DOMAIN pages[x[1]].used
      BY DEF Roots
    <3>3. ~Unrooted
      BY <1>2, <3>2, Opened DEF Unrooted
    <3>4. PICK m \in Pages : RootedAt(m)
      BY <2>1, <3>3 DEF OneRoot
    <3>5. x = <<m, 1>>
      BY <1>2, <3>4, RootIsIt
    <3>6. tree' = [tree EXCEPT ![p] = RootOf(m, pages[m].used[1])]
      BY <3>1, <3>5
    <3>7. \A q \in Procs : tree'[q] # NoItem => tree'[q] = RootOf(m, pages[m].used[1])
      BY <1>1, <3>4, <3>6 DEF RootedAt
    <3>8. \A q \in Procs : Resetting(q)' => walk'[q].page # m
      BY <2>1, <2>2, <3>1, <3>4 DEF RootedAt
    <3>9. \A q \in Procs : pc'[q] = "making" => call'[q] = NoItem
      BY <2>2, <3>1, <3>4 DEF RootedAt
    <3> QED BY <2>1, <3>1, <3>4, <3>7, <3>8, <3>9 DEF RootedAt
  <2>4. CASE /\ Roots = {} /\ UNCHANGED <<pc, tree>>
             /\ \E n \in Pages, x \in Item : \E r :
                   /\ Begins(p, n, r, x, "used")
                   /\ r.used = pages[n].used
                   /\ pages[n].free = <<>> => r.free = <<>> /\ x.len = RootSize + HF
    <3>1. Unrooted
      BY <1>2, <2>1, <2>4, RootIsIt DEF OneRoot
    <3>2. PICK n, x, r :
             /\ n \in Pages /\ x \in Item
             /\ Begins(p, n, r, x, "used")
             /\ r.used = pages[n].used
             /\ pages[n].free = <<>> => r.free = <<>> /\ x.len = RootSize + HF
      BY <2>4
    <3>3. /\ pages' = [pages EXCEPT ![n] = r] /\ r.moving = Append(pages[n].moving, x)
          /\ r.used = <<>> /\ r.free = <<>> /\ x.len = RootSize + HF
      BY <3>1, <3>2 DEF Begins, Unrooted
    <3>4. RootSized(r.moving)
      <4> DEFINE v == pages[n].moving
      <4>1. v \in Seq(Item) /\ RootSized(v)
        BY <1>2, <3>1, <3>2 DEF Unrooted
      <4> HIDE DEF v
      <4>2. Len(v) \in Nat /\ DOMAIN v = 1 .. Len(v)
        BY <4>1, LenProperties
      <4>3. /\ DOMAIN Append(v, x) = 1 .. Len(v) + 1 /\ Append(v, x)[Len(v) + 1] = x
            /\ \A j \in DOMAIN v : Append(v, x)[j] = v[j]
        BY <4>1, AppendIs
      <4>4. \A j \in DOMAIN Append(v, x) : j = Len(v) + 1 \/ j \in DOMAIN v
        BY <4>2, <4>3
      <4>5. RootSized(Append(v, x))
        BY <3>3, <4>1, <4>3, <4>4 DEF RootSized
      <4> QED BY <3>3, <4>5 DEF v
    <3>5. \A m \in Pages : pages'[m].used = <<>> /\ pages'[m].free = <<>> /\ RootSized(pages'[m].moving)
      BY <1>1, <3>1, <3>3, <3>4 DEF Unrooted
    <3> QED BY <2>1, <2>4, <3>1, <3>5 DEF Unrooted, RootSized
  <2>5. CASE /\ \E s \in {"off", "dead"} : Becomes(p, s)
             /\ UNCHANGED <<pages, call, tree>>
    <3>1. CASE Unrooted
      BY <2>1, <2>5, <3>1 DEF Unrooted, RootSized
    <3>2. ASSUME NEW m \in Pages, RootedAt(m) PROVE RootedAt(m)'
      <4>1. \A q \in Procs : Resetting(q)' => walk'[q].page # m
        BY <2>1, <2>2, <2>5, <3>2 DEF RootedAt
      <4>2. \A q \in Procs : pc'[q] = "making" => call'[q] = NoItem
        BY <2>2, <2>5, <3>2 DEF RootedAt
      <4> QED BY <2>1, <2>5, <3>2, <4>1, <4>2 DEF RootedAt
    <3> QED BY <2>1, <3>1, <3>2 DEF OneRoot
  <2> QED BY <1>5, <2>3, <2>4, <2>5, MadeTree
<1>10. ASSUME NEW p \in Procs, RootMade(p) PROVE \E m \in Pages : RootedAt(m)'
  <2>1. /\ pc[p] = "making" /\ call[p] # NoItem /\ lost' = {} /\ walk' = walk /\ ~early
        /\ Becomes(p, "idle") /\ call' = [call EXCEPT ![p] = NoItem]
    BY <1>10 DEF RootMade, history
  <2>2. Unrooted
    BY <2>1 DEF OneRoot, RootedAt
  <2>3. \A q \in Procs : Resetting(q)' => q # p /\ Resetting(q)
    BY <1>1, <2>1 DEF Becomes, Resetting, Rebuilding
  <2>4. \A q \in Procs : ~Resetting(q)'
    BY <2>1, <2>2, <2>3, Alone DEF Unrooted
  <2>5. \A q \in Procs : pc'[q] # "making"
    <3>1. \A q \in Procs : pc[q] = "making" => q = p
      BY <2>1 DEF Owners
    <3> QED BY <1>1, <2>1, <3>1 DEF Becomes
  <2>6. PICK n \in Pages : \E i \in DOMAIN pages[n].moving : \E y \in Item :
           /\ y.root /\ y.len = pages[n].moving[i].len
           /\ Gets(n, y) /\ tree' = [tree EXCEPT ![p] = RootOf(n, y)]
    BY <1>10, RootMadeIs
  <2>7. PICK y \in Item : /\ y.root /\ y.len = RootSize + HF
                        /\ Gets(n, y) /\ tree' = [tree EXCEPT ![p] = RootOf(n, y)]
    BY <2>2, <2>6 DEF Unrooted, RootSized
  <2>8. /\ \A m \in Pages \ {n} : pages'[m].used = <<>>
        /\ pages'[n].used = Append(<<>>, y)
    BY <1>1, <2>2, <2>7 DEF Unrooted, Gets
  <2>9. /\ DOMAIN pages'[n].used = {1} /\ pages'[n].used[1] = y
        /\ pages'[n].used # <<>>
    BY <2>8
  <2>10. \A q \in Procs : tree'[q] # NoItem => tree'[q] = RootOf(n, y)
    BY <1>1, <2>2, <2>7 DEF Unrooted
  <2>11. \A m \in Pages : \A i \in DOMAIN pages'[m].used :
          pages'[m].used[i].root => m = n /\ i = 1
    BY <2>8, <2>9
  <2>12. RootedAt(n)'
    BY <2>1, <2>4, <2>5, <2>7, <2>9, <2>10, <2>11 DEF RootedAt
  <2> QED BY <2>12
<1>6. ASSUME NEW p \in Procs, NEW m \in Pages, RootedAt(m), NEW n \in Pages, NEW r,
             pages' = [pages EXCEPT ![n] = r],
             UNCHANGED <<pc, walk, tree, lost>>,
             \A q \in Procs : pc[q] = "making" => call'[q] = call[q],
             \A i \in DOMAIN r.used :
                /\ r.used[i].root => i \in DOMAIN pages[n].used /\ pages[n].used[i].root
                /\ i = 1 /\ n = m => r.used[i] = pages[n].used[i],
             n = m => r.used # <<>> /\ 1 \in DOMAIN r.used
      PROVE  RootedAt(m)'
  <2>1. \A k \in Pages : pages'[k] = IF k = n THEN r ELSE pages[k]
    BY <1>1, <1>6
  <2>2. pages'[m].used # <<>> /\ pages'[m].used[1] = pages[m].used[1]
    BY <1>6, <2>1 DEF RootedAt
  <2>3. \A k \in Pages : \A i \in DOMAIN pages'[k].used :
          pages'[k].used[i].root => k = m /\ i = 1
    BY <1>6, <2>1 DEF RootedAt
  <2> QED BY <1>6, <2>2, <2>3 DEF RootedAt, Resetting
<1>7. ASSUME NEW p \in Procs, pc[p] = "inside", ~early PROVE \E m \in Pages : RootedAt(m)
  BY <1>7 DEF OneRoot, Owners, Unrooted
<1>8. ASSUME NEW p \in Procs, Link(p), call[p].to = "used" PROVE \E m \in Pages : RootedAt(m)'
  <2>1. /\ pc[p] = "inside" /\ lost = {} /\ ~early /\ call' = [call EXCEPT ![p] = NoItem]
        /\ UNCHANGED <<pc, walk, tree, lost>>
    BY <1>8 DEF Link, procVars, history
  <2>2. PICK m \in Pages : RootedAt(m)
    BY <1>7, <2>1
  <2>3. PICK n \in Pages, x \in Item : ~x.root /\ Gets(n, x)
    BY <1>8, LinkIs
  <2> DEFINE r == pages'[n]
  <2>4. r.used = Append(pages[n].used, x) /\ pages' = [pages EXCEPT ![n] = r]
    BY <2>3 DEF Gets
  <2> HIDE DEF r
  <2>5. /\ pages[n].used \in Seq(Item)
        /\ Len(pages[n].used) \in Nat /\ DOMAIN pages[n].used = 1 .. Len(pages[n].used)
    BY <1>2, LenProperties
  <2>6. /\ DOMAIN r.used = 1 .. Len(pages[n].used) + 1
        /\ r.used[Len(pages[n].used) + 1] = x
        /\ \A j \in DOMAIN pages[n].used : r.used[j] = pages[n].used[j]
        /\ r.used \in Seq(Item)
    BY <2>4, <2>5, AppendIs
  <2>7. 1 \in DOMAIN r.used /\ r.used # <<>>
    BY <2>5, <2>6
  <2>8. n = m => 1 \in DOMAIN pages[n].used
    BY <2>2, <2>5, Opened DEF RootedAt
  <2>9. \A i \in DOMAIN r.used :
           /\ r.used[i].root => i \in DOMAIN pages[n].used /\ pages[n].used[i].root
           /\ i = 1 /\ n = m => r.used[i] = pages[n].used[i]
    BY <2>3, <2>5, <2>6, <2>8
  <2>10. \A q \in Procs : pc[q] = "making" => call'[q] = call[q]
    BY <1>1, <2>1
  <2>11. RootedAt(m)'
    BY <1>6, <2>1, <2>2, <2>4, <2>7, <2>9, <2>10
  <2> QED BY <2>11
<1>9. ASSUME NEW p \in Procs, Free(p) PROVE \E m \in Pages : RootedAt(m)'
  <2>1. /\ pc[p] = "inside" /\ lost = {} /\ ~early
        /\ UNCHANGED <<pc, walk, tree, lost>>
    BY <1>9 DEF Free, procVars, history
  <2>2. PICK m \in Pages : RootedAt(m)
    BY <1>7, <2>1
  <2>3. PICK n \in Pages : \E i \in DOMAIN pages[n].used :
          /\ ~pages[n].used[i].root
          /\ pages' = [pages EXCEPT ![n] = pages'[n]]
          /\ pages'[n].used = Without(pages[n].used, i)
          /\ \E c : call' = [call EXCEPT ![p] = c]
    BY <1>9, FreeIs
  <2>4. PICK i \in DOMAIN pages[n].used :
          /\ ~pages[n].used[i].root
          /\ pages' = [pages EXCEPT ![n] = pages'[n]]
          /\ pages'[n].used = Without(pages[n].used, i)
          /\ \E c : call' = [call EXCEPT ![p] = c]
    BY <2>3
  <2> DEFINE s == pages[n].used
             r == pages'[n]
  <2>5. s \in Seq(Item)
    BY <1>2
  <2>6. r.used = Without(s, i) /\ pages' = [pages EXCEPT ![n] = r]
    BY <2>4
  <2> HIDE DEF r
  <2>7. Len(s) \in Nat /\ DOMAIN s = 1 .. Len(s) /\ i \in 1 .. Len(s)
    BY <2>5, LenProperties
  <2>8. n = m => i # 1 /\ 1 \in DOMAIN s
    BY <2>2, <2>4, <2>5, Opened DEF RootedAt
  <2>9. \A j \in DOMAIN s : s[j].root => j = 1 /\ n = m
    BY <2>2 DEF RootedAt
  <2>10. /\ DOMAIN r.used = 1 .. Len(s) - 1
         /\ \A j \in 1 .. Len(s) - 1 : r.used[j] = IF j < i THEN s[j] ELSE s[j + 1]
    BY <2>6, <2>7 DEF Without
  <2>11. \A j \in DOMAIN r.used :
            /\ r.used[j].root => j \in DOMAIN s /\ s[j].root
            /\ j = 1 /\ n = m => r.used[j] = s[j]
    <3> SUFFICES ASSUME NEW j \in 1 .. Len(s) - 1
                 PROVE  /\ r.used[j].root => j \in DOMAIN s /\ s[j].root
                        /\ j = 1 /\ n = m => r.used[j] = s[j]
      BY <2>10
    <3>1. j \in DOMAIN s /\ j + 1 \in DOMAIN s /\ j \in Nat /\ j >= 1 /\ i \in Nat /\ i >= 1
      BY <2>7
    <3>2. CASE j < i
      BY <2>10, <3>1, <3>2
    <3>3. CASE ~(j < i)
      <4>1. r.used[j] = s[j + 1] /\ j + 1 # 1
        BY <2>10, <3>1, <3>3
      <4>2. ~r.used[j].root
        BY <2>9, <3>1, <4>1
      <4>3. j = 1 => i = 1
        BY <3>1, <3>3
      <4> QED BY <2>8, <4>2, <4>3
    <3> QED BY <3>2, <3>3
  <2>12. n = m => r.used # <<>> /\ 1 \in DOMAIN r.used
    BY <2>7, <2>8, <2>10
  <2>13. \A q \in Procs : pc[q] = "making" => call'[q] = call[q]
    BY <1>1, <2>1, <2>4
  <2>14. RootedAt(m)'
    BY <1>6, <2>1, <2>2, <2>6, <2>11, <2>12, <2>13
  <2> QED BY <2>14
<1> QED BY <1>4, <1>5, <1>8, <1>9, <1>10, QuietStep

-----------------------------------------------------------------------------
(* Pages that are reset *)

LEMMA ResetsStep ==
    ASSUME TypeOK, PagesRight, Walks, Owners, Timeline, OneRoot, Resets, TypeOK', [Next]_vars
    PROVE  Resets'
<1>1. /\ pages \in [Pages -> Page] /\ pc \in [Procs -> States]
      /\ early \in BOOLEAN /\ again \in BOOLEAN
      /\ \A p \in Procs : Resetting(p) => walk[p].page \in Pages
  BY DEF TypeOK, Walks, Resetting
<1> SUFFICES ASSUME ~early', ~again'
             PROVE  /\ lost' = {}
                    /\ \A p \in Procs : Resetting(p)' => pages'[walk'[p].page].used = <<>>
  BY DEF Resets
<1>2. CASE Quiet
  <2>1. ~early /\ ~again
    BY <1>1, <1>2 DEF Quiet
  <2>2. /\ lost = {}
        /\ \A p \in Procs : Resetting(p) => pages[walk[p].page].used = <<>>
    BY <2>1 DEF Resets
  <2>3. ASSUME NEW n \in Pages, Moved(n), NEW p \in Procs, Resetting(p) PROVE FALSE
    <3>1. PICK q \in Procs : pc[q] # "dead" /\ call[q] # NoItem
      BY <2>3 DEF Moved
    <3>2. q # p /\ (pc[q] = "inside" \/ pc[q] = "making")
      BY <2>3, <3>1 DEF Owners, Resetting, Rebuilding
    <3>3. pc[q] = "making" /\ tree[p] # NoItem
      BY <2>1, <2>3, <3>2, Alone
    <3> QED BY <2>1, <3>1, <3>3 DEF OneRoot, Unrooted, RootedAt
  <2>4. lost' = {}
    BY <1>2, <2>2, <2>3 DEF Quiet
  <2> QED BY <1>1, <1>2, <2>2, <2>4 DEF Quiet
<1>3. ASSUME NEW p \in Procs, MakeTree(p)
      PROVE  /\ lost' = {}
             /\ \A q \in Procs : Resetting(q)' => pages'[walk'[q].page].used = <<>>
  <2>1. pc[p] = "making" /\ lost' = lost /\ walk' = walk /\ early' = early /\ again' = again
    BY <1>3 DEF MakeTree, history
  <2>2. /\ lost = {}
        /\ \A q \in Procs : Resetting(q) => pages[walk[q].page].used = <<>>
    BY <2>1 DEF Resets
  <2>3. \A q \in Procs : Resetting(q)' => Resetting(q)
    <3>1. pc' = pc \/ \E t \in {"idle", "off", "dead"} : pc' = [pc EXCEPT ![p] = t]
      BY <1>3, MadeTree DEF Becomes
    <3> QED BY <1>1, <2>1, <3>1 DEF Resetting, Rebuilding
  <2>4. \A n \in Pages : pages'[n].used = pages[n].used
    BY <1>1, <1>3, MadeTree DEF Begins
  <2> QED BY <1>1, <2>1, <2>2, <2>3, <2>4
<1>5. ASSUME NEW p \in Procs, RootMade(p)
      PROVE  /\ lost' = {}
             /\ \A q \in Procs : Resetting(q)' => pages'[walk'[q].page].used = <<>>
  <2>1. /\ pc[p] = "making" /\ call[p] # NoItem /\ lost = {} /\ lost' = {} /\ walk' = walk
        /\ ~early /\ Becomes(p, "idle")
    BY <1>5 DEF RootMade, history
  <2>2. Unrooted
    BY <2>1 DEF OneRoot, RootedAt
  <2>3. \A q \in Procs : Resetting(q)' => q # p /\ Resetting(q)
    BY <1>1, <2>1 DEF Becomes, Resetting, Rebuilding
  <2>4. \A q \in Procs : ~Resetting(q)'
    BY <2>1, <2>2, <2>3, Alone DEF Unrooted
  <2> QED BY <2>1, <2>4
<1>4. ASSUME NEW p \in Procs, Free(p) \/ Link(p)
      PROVE  /\ lost' = {}
             /\ \A q \in Procs : Resetting(q)' => pages'[walk'[q].page].used = <<>>
  <2>1. /\ pc[p] = "inside" /\ lost = {} /\ ~early /\ ~again
        /\ UNCHANGED <<pc, walk, lost>>
    BY <1>4 DEF Free, Link, procVars, history
  <2>2. \A q \in Procs : ~Resetting(q)
    BY <2>1, Alone DEF Resetting, Rebuilding
  <2> QED BY <2>1, <2>2 DEF Resetting
<1> QED BY <1>2, <1>3, <1>4, <1>5, QuietStep

-----------------------------------------------------------------------------

RootInv == TypeOK /\ PagesRight /\ Walks /\ Owners /\ Timeline /\ OneRoot /\ Resets

LEMMA RootInvStart ==
    ASSUME Init PROVE RootInv
<1>1. TypeOK /\ PagesRight /\ Walks
  BY TypedStart
<1>2. Server \in Procs
  BY CategoryAssumption
<1>3. Owners /\ Timeline
  BY <1>2 DEF Init, Owners, Timeline
<1>4. \A p \in Procs : ~Resetting(p)
  BY DEF Init, Resetting, Rebuilding
<1>5. \A n \in Pages :
         pages[n].used = <<>> /\ pages[n].free = <<>> /\ RootSized(pages[n].moving)
  BY DEF Init, Blank, RootSized
<1> QED BY <1>1, <1>3, <1>4, <1>5 DEF RootInv, Init, OneRoot, Unrooted, Resets

LEMMA RootInvHolds == Spec => []RootInv
<1>1. Init => RootInv
  BY RootInvStart
<1>2. RootInv /\ [Next]_vars => RootInv'
  <2> SUFFICES ASSUME RootInv, [Next]_vars PROVE RootInv'
    OBVIOUS
  <2>1. TypeOK /\ PagesRight /\ Walks /\ Owners /\ Timeline /\ OneRoot /\ Resets
    BY DEF RootInv
  <2>2. TypeOK' /\ PagesRight' /\ Walks'
    BY <2>1, TypedStep
  <2>3. Owners' /\ Timeline'
    BY <2>1, OwnersStep
  <2>4. OneRoot'
    BY <2>1, <2>2, OneRootStep
  <2>5. Resets'
    BY <2>1, <2>2, ResetsStep
  <2> QED BY <2>2, <2>3, <2>4, <2>5 DEF RootInv
<1> QED BY <1>1, <1>2, PTL DEF Spec

(* Any number of processes that waited for the server work on one tree:     *)
(* there is one root item at most, whatever process made it, its page is    *)
(* never reset, and every tree is that root (smmr_tree.c:84-110).           *)
THEOREM RootIsShared == Spec => []RootShared
<1>1. RootInv => RootShared
  <2> SUFFICES ASSUME RootInv, ~early
               PROVE  /\ \A x, y \in Roots : x = y
                      /\ \A p \in Procs : tree[p] # NoItem =>
                            \E x \in Roots : /\ x[1] \notin lost
                                            /\ tree[p] = RootOf(x[1], pages[x[1]].used[x[2]])
    BY DEF RootShared
  <2>1. \A n \in Pages : pages[n].used \in Seq(Item)
    BY DEF RootInv, TypeOK, Page
  <2>2. CASE Unrooted
    <3>1. Roots = {}
      BY <2>1, <2>2, Opened DEF Unrooted, Roots
    <3> QED BY <2>2, <3>1 DEF Unrooted
  <2>3. ASSUME NEW m \in Pages, RootedAt(m)
        PROVE  /\ \A x, y \in Roots : x = y
               /\ \A p \in Procs : tree[p] # NoItem =>
                     \E x \in Roots : /\ x[1] \notin lost
                                     /\ tree[p] = RootOf(x[1], pages[x[1]].used[x[2]])
    <3>1. <<m, 1>> \in Roots /\ \A x \in Roots : x = <<m, 1>>
      BY <2>1, <2>3, RootIsIt DEF RootInv
    <3>2. \A p \in Procs : tree[p] # NoItem => tree[p] = RootOf(m, pages[m].used[1])
      BY <2>3 DEF RootedAt
    <3> QED BY <2>3, <3>1, <3>2 DEF RootedAt
  <2> QED BY <2>2, <2>3 DEF RootInv, OneRoot
<1> QED BY <1>1, RootInvHolds, PTL

(* When only the server rebuilds the pages and everybody waits for it, no   *)
(* page is ever reset under an item in use, however many processes print    *)
(* the status page meanwhile (smmr_memory.c:307, 1067).                     *)
THEOREM RebuildOnceIsSafe == Spec => []OnceIsSafe
<1>1. RootInv => OnceIsSafe
  BY DEF RootInv, Resets, OnceIsSafe
<1> QED BY <1>1, RootInvHolds, PTL

-----------------------------------------------------------------------------
(* A shared category implements a heap.  A step of a rebuild changes no    *)
(* list of items in use; making a tree's root and handing out a node give  *)
(* a block; giving back takes one back, and that is the only one with its  *)
(* place, because items in use do not overlap and none is empty.           *)


BlockOf(n, item) == [page |-> n, at |-> item.at, len |-> item.len]
IsBlock(b) == \E n \in Pages \ lost : \E i \in DOMAIN pages[n].used :
                 b = BlockOf(n, pages[n].used[i])

LEMMA BlocksAre == \A b : b \in Blocks <=> IsBlock(b)
  BY DEF Blocks, IsBlock, BlockOf

LEMMA NewBlocksAre == \A b : b \in Blocks' <=> IsBlock(b)'
  BY DEF Blocks, IsBlock, BlockOf

LEMMA SameHeap ==
    ASSUME lost' = lost, \A n \in Pages : pages'[n].used = pages[n].used
    PROVE  UNCHANGED <<Blocks, Held, lost>>
<1>1. \A b : IsBlock(b)' <=> IsBlock(b)
  BY DEF IsBlock
<1>2. Blocks' = Blocks
  BY <1>1, BlocksAre, NewBlocksAre
<1>3. Held' = Held
  BY DEF Held
<1> QED BY <1>2, <1>3

LEMMA PageTaken ==
    ASSUME NEW n \in Pages, lost' = lost \cup {n}, n \notin lost,
           \A m \in Pages : pages'[m].used = pages[m].used
    PROVE  Heap!TakePage
<1>1. \A b : IsBlock(b)' <=> IsBlock(b) /\ b.page # n
  BY DEF IsBlock, BlockOf
<1>2. Blocks' = {b \in Blocks : b.page # n}
  BY <1>1, BlocksAre, NewBlocksAre
<1>3. Held' = [Held EXCEPT ![n] = 0]
  BY DEF Held
<1> QED BY <1>2, <1>3 DEF Heap!TakePage

LEMMA BlockGiven ==
    ASSUME NEW n \in Pages, NEW x \in Item, lost = {}, lost' = {},
           pages \in [Pages -> Page], Gets(n, x)
    PROVE  Heap!Give
<1> DEFINE s == pages[n].used
           b == BlockOf(n, x)
<1>8. /\ s \in Seq(Item) /\ pages'[n].used = Append(s, x)
      /\ \A m \in Pages \ {n} : pages'[m].used = pages[m].used
      /\ x.at + x.len <= Room /\ \A j \in DOMAIN s : Apart(x, s[j])
  BY DEF Gets, Page
<1>1. /\ Len(s) \in Nat /\ DOMAIN s = 1 .. Len(s)
      /\ DOMAIN pages'[n].used = 1 .. Len(s) + 1 /\ Len(pages'[n].used) = Len(s) + 1
      /\ pages'[n].used[Len(s) + 1] = x
      /\ \A j \in DOMAIN s : pages'[n].used[j] = s[j]
  BY <1>8, AppendIs, LenProperties
<1>2. \A c : IsBlock(c)' <=> IsBlock(c) \/ c = b
  <2>1. ASSUME NEW c, IsBlock(c) PROVE IsBlock(c)'
    <3>1. PICK m \in Pages : \E i \in DOMAIN pages[m].used : c = BlockOf(m, pages[m].used[i])
      BY <2>1 DEF IsBlock
    <3>2. PICK i \in DOMAIN pages[m].used : c = BlockOf(m, pages[m].used[i])
      BY <3>1
    <3>3. i \in DOMAIN pages'[m].used /\ pages'[m].used[i] = pages[m].used[i]
      <4>1. CASE m = n
        BY <1>1, <4>1
      <4>2. CASE m # n
        BY <1>8, <4>2
      <4> QED BY <4>1, <4>2
    <3>4. m \notin lost'
      OBVIOUS
    <3> QED BY <3>2, <3>3, <3>4 DEF IsBlock
  <2>2. IsBlock(b)'
    <3>1. Len(s) + 1 \in DOMAIN pages'[n].used
      BY <1>1
    <3> QED BY <1>1, <3>1 DEF IsBlock
  <2>3. ASSUME NEW c, IsBlock(c)', c # b PROVE IsBlock(c)
    <3>1. PICK m \in Pages : \E i \in DOMAIN pages'[m].used : c = BlockOf(m, pages'[m].used[i])
      BY <2>3 DEF IsBlock
    <3>2. PICK i \in DOMAIN pages'[m].used : c = BlockOf(m, pages'[m].used[i])
      BY <3>1
    <3>3. i \in DOMAIN pages[m].used /\ pages'[m].used[i] = pages[m].used[i]
      <4>1. CASE m = n
        <5>1. i \in 1 .. Len(s) + 1 /\ i # Len(s) + 1
          BY <1>1, <2>3, <3>2, <4>1
        <5> QED BY <1>1, <4>1, <5>1
      <4>2. CASE m # n
        BY <1>8, <3>2, <4>2
      <4> QED BY <4>1, <4>2
    <3> QED BY <3>2, <3>3 DEF IsBlock
  <2> QED BY <2>1, <2>2, <2>3
<1>3. Blocks' = Blocks \cup {b}
  BY <1>2, BlocksAre, NewBlocksAre
<1>4. \A c \in Blocks : Heap!Disjoint(b, c)
  <2> SUFFICES ASSUME NEW c, IsBlock(c) PROVE Heap!Disjoint(b, c)
    BY BlocksAre
  <2>1. PICK m \in Pages : \E i \in DOMAIN pages[m].used : c = BlockOf(m, pages[m].used[i])
    BY DEF IsBlock
  <2> QED BY <1>8, <2>1 DEF Heap!Disjoint, BlockOf, Apart
<1>5. /\ b \in Heap!Block /\ b.page = n /\ b.at + b.len <= Room
      /\ ~Heap!Disjoint(b, b)
  <2>1. Room \in Nat /\ x.at \in Nat /\ x.len \in Nat \ {0} /\ x.at + x.len <= Room
    BY <1>8, MemoryAssumption DEF Item
  <2> QED BY <2>1 DEF BlockOf, Heap!Block, Heap!Disjoint
<1>6. b \in Blocks' \ Blocks
  BY <1>3, <1>4, <1>5
<1>7. Held' = [Held EXCEPT ![n] = @ + 1]
  BY <1>1, <1>8 DEF Held
<1> HIDE DEF b
<1> QED BY <1>3, <1>4, <1>5, <1>6, <1>7 DEF Heap!Give

LEMMA BlockTaken ==
    ASSUME NEW n \in Pages, NEW i \in DOMAIN pages[n].used, lost = {}, lost' = {},
           PageRight(pages[n]), pages'[n].used = Without(pages[n].used, i),
           \A m \in Pages \ {n} : pages'[m].used = pages[m].used
    PROVE  Heap!TakeBack
<1> DEFINE s == pages[n].used
           b == BlockOf(n, s[i])
<1>1. s \in Seq(Item) /\ ListApart(s)
  BY DEF PageRight, Lists, Three, Pair
<1>2. /\ Len(s) \in Nat /\ DOMAIN s = 1 .. Len(s) /\ i \in 1 .. Len(s)
      /\ DOMAIN pages'[n].used = 1 .. Len(s) - 1 /\ Len(pages'[n].used) = Len(s) - 1
      /\ \A j \in 1 .. Len(s) - 1 : pages'[n].used[j] = s[IF j < i THEN j ELSE j + 1]
  BY <1>1, WithoutIs, LenProperties
<1>3. \A j \in DOMAIN s : j # i => BlockOf(n, s[j]) # b
  <2> SUFFICES ASSUME NEW j \in DOMAIN s, j # i, BlockOf(n, s[j]) = b PROVE FALSE
    OBVIOUS
  <2>1. s[i] \in Item /\ s[j] \in Item
    BY <1>1, ElementOfSeq, LenProperties
  <2>2. s[j].at = s[i].at /\ s[j].len = s[i].len
    BY DEF BlockOf
  <2>3. Apart(s[i], s[j])
    BY <1>1 DEF ListApart
  <2> QED BY <2>1, <2>2, <2>3 DEF Apart, Item
<1>4. \A c : IsBlock(c)' <=> IsBlock(c) /\ c # b
  <2>1. ASSUME NEW c, IsBlock(c), c # b PROVE IsBlock(c)'
    <3>1. PICK m \in Pages : \E k \in DOMAIN pages[m].used : c = BlockOf(m, pages[m].used[k])
      BY <2>1 DEF IsBlock
    <3>2. PICK k \in DOMAIN pages[m].used : c = BlockOf(m, pages[m].used[k])
      BY <3>1
    <3>3. CASE m # n
      BY <3>2, <3>3 DEF IsBlock
    <3>4. CASE m = n
      <4>1. k \in 1 .. Len(s) /\ k # i
        BY <1>2, <2>1, <3>2, <3>4
      <4>2. PICK j \in 1 .. Len(s) - 1 : (IF j < i THEN j ELSE j + 1) = k
        <5>1. CASE k < i
          BY <1>2, <4>1, <5>1
        <5>2. CASE k > i
          <6>1. k - 1 \in 1 .. Len(s) - 1 /\ ~(k - 1 < i) /\ k - 1 + 1 = k
            BY <1>2, <4>1, <5>2
          <6> QED BY <6>1
        <5> QED BY <1>2, <4>1, <5>1, <5>2
      <4>3. j \in DOMAIN pages'[n].used /\ pages'[n].used[j] = s[k]
        BY <1>2, <4>2
      <4> QED BY <3>2, <3>4, <4>3 DEF IsBlock
    <3> QED BY <3>3, <3>4
  <2>2. ASSUME NEW c, IsBlock(c)' PROVE IsBlock(c) /\ c # b
    <3>1. PICK m \in Pages : \E k \in DOMAIN pages'[m].used : c = BlockOf(m, pages'[m].used[k])
      BY <2>2 DEF IsBlock
    <3>2. PICK k \in DOMAIN pages'[m].used : c = BlockOf(m, pages'[m].used[k])
      BY <3>1
    <3>3. CASE m # n
      BY <3>2, <3>3 DEF IsBlock, BlockOf
    <3>4. CASE m = n
      <4> DEFINE j == IF k < i THEN k ELSE k + 1
      <4>2. k \in 1 .. Len(s) - 1
        BY <1>2, <3>2, <3>4
      <4>3. j \in 1 .. Len(s) /\ j # i
        BY <1>2, <4>2
      <4>1. j \in DOMAIN s /\ j # i /\ pages'[n].used[k] = s[j]
        BY <1>2, <4>2, <4>3
      <4> HIDE DEF j
      <4> QED BY <1>3, <3>2, <3>4, <4>1 DEF IsBlock
    <3> QED BY <3>3, <3>4
  <2> QED BY <2>1, <2>2
<1>5. Blocks' = Blocks \ {b}
  BY <1>4, BlocksAre, NewBlocksAre
<1>6. b \in Blocks
  <2>1. IsBlock(b)
    BY DEF IsBlock
  <2> QED BY <2>1, BlocksAre
<1>7. Held' = [Held EXCEPT ![n] = @ - 1]
  BY <1>2 DEF Held
<1> HIDE DEF b
<1>8. b.page = n
  BY DEF b, BlockOf
<1> QED BY <1>5, <1>6, <1>7, <1>8 DEF Heap!TakeBack

HeapStep == Heap!Give \/ Heap!TakeBack \/ Heap!TakePage \/ UNCHANGED <<Blocks, Held, lost>>

LEMMA Simulated ==
    ASSUME TypeOK, PagesRight, Owners, TypeOK', [Next]_vars
    PROVE  HeapStep
<1>1. /\ pages \in [Pages -> Page]
      /\ \A n \in Pages : pages[n].used \in Seq(Item)
      /\ \A n \in Pages : lost = {} => PageRight(pages[n])
  BY DEF TypeOK, Page, PagesRight
<1>2. CASE Quiet
  <2>1. \A n \in Pages : pages'[n].used = pages[n].used
    BY <1>2 DEF Quiet
  <2>2. CASE lost' = lost
    BY <2>1, <2>2, SameHeap DEF HeapStep
  <2>3. ASSUME NEW n \in Pages, lost' = lost \cup {n} PROVE HeapStep
    <3>1. CASE n \in lost
      <4>1. lost' = lost
        BY <2>3, <3>1
      <4> QED BY <2>2, <4>1
    <3>2. CASE n \notin lost
      BY <2>1, <2>3, <3>2, PageTaken DEF HeapStep
    <3> QED BY <3>1, <3>2
  <2> QED BY <1>2, <2>2, <2>3 DEF Quiet
<1>3. ASSUME NEW p \in Procs, MakeTree(p) PROVE HeapStep
  <2>1. lost = {} /\ lost' = {}
    BY <1>3 DEF MakeTree, history
  <2>2. \A n \in Pages : pages'[n].used = pages[n].used
    BY <1>1, <1>3, MadeTree DEF Begins
  <2> QED BY <2>1, <2>2, SameHeap DEF HeapStep
<1>4. ASSUME NEW p \in Procs, RootMade(p) PROVE HeapStep
  <2>1. lost = {} /\ lost' = {}
    BY <1>4 DEF RootMade, history
  <2>2. PICK n \in Pages, x \in Item : Gets(n, x)
    BY <1>4, RootMadeIs
  <2> QED BY <1>1, <2>1, <2>2, BlockGiven DEF HeapStep
<1>6. ASSUME NEW p \in Procs, Link(p), call[p].to = "used" PROVE HeapStep
  <2>1. lost = {} /\ lost' = {}
    BY <1>6 DEF Link, history
  <2>2. PICK n \in Pages, x \in Item : Gets(n, x)
    BY <1>6, LinkIs
  <2> QED BY <1>1, <2>1, <2>2, BlockGiven DEF HeapStep
<1>5. ASSUME NEW p \in Procs, Free(p) PROVE HeapStep
  <2>1. lost = {} /\ lost' = {}
    BY <1>5 DEF Free, history
  <2>2. PICK n \in Pages : \E i \in DOMAIN pages[n].used :
          /\ pages' = [pages EXCEPT ![n] = pages'[n]]
          /\ pages'[n].used = Without(pages[n].used, i)
    BY <1>5, FreeIs
  <2>3. \A m \in Pages \ {n} : pages'[m].used = pages[m].used
    BY <1>1, <2>2
  <2> QED BY <1>1, <2>1, <2>2, <2>3, BlockTaken DEF HeapStep
<1> QED BY <1>2, <1>3, <1>4, <1>5, <1>6, QuietStep

(* A category shared by any number of processes is a heap: what is handed   *)
(* out is apart from everything in use, what is given back was in use, and  *)
(* nothing else but the loss of a whole page changes what is in use         *)
(* (smmr_memory.c:546-643, 1164-1340).                                      *)
THEOREM HeapIsImplemented == Spec => ImplementsHeap
<1>1. Init => Heap!Start
  <2> SUFFICES ASSUME Init PROVE Heap!Start
    OBVIOUS
  <2>1. lost = {} /\ \A n \in Pages : pages[n].used = <<>>
    BY DEF Init, Blank
  <2>2. \A b : ~IsBlock(b)
    BY <2>1 DEF IsBlock
  <2>3. Blocks = {}
    BY <2>2, BlocksAre
  <2>4. Held = [n \in Pages |-> 0]
    BY <2>1 DEF Held
  <2> QED BY <2>1, <2>3, <2>4 DEF Heap!Start
<1>2. RootInv /\ RootInv' /\ [Next]_vars
      => [Heap!Give \/ Heap!TakeBack \/ Heap!TakePage]_<<Blocks, Held, lost>>
  BY Simulated DEF HeapStep, RootInv
<1> QED BY <1>1, <1>2, RootInvHolds, PTL DEF Spec, ImplementsHeap, Heap!Promise
=============================================================================
