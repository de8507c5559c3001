---------------------------- MODULE SmmrCategory ----------------------------
(***************************************************************************)
(* One category of deps/smmr, shared by several processes: a server that   *)
(* makes the area and its file and prepares the pages, and clients that    *)
(* attach to them.  Everybody shares one tree, whose root item lies in the *)
(* category as well.                                                       *)
(*                                                                         *)
(* Two mutexes guard the same pages.  Joining, making the tree and, in the *)
(* programs that do it, a client's own rebuild run under the one for all   *)
(* categories; the operations on the tree and the status page run under    *)
(* the category's own.  The server's first rebuild runs under none.        *)
(*                                                                         *)
(* A rebuild is three steps per page: the bitmaps are cleared, they are    *)
(* written after a walk over the lists, and a page whose used list was     *)
(* empty is reset.  A call of the allocator is two: it takes the item out  *)
(* of its place and links it to a list, and a rebuild or a kill may come   *)
(* in between.  Once a page was reset under an item that lives there, or   *)
(* under one that is on its way, items overwrite one another: the memory   *)
(* of the category is not modelled any further.                            *)
(***************************************************************************)
EXTENDS SmmrMemory

CONSTANTS
    Procs,          \* the processes, as children forked one after the other
    Server,         \* the one that makes the area
    Requests,       \* aligned sizes of the tree's nodes
    RootSize,       \* aligned size of the tree's root item
    MaxKills,       \* bound on the processes that are killed
    NoProc, NoItem

ASSUME CategoryAssumption ==
    /\ Server \in Procs
    /\ Requests \subseteq 1 .. Limit[4]
    /\ RootSize \in 1 .. Limit[4]
    /\ MaxKills \in Nat
    /\ NoProc \notin Procs
    /\ NoItem \notin [page : Pages, at : Nat]
    /\ NoItem \notin [page : Pages, at : Nat, to : {"used", "free"}]

VARIABLES
    pages,          \* the category's memory
    pc,             \* what each process is about
    allMutex,       \* owner of category_all_mutex
    catMutex,       \* owner of category_mutex
    walk,           \* where each process is in a rebuild
    call,           \* the item each process moves, and the list it is for
    tree,           \* root item of the tree each process uses, and its page
    prepared,       \* the server has prepared the pages
    early,          \* history: a client joined before that
    again,          \* history: pages were rebuilt by another than the server
    lost,           \* history: pages that were reset under an item in use
    killed          \* history: how many processes were killed

procVars == <<pc, allMutex, catMutex>>
history == <<early, again, lost>>
vars == <<pages, pc, allMutex, catMutex, walk, call, tree, prepared, early, again, lost, killed>>

\* "want...": waiting for the mutex under which the next thing happens.
Waiting == {"wantRebuild", "wantTree", "wantCategory"}
Rebuilding == {"preparing", "rebuilding", "printing"}
States == Waiting \cup Rebuilding \cup
          {"off", "making", "idle", "inside", "stopped", "dead"}

\* todo: the next step of a rebuild for that page.
NoWalk == [page |-> 0, todo |-> "clear"]
FirstPage == [NoWalk EXCEPT !.page = 1]

Init ==
    /\ pages = [n \in Pages |-> Blank]
    /\ pc = [p \in Procs |-> "off"]
    /\ allMutex = NoProc
    /\ catMutex = NoProc
    /\ walk = [p \in Procs |-> NoWalk]
    /\ call = [p \in Procs |-> NoItem]
    /\ tree = [p \in Procs |-> NoItem]
    /\ prepared = FALSE
    /\ early = FALSE
    /\ again = FALSE
    /\ lost = {}
    /\ killed = 0

Becomes(p, s) == pc' = [pc EXCEPT ![p] = s]

-----------------------------------------------------------------------------
(* Coming and going *)

(* The server makes the area, its mutexes and the category's file, and      *)
(* begins to prepare the pages.                                             *)
ServerStart ==
    /\ pc[Server] = "off"
    /\ Becomes(Server, "preparing")
    /\ walk' = [walk EXCEPT ![Server] = FirstPage]
    /\ UNCHANGED <<pages, allMutex, catMutex, call, tree, prepared, history, killed>>

(* A client can map the category once its file is there, which it opens     *)
(* with category_all_mutex held; then some rebuild the pages themselves.    *)
ClientJoin(p) ==
    /\ p # Server /\ pc[p] = "off"
    /\ pc[Server] \notin {"off", "stopped"}
    /\ allMutex = NoProc
    /\ \E s \in {"wantRebuild", "wantTree"} : Becomes(p, s)
    /\ early' = (early \/ ~prepared)
    /\ UNCHANGED <<pages, allMutex, catMutex, walk, call, tree, prepared, again, lost, killed>>

\* A client that is done with the tree unmaps everything; it may come back.
ClientLeave(p) ==
    /\ p # Server /\ pc[p] = "idle" /\ allMutex = NoProc
    /\ Becomes(p, "off")
    /\ tree' = [tree EXCEPT ![p] = NoItem]
    /\ UNCHANGED <<pages, allMutex, catMutex, walk, call, prepared, history, killed>>

\* The server unmaps everything and removes the files: nobody can join.
ServerStop ==
    /\ pc[Server] = "idle"
    /\ Becomes(Server, "stopped")
    /\ tree' = [tree EXCEPT ![Server] = NoItem]
    /\ UNCHANGED <<pages, allMutex, catMutex, walk, call, prepared, history, killed>>

(* A process is killed anywhere.  The mutexes are not robust: one it owns   *)
(* stays locked.                                                            *)
Kill(p) ==
    /\ killed < MaxKills
    /\ pc[p] \notin {"off", "stopped", "dead"}
    /\ Becomes(p, "dead")
    /\ killed' = killed + 1
    /\ UNCHANGED <<pages, allMutex, catMutex, walk, call, tree, prepared, history>>

-----------------------------------------------------------------------------
(* Rebuilding *)

\* rebuild_pages_area in a client, under category_all_mutex.
RebuildBegin(p) ==
    /\ pc[p] = "wantRebuild" /\ allMutex = NoProc
    /\ allMutex' = p
    /\ Becomes(p, "rebuilding")
    /\ walk' = [walk EXCEPT ![p] = FirstPage]
    /\ again' = TRUE
    /\ UNCHANGED <<pages, catMutex, call, tree, prepared, early, lost, killed>>

\* rebuild_page_statics, for the status page, under category_mutex.
PrintBegin(p) ==
    /\ pc[p] = "inside" /\ call[p] = NoItem
    /\ Becomes(p, "printing")
    /\ walk' = [walk EXCEPT ![p] = FirstPage]
    /\ UNCHANGED <<pages, allMutex, catMutex, call, tree, prepared, history, killed>>

At(p, todo) == pc[p] \in Rebuilding /\ walk[p].page \in Pages /\ walk[p].todo = todo

RebuildClear(p) ==
    LET n == walk[p].page IN
    /\ At(p, "clear") /\ lost = {}
    /\ pages' = [pages EXCEPT ![n] =
                    Cleared(IF pc[p] = "printing" THEN @ ELSE Prepared(@))]
    /\ walk' = [walk EXCEPT ![p].todo = "mark"]
    /\ UNCHANGED <<procVars, call, tree, prepared, history, killed>>

(* p is through with its page; where it goes when that was the last one.    *)
PageDone(p) ==
    IF walk[p].page < NPages
    THEN /\ walk' = [walk EXCEPT ![p] = [NoWalk EXCEPT !.page = walk[p].page + 1]]
         /\ UNCHANGED <<procVars, prepared>>
    ELSE /\ walk' = [walk EXCEPT ![p] = NoWalk]
         /\ Becomes(p, IF pc[p] = "printing" THEN "idle" ELSE "wantTree")
         /\ allMutex' = IF pc[p] = "rebuilding" THEN NoProc ELSE allMutex
         /\ catMutex' = IF pc[p] = "printing" THEN NoProc ELSE catMutex
         /\ prepared' = (prepared \/ pc[p] = "preparing")

(* Items are moved while p walks over them, or one was on its way when its  *)
(* process was killed, and its links are as far as they got.                *)
Disturbed(p, n) ==
    \/ pages[n].moving # <<>>
    \/ \E q \in Procs \ {p} : pc[q] \in {"inside", "making"}

(* The bitmaps; a page without an item in use is to be reset as well.       *)
RebuildMark(p) ==
    LET n == walk[p].page IN
    /\ At(p, "mark") /\ lost = {}
    /\ \E r \in {Marked(pages[n])} \cup (IF Disturbed(p, n) THEN {Erroneous(pages[n])} ELSE {}) :
          /\ pages' = [pages EXCEPT ![n] = r]
          /\ IF ~r.err /\ r.used = <<>>
             THEN /\ walk' = [walk EXCEPT ![p].todo = "reset"]
                  /\ UNCHANGED <<procVars, prepared>>
             ELSE PageDone(p)
    /\ UNCHANGED <<call, tree, history, killed>>

\* A process has an item of the page on its way.
Moved(n) == \E q \in Procs : pc[q] # "dead" /\ call[q] # NoItem /\ call[q].page = n

RebuildReset(p) ==
    LET n == walk[p].page IN
    /\ At(p, "reset")
    /\ pages' = [pages EXCEPT ![n] = Shrunk(@)]
    /\ lost' = IF pages[n].used # <<>> \/ Moved(n) THEN lost \cup {n} ELSE lost
    /\ PageDone(p)
    /\ UNCHANGED <<call, tree, early, again, killed>>

-----------------------------------------------------------------------------
(* Calls of the allocator *)

Call == [page : Pages, at : Nat, to : {"used", "free"}]

(* The first half: the last of r.moving is on its way to a list.            *)
Takes(p, n, r, to) ==
    /\ pages' = [pages EXCEPT ![n] = r]
    /\ call' = [call EXCEPT ![p] =
                    [page |-> n, at |-> r.moving[Len(r.moving)].at, to |-> to]]

(* shmalloc, for what finds a page: class by class, in each page by page.   *)
Shmalloc(p, q) ==
    \E o \in Foremost(Offers(pages, q)) : \E r \in Picked(pages[o[2]], o[1], q) :
        Takes(p, o[2], r, "used")

(* shmfree of the i-th item of page n; nothing happens on an erroneous one. *)
Shmfree(p, n, i) ==
    /\ ~pages[n].err
    /\ Takes(p, n, Dropped(pages[n], i), "free")

\* The places of the item p has on its way.
OnTheWay(p) ==
    {i \in DOMAIN pages[call[p].page].moving :
        pages[call[p].page].moving[i].at = call[p].at}

-----------------------------------------------------------------------------
(* The tree *)

\* Slip: the search begins with the second page.
RootsBehind == {x \in (Pages \ {1}) \X (1 .. Room) :
    x[2] \in DOMAIN pages[x[1]].used /\ pages[x[1]].used[x[2]].root}

\* attach: the items of the size and with the signature of a root.
Roots == {x \in Pages \X (1 .. Room) :
             /\ x[2] \in DOMAIN pages[x[1]].used
             /\ LET it == pages[x[1]].used[x[2]] IN it.root /\ it.len = RootSize + HF}

TreeBegin(p) ==
    /\ pc[p] = "wantTree" /\ allMutex = NoProc
    /\ allMutex' = p
    /\ Becomes(p, "making")
    /\ UNCHANGED <<pages, catMutex, walk, call, tree, prepared, history, killed>>

Handle == [page : Pages, at : Nat]
RootOf(n, item) == [page |-> n, at |-> item.at]

(* create_tree_unsafe: the first root item there is, or a new one, to be    *)
(* allocated; without memory for one the process gives up.                  *)
MakeTree(p) ==
    /\ pc[p] = "making" /\ call[p] = NoItem /\ lost = {}
    /\ \/ \E x \in Foremost(Roots) :
             /\ tree' = [tree EXCEPT ![p] = RootOf(x[1], pages[x[1]].used[x[2]])]
             /\ allMutex' = NoProc
             /\ Becomes(p, "idle")
             /\ UNCHANGED <<pages, call>>
       \/ /\ Roots = {}
          /\ Shmalloc(p, RootSize)
          /\ UNCHANGED <<pc, allMutex, tree>>
       \/ /\ Roots = {} /\ Offers(pages, RootSize) = {}
          /\ Becomes(p, IF p = Server THEN "dead" ELSE "off")
          /\ allMutex' = NoProc
          /\ UNCHANGED <<pages, call, tree>>
    /\ UNCHANGED <<catMutex, walk, prepared, history, killed>>

(* The new item gets the signature of a root: nobody looks for one until    *)
(* category_all_mutex is released.                                          *)
RootMade(p) ==
    LET n == call[p].page IN
    /\ pc[p] = "making" /\ call[p] # NoItem /\ lost = {}
    /\ \E i \in OnTheWay(p) :
          /\ pages' = [pages EXCEPT ![n] = Signed(Handed(@, i))]
          /\ tree' = [tree EXCEPT ![p] = RootOf(n, pages[n].moving[i])]
    /\ call' = [call EXCEPT ![p] = NoItem]
    /\ allMutex' = NoProc
    /\ Becomes(p, "idle")
    /\ UNCHANGED <<catMutex, walk, prepared, history, killed>>

\* An operation on the tree.
WantCategory(p) ==
    /\ pc[p] = "idle"
    /\ Becomes(p, "wantCategory")
    /\ UNCHANGED <<pages, allMutex, catMutex, walk, call, tree, prepared, history, killed>>

\* Slip: the mutex is not waited for.
CategoryBeginAnyway(p) ==
    /\ pc[p] = "wantCategory"
    /\ catMutex' = p
    /\ Becomes(p, "inside")
    /\ UNCHANGED <<pages, allMutex, walk, call, tree, prepared, history, killed>>

CategoryBegin(p) ==
    /\ pc[p] = "wantCategory" /\ catMutex = NoProc
    /\ catMutex' = p
    /\ Becomes(p, "inside")
    /\ UNCHANGED <<pages, allMutex, walk, call, tree, prepared, history, killed>>

\* SHMALLOC of a node that does get its memory; otherwise nothing changes.
Allocate(p) ==
    /\ pc[p] = "inside" /\ call[p] = NoItem /\ lost = {}
    /\ \E q \in Requests : Shmalloc(p, q)
    /\ UNCHANGED <<procVars, walk, tree, prepared, history, killed>>

\* SHMFREE of any node.
Free(p) ==
    /\ pc[p] = "inside" /\ call[p] = NoItem /\ lost = {}
    /\ \E n \in Pages : \E i \in DOMAIN pages[n].used :
          ~pages[n].used[i].root /\ Shmfree(p, n, i)
    /\ UNCHANGED <<procVars, walk, tree, prepared, history, killed>>

\* The second half of either.
Link(p) ==
    LET n == call[p].page IN
    /\ pc[p] = "inside" /\ call[p] # NoItem /\ lost = {}
    /\ \E i \in OnTheWay(p) :
          pages' = [pages EXCEPT ![n] =
                       IF call[p].to = "used" THEN Handed(@, i) ELSE Returned(@, i)]
    /\ call' = [call EXCEPT ![p] = NoItem]
    /\ UNCHANGED <<procVars, walk, tree, prepared, history, killed>>

\* Slip: the operation returns without unlocking.
CategoryEndKeeps(p) ==
    /\ pc[p] = "inside" /\ call[p] = NoItem
    /\ Becomes(p, "idle")
    /\ UNCHANGED <<pages, allMutex, catMutex, walk, call, tree, prepared, history, killed>>

CategoryEnd(p) ==
    /\ pc[p] = "inside" /\ call[p] = NoItem
    /\ catMutex' = NoProc
    /\ Becomes(p, "idle")
    /\ UNCHANGED <<pages, allMutex, walk, call, tree, prepared, history, killed>>

-----------------------------------------------------------------------------

Next ==
    \/ ServerStart \/ ServerStop
    \/ \E p \in Procs :
          \/ ClientJoin(p) \/ ClientLeave(p) \/ Kill(p)
          \/ RebuildBegin(p) \/ PrintBegin(p)
          \/ RebuildClear(p) \/ RebuildMark(p) \/ RebuildReset(p)
          \/ TreeBegin(p) \/ MakeTree(p) \/ RootMade(p)
          \/ WantCategory(p) \/ CategoryBegin(p)
          \/ Allocate(p) \/ Free(p) \/ Link(p) \/ CategoryEnd(p)

(* What a process does next unless it waits for a mutex or for work to do.  *)
Goes(p) ==
    \/ RebuildClear(p) \/ RebuildMark(p) \/ RebuildReset(p)
    \/ MakeTree(p) \/ RootMade(p) \/ Link(p)
\* What waits for a mutex, and what gives one back.
Turns(p) == RebuildBegin(p) \/ TreeBegin(p) \/ CategoryBegin(p) \/ CategoryEnd(p)

(* A process that runs goes on, and an operation calls the allocator a      *)
(* finite number of times; a mutex that inherits priorities is handed to    *)
(* who waits longest (smmr_categories.c:75, 93), so nobody is passed over   *)
(* for ever.                                                                *)
Fairness == \A p \in Procs : WF_vars(Goes(p)) /\ SF_vars(Turns(p))

Spec == Init /\ [][Next]_vars /\ Fairness

-----------------------------------------------------------------------------
(* Properties *)

(* The state has its types.                                                 *)
TypeOK ==
    /\ pages \in [Pages -> Page]
    /\ pc \in [Procs -> States]
    /\ allMutex \in Procs \cup {NoProc} /\ catMutex \in Procs \cup {NoProc}
    /\ walk \in [Procs -> [page : 0 .. NPages, todo : {"clear", "mark", "reset"}]]
    /\ call \in [Procs -> Call \cup {NoItem}]
    /\ tree \in [Procs -> Handle \cup {NoItem}]
    /\ prepared \in BOOLEAN /\ early \in BOOLEAN /\ again \in BOOLEAN
    /\ lost \subseteq Pages /\ killed \in 0 .. MaxKills

(* Whatever the processes do with one another's pages, no byte belongs to   *)
(* two items, nor to an item and the room new items are cut from, and the   *)
(* bucket's header stays inside its page (smmr_memory.c:695-731, 763-836,   *)
(* 1226-1322) - until a page is reset under an item in use.                 *)
BlocksApart == \A n \in Pages \ lost : PageSound(pages[n])

(* All processes that waited for the server work on one tree, whose root    *)
(* outlives every rebuild: who comes later attaches to the root the first   *)
(* one made (smmr_tree.c:88-93), and nobody makes another one beside it.    *)
RootShared ==
    ~early =>
        /\ \A x, y \in Roots : x = y
        /\ \A p \in Procs : tree[p] # NoItem =>
              \E x \in Roots : /\ x[1] \notin lost
                              /\ tree[p] = RootOf(x[1], pages[x[1]].used[x[2]])

(* "Only once, in the main process" (smmr_memory.c:307): when only the      *)
(* server rebuilt the pages and everybody waited for it, no page is ever    *)
(* reset under an item in use, by the status page either.                   *)
OnceIsSafe == ~early /\ ~again => lost = {}

(* A rebuild makes an item given back findable for every request it holds,  *)
(* and room in the bucket that exceeds the header and footer charged twice  *)
(* for every item in use (smmr_memory.c:970-983, 1044-1053).                *)
RebuildSeesRoom ==
    [][\A p \in Procs, n \in Pages :
          At(p, "mark") /\ walk[p].page = n /\ walk'[p] # walk[p] /\ ~pages'[n].err =>
             LET r == pages'[n] IN
             /\ \A i \in DOMAIN r.free, q \in Requests :
                   r.free[i].len >= q + HF => StartClass(q) \in r.recycle
             /\ \A q \in Requests :
                   /\ r.left - HF * Len(r.used) > Limit[1]
                   /\ r.left - HF * Len(r.used) >= q
                   => DcClass(StartClass(q)) \in r.dc
      ]_vars

(* The pages are a heap of blocks as its users expect it.                   *)
Blocks == UNION {{[page |-> n, at |-> pages[n].used[i].at, len |-> pages[n].used[i].len]
                    : i \in DOMAIN pages[n].used} : n \in Pages \ lost}
Held == [n \in Pages |-> IF n \in lost THEN 0 ELSE Len(pages[n].used)]
Heap == INSTANCE SmmrHeap WITH inUse <- Blocks, held <- Held, gone <- lost
ImplementsHeap == Heap!Promise

(* Who waits for a mutex gets it, unless that mutex was left locked by a    *)
(* process that was killed - a process killed under the other one keeps     *)
(* nobody out: there is no order of the two in which processes wait for     *)
(* one another (smmr_categories.c:185, smmr_tree.c:79, 238).                *)
Needed(p) == IF pc[p] = "wantCategory" THEN catMutex ELSE allMutex
Orphaned(p) == Needed(p) # NoProc /\ pc[Needed(p)] = "dead"
WaiterGetsIn == \A p \in Procs : []<>(pc[p] \in Waiting => Orphaned(p) \/ lost # {})
=============================================================================
