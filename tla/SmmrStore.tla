----------------------------- MODULE SmmrStore -----------------------------
(***************************************************************************)
(* The database (deps/smmr/smmr_database.c): values in data files that     *)
(* several processes map, found through the index.  A store and a search   *)
(* are sequences of critical sections: under the category's mutex the      *)
(* entries of a hash are gone through, then, without it, a data file is    *)
(* allocated from under its own mutex, then the index is changed under the *)
(* category's again.  Each section is one action here, and other processes *)
(* act between them, or the process is killed.                             *)
(*                                                                         *)
(* One category is modelled: entries of different categories share nothing *)
(* but the data files.  Lengths are in pages of IPC_DATAFILE_ALIGNED bytes. *)
(*                                                                         *)
(* The index is a parameter: the runs take the operators of SmmrBtree, the *)
(* proofs rely on what IndexAssumption says of them.                       *)
(***************************************************************************)
EXTENDS Naturals, SequencesExt

CONSTANTS
    EmptyIndex,
    Indexes,             \* those that insertions and removals lead to
    IndexAdd(_, _),      \* add_tree_safe
    IndexRemove(_, _),   \* remove_tree_safe
    IndexHits(_, _, _)   \* what a scan for a hash calls back with

CONSTANTS
    Procs,          \* processes that have the database open
    Keys,
    MortalKeys,     \* those stored with an expiry time
    Values,
    Stores,         \* what the processes store: pairs of a key and a value
    HashOf,         \* hash of each key; no category takes the hash 0
    PagesOf,        \* pages that an item with this value takes up
    NFiles,         \* IPC_DATAFILE_MAX
    NPages,         \* IPC_DATAFILE_PAGECNT, the pages of a data file
    HeaderPages,    \* pages of the file that its header takes up
    OffsetPages,    \* pages that the 24 bits of data_offset can tell apart
    FreeUnit,       \* what a freed page adds to the length that remains: 128
    ReservedMax,    \* REMOVE_RESERVED_COUNT
    MaxRemain,      \* bound: no search when a file is said to have more left
    NoItem,         \* no item begins at this place
    NoValue         \* a search found nothing

Files == 0 .. NFiles - 1
Pages == 0 .. NPages - 1
Places == Files \X Pages

\* What the index holds for a place: node_key keeps 24 bits of the offset.
Recorded(page) == (page + HeaderPages) % OffsetPages

\* The index items, <<hash, file, offset>>: page 0 is never handed out.
EntriesOf(k) == {HashOf[k]} \X Files \X {Recorded(i) : i \in Pages \ {0}}
Entries == UNION {EntriesOf(k) : k \in Keys}

\* The entries that an index has for a key's hash.
Held(t, k) == ToSet(IndexHits(t, HashOf[k], {}))

\* An index is a set of entries.  A scan for a hash meets all of them unless it
\* is stopped; it is stopped by none but them, and not before it has met one
\* that stops it.
ASSUME IndexAssumption ==
    /\ EmptyIndex \in Indexes
    /\ \A k \in Keys : Held(EmptyIndex, k) = {}
    /\ \A t \in Indexes, k \in Keys :
          /\ Held(t, k) \subseteq EntriesOf(k)
          /\ \A stops \in SUBSET EntriesOf(k) :
                LET hits == IndexHits(t, HashOf[k], stops)
                    met  == stops \cap Held(t, k)
                IN  /\ hits \in Seq(Held(t, k)) /\ hits = IndexHits(t, HashOf[k], met)
                    /\ met # {} => ToSet(hits) \cap met # {}
    /\ \A t \in Indexes, x \in Entries :
          /\ {IndexAdd(t, x), IndexRemove(t, x)} \subseteq Indexes
          /\ \A k \in Keys :
                /\ Held(IndexAdd(t, x), k)
                     = Held(t, k) \cup (IF x[1] = HashOf[k] THEN {x} ELSE {})
                /\ Held(IndexRemove(t, x), k) = Held(t, k) \ {x}

\* An item of a data file; dead: its time has passed.
Item == [key : Keys, val : Values, dead : BOOLEAN]

ASSUME StoreAssumption ==
    /\ MortalKeys \subseteq Keys
    /\ Stores \subseteq Keys \X Values
    /\ HashOf \in [Keys -> Nat]
    /\ PagesOf \in [Values -> Nat \ {0}]
    /\ {NFiles, NPages, HeaderPages, OffsetPages, ReservedMax} \subseteq Nat \ {0}
    /\ FreeUnit \in Nat \ {0, 1}
    /\ NoItem \notin Item /\ NoValue \notin Values

VARIABLES
    root,       \* the index
    cell,       \* the item that begins at each page
    used,       \* the pages whose bit is set in the bitmap of their file
    remain,     \* remain_length of each file
    length,     \* used_length of each file, without the header
    overrun,    \* a process has written past the end of a data file
    proc,       \* where each process is
    last        \* history: the value of the last store, if nothing came after it

vars == <<root, cell, used, remain, length, overrun, proc, last>>
files == <<cell, used, remain, length>>

Idle == [at |-> "idle"]

Init ==
    /\ root = EmptyIndex
    /\ cell = [x \in Places |-> NoItem]
    /\ used = {}
    /\ remain = [f \in Files |-> NPages]
    /\ length = [f \in Files |-> 0]
    /\ overrun = FALSE
    /\ proc = [p \in Procs |-> Idle]
    /\ last = [k \in Keys |-> NoValue]

-----------------------------------------------------------------------------
(* Entries and what they name *)

Place(x) == <<x[2], x[3] - HeaderPages>>
ItemAt(x) == IF Place(x) \in Places THEN cell[Place(x)] ELSE NoItem

IsDead(x) == ItemAt(x) \in [key : Keys, val : Values, dead : {TRUE}]

Matches(x, k) == ItemAt(x) \in [key : {k}, val : Values, dead : {FALSE}]

\* The callbacks of searches and stores stop a scan at an entry of the key, and
\* where there is no item; they go on past other keys' and expired entries.
StopsAt(x, k) == ItemAt(x) = NoItem \/ Matches(x, k)

\* The entries that a search or store for k is called back with.
Visited(k) == IndexHits(root, HashOf[k], {x \in EntriesOf(k) : StopsAt(x, k)})

\* What a search for k answers: the last entry that stops a scan decides.
Found(k) ==
    LET Answer[met \in Seq(Entries)] ==
            LET stopped == {i \in DOMAIN met : StopsAt(met[i], k)}
                x       == met[Max(stopped)]
            IN  IF stopped # {} /\ Matches(x, k) THEN ItemAt(x).val ELSE NoValue
    IN  Answer[Visited(k)]

PagesFrom(place, n) == {<<place[1], place[2] + i>> : i \in 0 .. n - 1}
Extent(x) == PagesFrom(Place(x), PagesOf[ItemAt(x).val])

FileAt(k, turn) == (HashOf[k] + turn) % NFiles

Storing(p, k) ==
    IF proc[p].at \in {"place", "index"} THEN proc[p].key = k ELSE FALSE

-----------------------------------------------------------------------------
(* Searches *)

\* _findindex_callback_for_search meets expired entries: their pages are given
\* back at once, the first few are remembered for removal from the index.  (A
\* search that meets none changes nothing.)
Search(p, k) ==
    LET met  == Visited(k)
        dead == {i \in DOMAIN met : IsDead(met[i])}
        Rank(i) == Cardinality({j \in dead : j < i})
        Given(f) == UNION {{x} \X Extent(x) : x \in {y \in {met[i] : i \in dead} : y[2] = f}}
    IN  /\ proc[p] = Idle /\ dead # {}
        /\ used' = used \ UNION {Extent(met[i]) : i \in dead}
        /\ remain' = [f \in Files |-> remain[f] + FreeUnit * Cardinality(Given(f))]
        /\ \A f \in Files : remain'[f] <= MaxRemain
        /\ proc' = [proc EXCEPT ![p] =
                      [at |-> "expire",
                       left |-> {<<Rank(i), met[i]>> : i \in {j \in dead : Rank(j) < ReservedMax}}]]
        /\ UNCHANGED <<root, cell, length, overrun, last>>

\* The search then removes them one by one in that order (remove_tree_safe).
RemoveExpired(p) ==
    /\ proc[p].at = "expire"
    /\ \E y \in proc[p].left :
          /\ \A z \in proc[p].left : y[1] <= z[1]
          /\ root' = IndexRemove(root, y[2])
          /\ proc' = [proc EXCEPT ![p] =
                        IF proc[p].left = {y} THEN Idle
                        ELSE [at |-> "expire", left |-> proc[p].left \ {y}]]
    /\ UNCHANGED <<files, overrun, last>>

-----------------------------------------------------------------------------
(* Stores *)

\* Whether v fits where the item that x names is.
Overwritable(x, v) == PagesOf[ItemAt(x).val] >= PagesOf[v]

\* store goes through the entries first (_findindex_callback_for_update_insert)
\* and overwrites those of the key where the value fits.  Whatever it has done,
\* the callback leaves RET_MOREDATA behind, so an insertion always follows.
Store(p, k, v) ==
    LET written == {Place(x) : x \in {y \in ToSet(Visited(k)) :
                                         Matches(y, k) /\ Overwritable(y, v)}}
    IN  /\ proc[p] = Idle
        /\ cell' = [x \in Places |-> IF x \in written
                                     THEN [cell[x] EXCEPT !.val = v] ELSE cell[x]]
        /\ proc' = [proc EXCEPT ![p] = [at |-> "place", key |-> k, val |-> v, turn |-> 0]]
        /\ last' = [last EXCEPT ![k] = NoValue]
        /\ UNCHANGED <<root, used, remain, length, overrun>>

\* Slip: only the first page is looked at.
RunsFirstOnly(f, n) == {i \in Pages \ {0} : i + n <= NPages /\ <<f, i>> \notin used}

\* The starts of runs of n free pages; page 0 is never looked at.
Runs(f, n) ==
    {i \in Pages \ {0} : i + n <= NPages /\ PagesFrom(<<f, i>>, n) \cap used = {}}

Placed(p, f, page) ==
    [at |-> "index", key |-> proc[p].key, val |-> proc[p].val,
     item |-> <<HashOf[proc[p].key], f, Recorded(page)>>]

\* The item written at a page; the pages behind it hold no other any longer.
Written(p, f, page) ==
    LET first == <<f, page>>
        body  == PagesFrom(first, PagesOf[proc[p].val])
    IN  [x \in Places |->
            IF x = first
            THEN [key |-> proc[p].key, val |-> proc[p].val, dead |-> FALSE]
            ELSE IF x \in body THEN NoItem ELSE cell[x]]

\* Slip: the bits of a long item's later pages stay clear.
MarkedFirstOnly(f, page, n) == {<<f, page>>}

\* Slip: one page too many is marked.
MarkedOneMore(f, page, n) == PagesFrom(<<f, page>>, n + 1)

Marked(f, page, n) == PagesFrom(<<f, page>>, n)

\* insert_to_datafile_at_freepage finds room in the file whose turn it is.
TakePages(p) ==
    LET f == FileAt(proc[p].key, proc[p].turn)
        n == PagesOf[proc[p].val]
    IN  /\ proc[p].turn < NFiles
        /\ remain[f] > n
        /\ \E page \in Runs(f, n) :
              /\ \A i \in Runs(f, n) : page <= i
              /\ used' = used \cup Marked(f, page, n)
              /\ cell' = Written(p, f, page)
              /\ length' = [length EXCEPT ![f] = IF page + n > @ THEN page + n ELSE @]
              /\ remain' = [remain EXCEPT ![f] = @ - n]
              /\ proc' = [proc EXCEPT ![p] = Placed(p, f, page)]
        /\ UNCHANGED <<root, overrun, last>>

\* insert_to_datafile, in the second round: the item goes behind the last one,
\* though the first round has found that there is no room.
AppendItem(p) ==
    LET f == FileAt(proc[p].key, proc[p].turn)
        n == PagesOf[proc[p].val]
    IN  /\ proc[p].turn >= NFiles
        /\ remain[f] > n
        /\ overrun' = (length[f] + n > NPages)
        \* the bits marked are those of the pages a header's length further on
        /\ used' = used \cup (PagesFrom(<<f, length[f] + HeaderPages>>, n) \cap Places)
        /\ cell' = Written(p, f, length[f])
        /\ length' = [length EXCEPT ![f] = @ + n]
        /\ remain' = [remain EXCEPT ![f] = @ - n]
        /\ proc' = [proc EXCEPT ![p] = Placed(p, f, length[f])]
        /\ UNCHANGED <<root, last>>

\* Slip: a file is taken for full when a long item finds no run of pages.
RemainAfterHasty(f, n) == 0

\* What is left of a file in which no run of n pages was found: a single page
\* that finds none shows that the file is full.
RemainAfter(f, n) == IF n = 1 THEN 0 ELSE remain[f]

\* The file whose turn it is has no room; after the last turn the store fails.
PassFile(p) ==
    LET f == FileAt(proc[p].key, proc[p].turn)
        n == PagesOf[proc[p].val]
    IN  /\ remain[f] > n => proc[p].turn < NFiles /\ Runs(f, n) = {}
        /\ remain' = IF remain[f] > n
                     THEN [remain EXCEPT ![f] = RemainAfter(f, n)] ELSE remain
        /\ proc' = IF proc[p].turn = 2 * NFiles - 1 THEN [proc EXCEPT ![p] = Idle]
                   ELSE [proc EXCEPT ![p].turn = @ + 1]
        /\ UNCHANGED <<root, cell, used, length, overrun, last>>

Allocate(p) ==
    /\ proc[p].at = "place"
    /\ TakePages(p) \/ AppendItem(p) \/ PassFile(p)

\* add_tree_safe puts the new place into the index and the store has succeeded,
\* except that the hash 0 belongs to no category.
AddIndex(p) ==
    /\ proc[p].at = "index"
    /\ root' = IF proc[p].item[1] = 0 THEN root ELSE IndexAdd(root, proc[p].item)
    /\ last' = IF \E q \in Procs \ {p} : Storing(q, proc[p].key) THEN last
               ELSE [last EXCEPT ![proc[p].key] =
                        IF proc[p].item[1] = 0 THEN NoValue ELSE proc[p].val]
    /\ proc' = [proc EXCEPT ![p] = Idle]
    /\ UNCHANGED <<files, overrun>>

-----------------------------------------------------------------------------

\* A process is killed between two critical sections, and started again.
Kill(p) ==
    /\ proc[p] # Idle
    /\ proc' = [proc EXCEPT ![p] = Idle]
    /\ UNCHANGED <<root, files, overrun, last>>

\* An item's time passes.
Lapse(x) ==
    /\ cell[x] # NoItem
    /\ cell[x].key \in MortalKeys /\ ~cell[x].dead
    /\ cell' = [cell EXCEPT ![x].dead = TRUE]
    /\ UNCHANGED <<root, used, remain, length, overrun, proc, last>>

\* What follows an overrun is undefined.
Next ==
    /\ ~overrun
    /\ \/ \E p \in Procs, k \in Keys : Search(p, k)
       \/ \E p \in Procs, s \in Stores : Store(p, s[1], s[2])
       \/ \E p \in Procs : RemoveExpired(p) \/ Allocate(p) \/ AddIndex(p) \/ Kill(p)
       \/ \E x \in Places : Lapse(x)

Spec == Init /\ [][Next]_vars

-----------------------------------------------------------------------------
(* Properties *)

Lasting == Keys \ MortalKeys

LiveEntries(k) == {x \in Held(root, k) : Matches(x, k)}

ProcState ==
    {Idle}
    \cup [at : {"expire"}, left : SUBSET (Nat \X Entries)]
    \cup [at : {"place"}, key : Keys, val : Values, turn : 0 .. 2 * NFiles - 1]
    \cup [at : {"index"}, key : Keys, val : Values, item : Nat \X Files \X Nat]

TypeOK ==
    /\ \A k \in Keys : Held(root, k) \subseteq Entries
    /\ cell \in [Places -> Item \cup {NoItem}]
    /\ used \subseteq Places
    /\ remain \in [Files -> Nat]
    /\ length \in [Files -> Nat]
    /\ overrun \in BOOLEAN
    /\ proc \in [Procs -> ProcState]
    /\ last \in [Keys -> Values \cup {NoValue}]

(* The pages of an entry that has not expired are marked used, and no other *)
(* such entry has any of them, although searches give pages back while the  *)
(* index still names them, twice if two searches or a killed one meet       *)
(* (smmr_database.c:161-175, 80-87, 833-842).                               *)
LiveItemsApart ==
    LET live == UNION {LiveEntries(k) : k \in Keys}
    IN  /\ \A x \in live : Extent(x) \subseteq used
        /\ \A x, y \in live : Place(x) # Place(y) => Extent(x) \cap Extent(y) = {}

(* A file that has free pages is looked at by every store that needs but    *)
(* one, until a process has written past its end: the length said to remain *)
(* is above it whatever the order of stores, failed searches for room and   *)
(* expiries (smmr_database.c:561, 581, 842).                                *)
RoomIsSeen == ~overrun => \A f \in Files : Runs(f, 1) # {} => remain[f] > 1

(* Lasting entries behave as the daemon's model takes it, whatever other    *)
(* processes do between the sections of a store and even if they are killed *)
(* there (smmr_database.c:217-303).                                         *)
CopiesOf(k) == {ItemAt(x).val : x \in LiveEntries(k)}

Kv(k) == INSTANCE SmmrKv WITH copies <- CopiesOf(k), visible <- Found(k)

ImplementsKv ==
    /\ \A k \in Lasting : Kv(k)!KvInit
    /\ [][\/ UNCHANGED <<root, cell>>
          \/ \A k \in Lasting : [Kv(k)!KvStep]_<<CopiesOf(k), Found(k)>>]_vars

(* smmr_memory_test.cc:72-84 stores a value and expects to find it.         *)
LastStoredIsFound == \A k \in Lasting : last[k] # NoValue => Found(k) = last[k]
=============================================================================
