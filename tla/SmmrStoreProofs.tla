-------------------------- MODULE SmmrStoreProofs --------------------------
(***************************************************************************)
(* Proofs about the database: that items with an entry stay apart and that *)
(* room in a file is seen.  Both rest on what holds of a data file until a *)
(* process has written past its end (Sound): every item lies between page  *)
(* 0 and the file's length, no two overlap, the expired ones included, and *)
(* each is marked from its first page to its last or not at all.  A scan   *)
(* takes the first run of free pages, so it cannot start within the pages  *)
(* of an expired item that was given back: it would have started at the    *)
(* head of that item, which it overwrites.                                 *)
(*                                                                         *)
(* The proofs hold for every index that IndexAssumption describes.         *)
(***************************************************************************)
EXTENDS SmmrStore, Integers, FiniteSetTheorems, WellFoundedInduction, TLAPS

-----------------------------------------------------------------------------
(* The invariant *)

UsedIn(f) == {x \in used : x[1] = f}
Filled(x) == cell[x] # NoItem
Body(x) == PagesFrom(x, PagesOf[cell[x].val])

CellInFile(x) ==
    /\ x[2] # 0
    /\ x[2] + PagesOf[cell[x].val] <= length[x[1]]
    /\ Body(x) \subseteq used \/ Body(x) \cap used = {}
    /\ ~cell[x].dead => Body(x) \subseteq used

CellsInFile == \A x \in Places : Filled(x) => CellInFile(x)

CellsApart ==
    \A x, y \in Places : Filled(x) /\ Filled(y) /\ x # y => Body(x) \cap Body(y) = {}

UsedBelow == \A x \in used : x[2] # 0 /\ x[2] < length[x[1]]

\* What is said to remain, with the pages marked, is a whole file, or it is full.
Counted ==
    \A f \in Files : remain[f] + Cardinality(UsedIn(f)) >= NPages \/ Runs(f, 1) = {}

Bounded ==
    \A f \in Files : length[f] <= NPages /\ (length[f] = 0 => remain[f] <= NPages)

\* An item of n pages behind the last one does not fit in, or is not tried.
Hopeless(f, n) == length[f] + n > NPages \/ (length[f] = 0 /\ n >= NPages)

Passed ==
    \A p \in Procs : proc[p].at = "place" =>
        \A t \in 0 .. NFiles - 1 :
            t < proc[p].turn => Hopeless(FileAt(proc[p].key, t), PagesOf[proc[p].val])

Names(x) == x[3] < length[x[2]] + HeaderPages

Named ==
    /\ \A k \in Keys : \A x \in Held(root, k) : Names(x)
    /\ \A p \in Procs : proc[p].at = "index" => proc[p].item \in Entries /\ Names(proc[p].item)

InFiles == CellsInFile /\ CellsApart /\ UsedBelow /\ Counted /\ Bounded

Sound == InFiles /\ Passed /\ Named

Typed ==
    /\ root \in Indexes
    /\ cell \in [Places -> Item \cup {NoItem}]
    /\ used \subseteq Places
    /\ remain \in [Files -> Nat]
    /\ length \in [Files -> Nat]
    /\ overrun \in BOOLEAN
    /\ proc \in [Procs -> ProcState]
    /\ last \in [Keys -> Values \cup {NoValue}]

IInv == Typed /\ LiveItemsApart /\ (~overrun => Sound)

-----------------------------------------------------------------------------
(* Arithmetic *)

LEMMA Divided ==
    ASSUME NEW n \in Nat \ {0}, NEW a \in Nat
    PROVE  \E q \in Int : a = (q * n) + (a % n) /\ a % n \in 0 .. n - 1
<1> WITNESS a \div n \in Int
<1> QED BY SMT

LEMMA SmallMultiple ==
    ASSUME NEW n \in Nat \ {0}, NEW d \in Int, d * n < n, 0 - n < d * n
    PROVE  d = 0
<1>1. d >= 1 => d * n >= n
  BY SMT
<1>2. d <= 0 - 1 => d * n <= 0 - n
  BY SMT
<1> QED BY <1>1, <1>2, SMT

LEMMA Around ==
    ASSUME NEW n \in Nat \ {0}, NEW a \in Nat
    PROVE  (a + n) % n = a % n
<1>1. PICK q \in Int : a = (q * n) + (a % n) /\ a % n \in 0 .. n - 1
  BY Divided
<1>2. a + n \in Nat
  OBVIOUS
<1>3. PICK r \in Int : a + n = (r * n) + ((a + n) % n) /\ (a + n) % n \in 0 .. n - 1
  BY <1>2, Divided
<1> DEFINE x == a % n
           y == (a + n) % n
           d == r - q - 1
<1>4. x \in 0 .. n - 1 /\ y \in 0 .. n - 1
  BY <1>1, <1>3
<1>5. d * n = (r * n) - (q * n) - n
  BY SMT
<1>6. r * n \in Int /\ q * n \in Int
  BY SMT
<1>7. d * n = x - y
  BY <1>1, <1>3, <1>5, <1>4, <1>6
<1>8. d * n < n /\ 0 - n < d * n
  BY <1>7, <1>4
<1>9. d = 0
  BY <1>8, SmallMultiple
<1>10. d * n = 0
  BY <1>9
<1> QED BY <1>10, <1>7, <1>4

LEMMA Scaled ==
    ASSUME NEW n \in Nat \ {0, 1}, NEW a \in Nat, NEW b \in Nat, b <= a
    PROVE  n * a \in Nat /\ n * a >= 2 * b
  BY SMT

LEMMA LastExists ==
    ASSUME NEW n \in Nat, NEW S \in SUBSET (1 .. n), S # {}
    PROVE  Max(S) \in S
<1> DEFINE T == {m \in Nat : \E i \in S : m = n - i}
<1>1. T \subseteq Nat /\ T # {}
  <2>1. PICK i \in S : TRUE
    OBVIOUS
  <2>2. n - i \in Nat
    OBVIOUS
  <2> QED BY <2>2
<1>2. PICK m \in T : \A l \in T : ~(<<l, m>> \in OpToRel(<, Nat))
  <2> HIDE DEF T
  <2> QED BY <1>1, NatLessThanWellFounded, WFMin
<1>3. PICK i \in S : m = n - i
  OBVIOUS
<1>4. ASSUME NEW j \in S
      PROVE  i >= j
  <2>1. n - j \in T /\ n - j \in Nat /\ m \in Nat
    OBVIOUS
  <2>2. ~(n - j < m)
    BY <2>1, <1>2 DEF OpToRel
  <2> QED BY <2>1, <2>2, <1>3
<1> QED BY <1>4 DEF Max

-----------------------------------------------------------------------------
(* Places and runs of pages *)

LEMMA Sizes ==
    /\ NFiles \in Nat \ {0} /\ NPages \in Nat \ {0} /\ HeaderPages \in Nat \ {0}
    /\ OffsetPages \in Nat \ {0} /\ FreeUnit \in Nat \ {0, 1}
    /\ \A v \in Values : PagesOf[v] \in Nat \ {0}
    /\ \A k \in Keys : HashOf[k] \in Nat
  BY StoreAssumption

LEMMA PlaceParts ==
    /\ \A x \in Places : /\ x = <<x[1], x[2]>> /\ x[1] \in Files
                         /\ x[2] \in Nat /\ x[2] < NPages
    /\ \A f \in Files, i \in Nat : i < NPages => <<f, i>> \in Places
  BY Sizes DEF Places, Pages, Files

LEMMA InPages ==
    ASSUME NEW x, x[2] \in Nat, NEW n \in Nat, NEW y
    PROVE  y \in PagesFrom(x, n) <=>
             \E j \in Nat : y = <<x[1], j>> /\ x[2] <= j /\ j < x[2] + n
<1>1. ASSUME NEW j \in Nat, y = <<x[1], j>>, x[2] <= j, j < x[2] + n
      PROVE  y \in PagesFrom(x, n)
  <2>1. j - x[2] \in 0 .. n - 1 /\ x[2] + (j - x[2]) = j
    BY <1>1
  <2> QED BY <1>1, <2>1 DEF PagesFrom
<1>2. ASSUME NEW i \in 0 .. n - 1, y = <<x[1], x[2] + i>>
      PROVE  \E j \in Nat : y = <<x[1], j>> /\ x[2] <= j /\ j < x[2] + n
  <2>1. x[2] + i \in Nat /\ x[2] <= x[2] + i /\ x[2] + i < x[2] + n
    OBVIOUS
  <2> QED BY <1>2, <2>1
<1> QED BY <1>1, <1>2 DEF PagesFrom

\* A run of pages within a file.
LEMMA RunInFile ==
    ASSUME NEW x \in Places, NEW n \in Nat \ {0}, x[2] + n <= NPages
    PROVE  /\ PagesFrom(x, n) \subseteq Places
           /\ x \in PagesFrom(x, n)
           /\ \A y \in PagesFrom(x, n) : y[1] = x[1] /\ x[2] <= y[2] /\ y[2] < x[2] + n
           /\ \A y \in Places : y[1] = x[1] /\ x[2] <= y[2] /\ y[2] < x[2] + n
                => y \in PagesFrom(x, n)
<1>1. x = <<x[1], x[2]>> /\ x[1] \in Files /\ x[2] \in Nat
  BY PlaceParts
<1>2. \A y : y \in PagesFrom(x, n) <=>
               \E j \in Nat : y = <<x[1], j>> /\ x[2] <= j /\ j < x[2] + n
  BY <1>1, InPages
<1>3. ASSUME NEW y \in PagesFrom(x, n)
      PROVE  y \in Places /\ y[1] = x[1] /\ x[2] <= y[2] /\ y[2] < x[2] + n
  <2>1. PICK j \in Nat : y = <<x[1], j>> /\ x[2] <= j /\ j < x[2] + n
    BY <1>2
  <2>2. j < NPages
    BY <2>1, <1>1, Sizes
  <2> QED BY <2>1, <2>2, <1>1, PlaceParts
<1>4. x \in PagesFrom(x, n)
  BY <1>1, <1>2
<1>5. ASSUME NEW y \in Places, y[1] = x[1], x[2] <= y[2], y[2] < x[2] + n
      PROVE  y \in PagesFrom(x, n)
  BY <1>5, <1>2, PlaceParts
<1> QED BY <1>3, <1>4, <1>5

LEMMA RunShorter ==
    ASSUME NEW x, x[2] \in Nat, NEW n \in Nat, NEW m \in Nat, m <= n
    PROVE  PagesFrom(x, m) \subseteq PagesFrom(x, n)
  BY DEF PagesFrom

LEMMA RunCounted ==
    ASSUME NEW x, x[2] \in Nat, NEW n \in Nat
    PROVE  IsFiniteSet(PagesFrom(x, n)) /\ Cardinality(PagesFrom(x, n)) = n
<1> DEFINE g == [i \in 0 .. n - 1 |-> <<x[1], x[2] + i>>]
<1>1. g \in Surjection(0 .. n - 1, PagesFrom(x, n))
  BY DEF Surjection, PagesFrom
<1>2. g \in Injection(0 .. n - 1, PagesFrom(x, n))
  <2>1. g \in [0 .. n - 1 -> PagesFrom(x, n)]
    BY DEF PagesFrom
  <2>2. ASSUME NEW i \in 0 .. n - 1, NEW j \in 0 .. n - 1, g[i] = g[j]
        PROVE  i = j
    <3>1. <<x[1], x[2] + i>>[2] = <<x[1], x[2] + j>>[2]
      BY <2>2
    <3> QED BY <3>1
  <2> QED BY <2>1, <2>2 DEF Injection, IsInjective
<1>3. IsFiniteSet(0 .. n - 1) /\ Cardinality(0 .. n - 1) = n
  BY FS_Interval
<1> QED BY <1>1, <1>2, <1>3, FS_Surjection

\* The pages of one file in a set of places.
LEMMA FileCounted ==
    ASSUME NEW U \in SUBSET Places, NEW f \in Files
    PROVE  /\ IsFiniteSet({x \in U : x[1] = f})
           /\ Cardinality({x \in U : x[1] = f}) \in Nat
<1> DEFINE all == PagesFrom(<<f, 0>>, NPages)
           some == {x \in U : x[1] = f}
<1>1. IsFiniteSet(all)
  BY Sizes, RunCounted
<1>2. some \in SUBSET all
  <2>1. \A x \in some : x \in all
    <3> TAKE x \in some
    <3>1. x = <<f, x[2]>> /\ x[2] \in Nat /\ x[2] < NPages
      BY PlaceParts
    <3> QED BY <3>1, InPages, Sizes
  <2> QED BY <2>1
<1>3. IsFiniteSet(some)
  BY <1>1, <1>2, FS_Subset
<1> QED BY <1>3, FS_CardinalityType

LEMMA FullCounted ==
    ASSUME NEW U \in SUBSET Places, NEW f \in Files,
           \A i \in Pages \ {0} : <<f, i>> \in U
    PROVE  Cardinality({x \in U : x[1] = f}) >= NPages - 1
<1> DEFINE all == PagesFrom(<<f, 1>>, NPages - 1)
           some == {x \in U : x[1] = f}
<1>1. NPages - 1 \in Nat
  BY Sizes
<1>2. Cardinality(all) = NPages - 1
  BY <1>1, RunCounted
<1>3. all \in SUBSET some
  <2>1. ASSUME NEW x \in all
        PROVE  x \in some
    <3>1. PICK j \in Nat : x = <<f, j>> /\ 1 <= j /\ j < 1 + (NPages - 1)
      BY <1>1, InPages
    <3>2. j \in Pages \ {0}
      BY <3>1, Sizes DEF Pages
    <3> QED BY <3>1, <3>2
  <2> QED BY <2>1
<1>4. IsFiniteSet(some)
  BY FileCounted
<1> QED BY <1>2, <1>3, <1>4, FS_Subset

\* Marked pages of a file that are all below l leave that many uncounted.
LEMMA BelowCounted ==
    ASSUME NEW U \in SUBSET Places, NEW f \in Files, NEW l \in Nat,
           \A x \in U : x[1] = f => x[2] # 0 /\ x[2] < l
    PROVE  /\ l = 0 => Cardinality({x \in U : x[1] = f}) = 0
           /\ l # 0 => Cardinality({x \in U : x[1] = f}) <= l - 1
<1> DEFINE some == {x \in U : x[1] = f}
           all == PagesFrom(<<f, 1>>, l - 1)
<1>1. ASSUME l = 0
      PROVE  Cardinality(some) = 0
  <2>1. some = {}
    BY <1>1, PlaceParts
  <2> QED BY <2>1, FS_EmptySet
<1>2. ASSUME l # 0
      PROVE  Cardinality(some) <= l - 1
  <2>1. l - 1 \in Nat
    BY <1>2
  <2>2. IsFiniteSet(all) /\ Cardinality(all) = l - 1
    BY <2>1, RunCounted
  <2>3. some \in SUBSET all
    <3>1. ASSUME NEW x \in some
          PROVE  x \in all
      <4>1. x = <<f, x[2]>> /\ x[2] \in Nat /\ x[2] # 0 /\ x[2] < l
        BY PlaceParts
      <4>2. 1 <= x[2] /\ x[2] < 1 + (l - 1)
        BY <4>1
      <4> QED BY <2>1, <4>1, <4>2, InPages
    <3> QED BY <3>1
  <2> QED BY <2>2, <2>3, FS_Subset
<1> QED BY <1>1, <1>2

LEMMA RoomUncounted ==
    ASSUME NEW U \in SUBSET Places, NEW f \in Files, NEW i \in Pages \ {0},
           <<f, i>> \notin U, \A x \in U : x[2] # 0
    PROVE  Cardinality({x \in U : x[1] = f}) <= NPages - 2
<1> DEFINE V == U \cup {<<f, i>>}
           some == {x \in U : x[1] = f}
           more == {x \in V : x[1] = f}
<1>1. i \in Nat /\ i # 0 /\ i < NPages /\ <<f, i>> \in Places
  BY PlaceParts, Sizes DEF Pages
<1>2. V \in SUBSET Places
  BY <1>1
<1>3. \A x \in V : x[1] = f => x[2] # 0 /\ x[2] < NPages
  BY <1>1, PlaceParts
<1>4. Cardinality(more) <= NPages - 1
  BY <1>2, <1>3, Sizes, BelowCounted
<1>5. more = some \cup {<<f, i>>} /\ <<f, i>> \notin some
  OBVIOUS
<1>6. IsFiniteSet(some) /\ Cardinality(some) \in Nat
  BY FileCounted
<1>7. Cardinality(more) = Cardinality(some) + 1
  BY <1>5, <1>6, FS_AddElement
<1> QED BY <1>4, <1>6, <1>7, Sizes

LEMMA NoRoom ==
    ASSUME NEW U \in SUBSET Places, NEW f \in Files
    PROVE  {i \in Pages \ {0} : i + 1 <= NPages /\ PagesFrom(<<f, i>>, 1) \cap U = {}}
             = {i \in Pages \ {0} : <<f, i>> \notin U}
<1>1. ASSUME NEW i \in Pages \ {0}
      PROVE  i + 1 <= NPages /\ PagesFrom(<<f, i>>, 1) = {<<f, i>>}
  <2>1. i \in Nat /\ i + 1 <= NPages
    BY Sizes DEF Pages
  <2>2. 0 .. 1 - 1 = {0} /\ i + 0 = i
    BY <2>1
  <2> QED BY <2>1, <2>2 DEF PagesFrom
<1> QED BY <1>1

-----------------------------------------------------------------------------
(* Items and entries *)

LEMMA ItemIs ==
    \A y : y \in Item => /\ y # NoItem /\ y.val \in Values /\ y.key \in Keys
                         /\ y.dead \in BOOLEAN /\ PagesOf[y.val] \in Nat \ {0}
  BY StoreAssumption, Sizes DEF Item

LEMMA CellIs ==
    ASSUME Typed, NEW x \in Places, Filled(x)
    PROVE  cell[x] \in Item /\ PagesOf[cell[x].val] \in Nat \ {0}
<1>1. cell[x] \in Item
  BY DEF Typed, Filled
<1> QED BY <1>1, ItemIs

LEMMA BodyIs ==
    ASSUME Typed, CellsInFile, Bounded, NEW x \in Places, Filled(x)
    PROVE  /\ Body(x) \subseteq Places
           /\ x \in Body(x)
           /\ \A y \in Body(x) : y[1] = x[1] /\ x[2] <= y[2] /\ y[2] < length[x[1]]
<1>1. PagesOf[cell[x].val] \in Nat \ {0}
  BY CellIs
<1>2. /\ x[2] + PagesOf[cell[x].val] <= length[x[1]]
      /\ length[x[1]] <= NPages /\ length[x[1]] \in Nat
      /\ x[2] \in Nat
  BY PlaceParts DEF CellsInFile, CellInFile, Bounded, Typed
<1>3. x[2] + PagesOf[cell[x].val] <= NPages
  BY <1>1, <1>2, Sizes
<1>4. /\ Body(x) \subseteq Places
      /\ x \in Body(x)
      /\ \A y \in Body(x) : y[1] = x[1] /\ x[2] <= y[2] /\ y[2] < x[2] + PagesOf[cell[x].val]
  BY <1>1, <1>3, RunInFile DEF Body
<1>5. \A y \in Body(x) : y[2] \in Nat
  BY <1>4, PlaceParts
<1> QED BY <1>1, <1>2, <1>4, <1>5

LEMMA EntryIs ==
    ASSUME NEW x \in Entries
    PROVE  /\ x \in Nat \X Files \X Nat
           /\ x[1] \in Nat /\ x[2] \in Files /\ x[3] \in Nat
<1>1. \A i \in Pages : Recorded(i) \in Nat
  BY Sizes DEF Recorded, Pages
<1>2. PICK k \in Keys : x \in {HashOf[k]} \X Files \X {Recorded(i) : i \in Pages \ {0}}
  BY DEF Entries, EntriesOf
<1> QED BY <1>1, <1>2, Sizes

\* An entry that meets an item, expired or of a key.
LEMMA EntryMeets ==
    ASSUME Typed, NEW e, NEW k \in Keys, IsDead(e) \/ Matches(e, k)
    PROVE  /\ Place(e) \in Places /\ Filled(Place(e))
           /\ ItemAt(e) = cell[Place(e)] /\ Extent(e) = Body(Place(e))
           /\ IsDead(e) => cell[Place(e)].dead
           /\ Matches(e, k) => cell[Place(e)].key = k /\ ~cell[Place(e)].dead
<1>1. ItemAt(e).key = ItemAt(e).key /\ (IsDead(e) => ItemAt(e).dead)
      /\ (Matches(e, k) => ItemAt(e).key = k /\ ~ItemAt(e).dead)
  BY DEF IsDead, Matches
<1>2. ItemAt(e) # NoItem
  <2>1. ItemAt(e) \in Item
    BY DEF IsDead, Matches, Item
  <2> QED BY <2>1, ItemIs
<1>3. Place(e) \in Places /\ ItemAt(e) = cell[Place(e)]
  BY <1>2 DEF ItemAt
<1> QED BY <1>1, <1>2, <1>3 DEF Filled, Extent, Body

LEMMA HeldIs ==
    ASSUME NEW t \in Indexes, NEW k \in Keys
    PROVE  Held(t, k) \subseteq {x \in Entries : x[1] = HashOf[k]}
  BY IndexAssumption DEF Entries, EntriesOf

\* Entries that an index does not hold stop no scan of it.
LEMMA OnlyHeldStop ==
    ASSUME NEW t \in Indexes, NEW k \in Keys, NEW stops \in SUBSET EntriesOf(k)
    PROVE  IndexHits(t, HashOf[k], stops) = IndexHits(t, HashOf[k], stops \cap Held(t, k))
  BY IndexAssumption

LEMMA VisitedIs ==
    ASSUME root \in Indexes, NEW k \in Keys
    PROVE  /\ Visited(k) \in Seq(Held(root, k)) /\ Visited(k) \in Seq(Entries)
           /\ ToSet(Visited(k)) \subseteq Held(root, k)
           /\ \A x \in Held(root, k) : StopsAt(x, k) =>
                \E i \in DOMAIN Visited(k) : StopsAt(Visited(k)[i], k)
<1> DEFINE stops == {x \in EntriesOf(k) : StopsAt(x, k)}
           met == stops \cap Held(root, k)
           hits == IndexHits(root, HashOf[k], stops)
<1>1. stops \in SUBSET EntriesOf(k)
  OBVIOUS
<1>2. hits \in Seq(Held(root, k)) /\ (met # {} => ToSet(hits) \cap met # {})
  <2> HIDE DEF stops
  <2> QED BY <1>1, IndexAssumption
<1>3. Visited(k) = hits
  BY DEF Visited
<1>4. met = {x \in Held(root, k) : StopsAt(x, k)}
  <2>1. Held(root, k) \subseteq EntriesOf(k)
    BY IndexAssumption
  <2> QED BY <2>1
<1> HIDE DEF hits
<1>5. hits \in Seq(Entries)
  <2>1. Held(root, k) \subseteq Entries
    BY HeldIs
  <2> QED BY <1>2, <2>1
<1>6. ToSet(hits) \subseteq Held(root, k)
  BY <1>2 DEF ToSet
<1>7. met # {} => \E i \in DOMAIN hits : hits[i] \in met
  <2> HIDE DEF met
  <2> QED BY <1>2 DEF ToSet
<1>8. \A x \in Held(root, k) : StopsAt(x, k) =>
        \E i \in DOMAIN hits : StopsAt(hits[i], k)
  BY <1>4, <1>7
<1> QED BY <1>2, <1>3, <1>5, <1>6, <1>8

LEMMA TypedGivesTypeOK ==
    ASSUME Typed
    PROVE  TypeOK
<1>1. \A k \in Keys : Held(root, k) \subseteq Entries
  BY HeldIs DEF Typed
<1> QED BY <1>1 DEF Typed, TypeOK

\* While no file is overrun, what is said of all items holds of the live ones.
LEMMA SoundGivesApart ==
    ASSUME Typed, CellsInFile, CellsApart
    PROVE  LiveItemsApart
<1> DEFINE live == UNION {LiveEntries(k) : k \in Keys}
<1>1. ASSUME NEW e \in live
      PROVE  /\ Place(e) \in Places /\ Filled(Place(e)) /\ ~cell[Place(e)].dead
             /\ Extent(e) = Body(Place(e))
  <2>1. PICK k \in Keys : e \in LiveEntries(k)
    BY <1>1
  <2>2. Matches(e, k)
    BY <2>1 DEF LiveEntries
  <2> QED BY <2>2, EntryMeets
<1>2. \A e \in live : Extent(e) \subseteq used
  BY <1>1 DEF CellsInFile, CellInFile
<1>3. \A d, e \in live : Place(d) # Place(e) => Extent(d) \cap Extent(e) = {}
  BY <1>1 DEF CellsApart
<1> QED BY <1>2, <1>3 DEF LiveItemsApart

LEMMA SoundGivesRoom ==
    ASSUME Typed, UsedBelow, Counted
    PROVE  \A f \in Files : Runs(f, 1) # {} => remain[f] > 1
<1>1. SUFFICES ASSUME NEW f \in Files, Runs(f, 1) # {}
               PROVE  remain[f] > 1
  OBVIOUS
<1>2. used \in SUBSET Places /\ remain[f] \in Nat
  BY DEF Typed
<1>3. Runs(f, 1) = {i \in Pages \ {0} : <<f, i>> \notin used}
  BY <1>2, NoRoom DEF Runs
<1>4. PICK i \in Pages \ {0} : <<f, i>> \notin used
  BY <1>1, <1>3
<1>5. Cardinality({x \in used : x[1] = f}) <= NPages - 2
  BY <1>2, <1>4, RoomUncounted DEF UsedBelow
<1>6. remain[f] + Cardinality({x \in used : x[1] = f}) >= NPages
  BY <1>1 DEF Counted, UsedIn
<1>7. Cardinality({x \in used : x[1] = f}) \in Nat
  BY <1>2, FileCounted
<1> QED BY <1>2, <1>5, <1>6, <1>7, Sizes

-----------------------------------------------------------------------------
(* What holds of data files that a step leaves alone *)

LEMMA FilesKept ==
    ASSUME InFiles, UNCHANGED files
    PROVE  InFiles'
<1> USE DEF InFiles, files
<1>1. \A x : Body(x)' = Body(x)
  BY DEF Body
<1>2. CellsInFile' /\ CellsApart'
  BY <1>1 DEF CellsInFile, CellsApart, CellInFile, Filled
<1>3. \A f : UsedIn(f)' = UsedIn(f) /\ Runs(f, 1)' = Runs(f, 1)
  BY DEF UsedIn, Runs
<1>4. UsedBelow' /\ Counted' /\ Bounded'
  BY <1>3 DEF UsedBelow, Counted, Bounded
<1> QED BY <1>2, <1>4

\* A store in progress learns of a longer file what it knew of a shorter one.
LEMMA HopelessStays ==
    ASSUME Typed, NEW f \in Files, NEW n \in Nat, Hopeless(f, n),
           length'[f] \in Nat, length[f] <= length'[f]
    PROVE  Hopeless(f, n)'
  BY Sizes DEF Hopeless, Typed

LEMMA FileAtIs ==
    ASSUME NEW k \in Keys, NEW t \in Nat
    PROVE  /\ FileAt(k, t) \in Files
           /\ t >= NFiles => FileAt(k, t - NFiles) = FileAt(k, t)
<1>1. HashOf[k] \in Nat /\ NFiles \in Nat \ {0}
  BY Sizes
<1>2. FileAt(k, t) \in Files
  <2>1. HashOf[k] + t \in Nat
    BY <1>1
  <2>2. (HashOf[k] + t) % NFiles \in 0 .. NFiles - 1
    BY <1>1, <2>1, Divided
  <2> QED BY <2>2 DEF FileAt, Files
<1>3. ASSUME t >= NFiles
      PROVE  FileAt(k, t - NFiles) = FileAt(k, t)
  <2> DEFINE a == HashOf[k] + (t - NFiles)
  <2>1. a \in Nat /\ a + NFiles = HashOf[k] + t
    BY <1>1, <1>3
  <2>2. (a + NFiles) % NFiles = a % NFiles
    BY <1>1, <2>1, Around
  <2> QED BY <2>1, <2>2 DEF FileAt
<1> QED BY <1>2, <1>3

LEMMA PlacingIs ==
    ASSUME Typed, NEW p \in Procs, proc[p].at \in {"place", "index"}
    PROVE  /\ proc[p].key \in Keys /\ proc[p].val \in Values
           /\ proc[p].at = "place" => proc[p].turn \in 0 .. 2 * NFiles - 1
           /\ proc[p].at = "index" => proc[p].item \in Nat \X Files \X Nat
<1>1. proc[p] \in ProcState
  BY DEF Typed
<1> QED BY <1>1 DEF ProcState, Idle

\* A step in which only p moves, and does not pass a file.
LEMMA PassedKept ==
    ASSUME Typed, Passed, NEW p \in Procs, NEW r,
           proc' = [proc EXCEPT ![p] = r], r.at = "place" => r.turn = 0,
           \A f \in Files : length'[f] \in Nat /\ length[f] <= length'[f]
    PROVE  Passed'
<1>1. ASSUME NEW q \in Procs, proc'[q].at = "place",
             NEW t \in 0 .. NFiles - 1, t < proc'[q].turn
      PROVE  Hopeless(FileAt(proc[q].key, t), PagesOf[proc[q].val])' /\ proc'[q] = proc[q]
  <2>1. q # p /\ proc'[q] = proc[q]
    BY <1>1 DEF Typed
  <2>2. Hopeless(FileAt(proc[q].key, t), PagesOf[proc[q].val])
    BY <1>1, <2>1 DEF Passed
  <2>3. FileAt(proc[q].key, t) \in Files /\ PagesOf[proc[q].val] \in Nat
    BY <1>1, <2>1, PlacingIs, FileAtIs, Sizes
  <2>4. ASSUME NEW f \in Files, NEW n \in Nat, Hopeless(f, n)
        PROVE  Hopeless(f, n)'
    BY <2>4, HopelessStays
  <2> QED BY <2>1, <2>2, <2>3, <2>4 DEF Hopeless, FileAt
<1> QED BY <1>1 DEF Passed, FileAt

LEMMA NamedKept ==
    ASSUME Typed, Named, NEW p \in Procs, NEW r, proc' = [proc EXCEPT ![p] = r],
           r.at = "index" => r.item \in Entries /\ r.item[3] < length'[r.item[2]] + HeaderPages,
           \A f \in Files : length'[f] \in Nat /\ length[f] <= length'[f],
           \A k \in Keys : \A x \in Held(root', k) :
              x \in Entries /\ (x \in Held(root, k) \/ Names(x))
    PROVE  Named'
<1>1. ASSUME NEW x \in Entries, Names(x)
      PROVE  x[3] < length'[x[2]] + HeaderPages
  <2>1. x[2] \in Files /\ x[3] \in Nat
    BY EntryIs
  <2> QED BY <1>1, <2>1, Sizes DEF Names, Typed
<1>2. ASSUME NEW k \in Keys, NEW x \in Held(root', k)
      PROVE  x[3] < length'[x[2]] + HeaderPages
  <2>1. x \in Entries /\ Names(x)
    BY <1>2 DEF Named
  <2> QED BY <2>1, <1>1
<1>3. ASSUME NEW q \in Procs, proc'[q].at = "index"
      PROVE  /\ proc'[q].item \in Entries
             /\ proc'[q].item[3] < length'[proc'[q].item[2]] + HeaderPages
  <2>1. CASE q = p
    <3>1. proc'[q] = r
      BY <2>1 DEF Typed
    <3> QED BY <1>3, <3>1
  <2>2. CASE q # p
    <3>1. proc'[q] = proc[q]
      BY <2>2 DEF Typed
    <3>2. proc[q].item \in Entries /\ Names(proc[q].item)
      BY <1>3, <3>1 DEF Named
    <3> QED BY <3>1, <3>2, <1>1
  <2> QED BY <2>1, <2>2
<1> QED BY <1>2, <1>3 DEF Named, Names, Held

\* Items that become shorter, or expire, stay in their places.
LEMMA CellsShrink ==
    ASSUME Typed, InFiles, UNCHANGED <<used, remain, length>>,
           \A x \in Places : cell'[x] # NoItem =>
              /\ Filled(x) /\ cell'[x] \in Item
              /\ PagesOf[cell'[x].val] <= PagesOf[cell[x].val]
              /\ cell[x].dead => cell'[x].dead
    PROVE  InFiles'
<1> USE DEF InFiles
<1>1. ASSUME NEW x \in Places, cell'[x] # NoItem
      PROVE  /\ Filled(x) /\ Body(x)' \subseteq Body(x)
             /\ PagesOf[cell'[x].val] \in Nat \ {0} /\ PagesOf[cell[x].val] \in Nat \ {0}
             /\ cell'[x].dead \in BOOLEAN /\ cell[x].dead \in BOOLEAN
  <2>1. cell'[x] \in Item /\ cell[x] \in Item
    BY <1>1, CellIs
  <2>2. /\ PagesOf[cell'[x].val] \in Nat \ {0} /\ PagesOf[cell[x].val] \in Nat \ {0}
        /\ cell'[x].dead \in BOOLEAN /\ cell[x].dead \in BOOLEAN
    BY <2>1, ItemIs
  <2>3. x[2] \in Nat
    BY PlaceParts
  <2>4. PagesFrom(x, PagesOf[cell'[x].val]) \subseteq PagesFrom(x, PagesOf[cell[x].val])
    BY <1>1, <2>2, <2>3, RunShorter
  <2> QED BY <1>1, <2>2, <2>4 DEF Body
<1>2. ASSUME NEW x \in Places, cell'[x] # NoItem
      PROVE  CellInFile(x)'
  <2>1. CellInFile(x)
    BY <1>1, <1>2 DEF CellsInFile
  <2>2. x[2] \in Nat /\ length[x[1]] \in Nat
    BY PlaceParts DEF Typed
  <2>3. x[2] + PagesOf[cell'[x].val] <= length[x[1]]
    BY <1>1, <1>2, <2>1, <2>2 DEF CellInFile
  <2>4. ~cell'[x].dead => ~cell[x].dead
    BY <1>1, <1>2
  <2> QED BY <1>1, <1>2, <2>1, <2>3, <2>4 DEF CellInFile
<1>3. CellsInFile'
  BY <1>2 DEF CellsInFile, Filled
<1>4. CellsApart'
  BY <1>1 DEF CellsApart, Filled
<1>5. \A f : UsedIn(f)' = UsedIn(f) /\ Runs(f, 1)' = Runs(f, 1)
  BY DEF UsedIn, Runs
<1>6. UsedBelow' /\ Counted' /\ Bounded'
  BY <1>5 DEF UsedBelow, Counted, Bounded
<1> QED BY <1>3, <1>4, <1>6

-----------------------------------------------------------------------------
(* Steps that change the index or a process only *)

LEMMA IndexSteps ==
    ASSUME NEW t \in Indexes, NEW x \in Entries
    PROVE  /\ IndexAdd(t, x) \in Indexes /\ IndexRemove(t, x) \in Indexes
           /\ \A k \in Keys :
                /\ Held(IndexAdd(t, x), k)
                     = Held(t, k) \cup (IF x[1] = HashOf[k] THEN {x} ELSE {})
                /\ Held(IndexRemove(t, x), k) = Held(t, k) \ {x}
  BY IndexAssumption

LEMMA QuietStep ==
    ASSUME Typed, Sound, UNCHANGED <<files, overrun>>, NEW p \in Procs, NEW r \in ProcState,
           proc' = [proc EXCEPT ![p] = r], r.at \notin {"place", "index"},
           last' \in [Keys -> Values \cup {NoValue}],
           root' \in Indexes,
           \A k \in Keys : \A x \in Held(root', k) : x \in Held(root, k) \/ Names(x)
    PROVE  Typed' /\ Sound'
<1>1. Typed'
  <2>1. proc' \in [Procs -> ProcState]
    BY DEF Typed
  <2> QED BY <2>1 DEF Typed, files
<1>2. InFiles'
  BY FilesKept DEF Sound
<1>3. \A f \in Files : length'[f] \in Nat /\ length[f] <= length'[f]
  BY DEF Typed, files
<1>4. Passed'
  BY <1>3, PassedKept DEF Sound
<1>5. \A k \in Keys : \A x \in Held(root', k) : x \in Entries /\ (x \in Held(root, k) \/ Names(x))
  BY HeldIs
<1>6. Named'
  BY <1>3, <1>5, NamedKept DEF Sound
<1> QED BY <1>1, <1>2, <1>4, <1>6 DEF Sound

LEMMA RemoveExpiredKeeps ==
    ASSUME Typed, Sound, NEW p \in Procs, RemoveExpired(p)
    PROVE  Typed' /\ Sound'
<1>1. PICK y \in proc[p].left :
        /\ root' = IndexRemove(root, y[2])
        /\ proc' = [proc EXCEPT ![p] =
                      IF proc[p].left = {y} THEN Idle
                      ELSE [at |-> "expire", left |-> proc[p].left \ {y}]]
  BY DEF RemoveExpired
<1>2. proc[p] \in [at : {"expire"}, left : SUBSET (Nat \X Entries)]
  BY DEF RemoveExpired, Typed, ProcState, Idle
<1>3. y[2] \in Entries /\ root \in Indexes
  BY <1>1, <1>2 DEF Typed
<1> DEFINE r == IF proc[p].left = {y} THEN Idle
                ELSE [at |-> "expire", left |-> proc[p].left \ {y}]
<1>4. proc' = [proc EXCEPT ![p] = r]
  BY <1>1
<1>5. r \in ProcState /\ r.at \notin {"place", "index"}
  BY <1>2 DEF ProcState, Idle
<1>6. UNCHANGED <<files, overrun>> /\ last' \in [Keys -> Values \cup {NoValue}]
  BY DEF RemoveExpired, Typed
<1>7. /\ root' \in Indexes
      /\ \A k \in Keys : \A x \in Held(root', k) : x \in Held(root, k) \/ Names(x)
  BY <1>1, <1>3, IndexSteps
<1> HIDE DEF r
<1> QED BY <1>4, <1>5, <1>6, <1>7, QuietStep

LEMMA AddIndexKeeps ==
    ASSUME Typed, Sound, NEW p \in Procs, AddIndex(p)
    PROVE  Typed' /\ Sound'
<1>1. /\ proc[p].at = "index" /\ proc' = [proc EXCEPT ![p] = Idle]
      /\ root' = IF proc[p].item[1] = 0 THEN root ELSE IndexAdd(root, proc[p].item)
      /\ UNCHANGED <<files, overrun>>
  BY DEF AddIndex
<1>2. proc[p].item \in Entries /\ Names(proc[p].item) /\ root \in Indexes
  BY <1>1 DEF Sound, Named, Typed
<1>3. Idle \in ProcState /\ Idle.at \notin {"place", "index"}
  BY DEF ProcState, Idle
<1>4. proc[p].key \in Keys /\ proc[p].val \in Values
  BY <1>1, PlacingIs
<1>5. last' \in [Keys -> Values \cup {NoValue}]
  BY <1>4 DEF AddIndex, Typed
<1>6. /\ root' \in Indexes
      /\ \A k \in Keys : \A x \in Held(root', k) : x \in Held(root, k) \/ Names(x)
  <2>1. CASE proc[p].item[1] = 0
    BY <1>1, <1>2, <2>1
  <2>2. CASE proc[p].item[1] # 0
    BY <1>1, <1>2, <2>2, IndexSteps
  <2> QED BY <2>1, <2>2
<1> QED BY <1>1, <1>3, <1>5, <1>6, QuietStep

LEMMA KillKeeps ==
    ASSUME Typed, Sound, NEW p \in Procs, Kill(p)
    PROVE  Typed' /\ Sound'
<1>1. Idle \in ProcState /\ Idle.at \notin {"place", "index"}
  BY DEF ProcState, Idle
<1>2. /\ UNCHANGED <<files, overrun>> /\ proc' = [proc EXCEPT ![p] = Idle]
      /\ root' = root /\ root' \in Indexes /\ last' \in [Keys -> Values \cup {NoValue}]
  BY DEF Kill, Typed
<1> QED BY <1>1, <1>2, QuietStep

-----------------------------------------------------------------------------
(* Steps that change items in their places *)

LEMMA LapseKeeps ==
    ASSUME Typed, Sound, NEW x \in Places, Lapse(x)
    PROVE  Typed' /\ Sound'
<1>1. /\ cell[x] # NoItem /\ cell' = [cell EXCEPT ![x].dead = TRUE]
      /\ UNCHANGED <<root, used, remain, length, overrun, proc, last>>
  BY DEF Lapse
<1>2. cell[x] \in Item
  BY <1>1, CellIs DEF Filled
<1>3. [cell[x] EXCEPT !.dead = TRUE] \in Item
      /\ [cell[x] EXCEPT !.dead = TRUE].val = cell[x].val
      /\ [cell[x] EXCEPT !.dead = TRUE].dead = TRUE
  BY <1>2 DEF Item
<1>4. /\ cell' \in [Places -> Item \cup {NoItem}]
      /\ cell'[x] = [cell[x] EXCEPT !.dead = TRUE]
      /\ \A y \in Places : y # x => cell'[y] = cell[y]
  BY <1>1, <1>3 DEF Typed
<1>5. Typed'
  BY <1>1, <1>4 DEF Typed
<1>6. ASSUME NEW y \in Places, cell'[y] # NoItem
      PROVE  /\ Filled(y) /\ cell'[y] \in Item
             /\ PagesOf[cell'[y].val] <= PagesOf[cell[y].val]
             /\ cell[y].dead => cell'[y].dead
  <2>1. Filled(y)
    BY <1>1, <1>4, <1>6 DEF Filled
  <2>2. cell[y] \in Item /\ PagesOf[cell[y].val] \in Nat
    BY <2>1, CellIs
  <2>3. CASE y = x
    <3>1. cell'[y].val = cell[y].val /\ cell'[y].dead = TRUE /\ cell'[y] \in Item
      BY <1>3, <1>4, <2>3
    <3> QED BY <2>1, <2>2, <3>1
  <2>4. CASE y # x
    BY <1>4, <2>1, <2>2, <2>4
  <2> QED BY <2>3, <2>4
<1>7. InFiles'
  BY <1>1, <1>6, CellsShrink DEF Sound
<1>8. Passed' /\ Named'
  BY <1>1 DEF Sound, Passed, Named, Names, Held, Hopeless, FileAt
<1> QED BY <1>5, <1>7, <1>8 DEF Sound

LEMMA StoreKeeps ==
    ASSUME Typed, Sound, NEW p \in Procs, NEW k \in Keys, NEW v \in Values, Store(p, k, v)
    PROVE  Typed' /\ Sound'
<1> DEFINE over == {y \in ToSet(Visited(k)) : Matches(y, k) /\ Overwritable(y, v)}
           written == {Place(x) : x \in over}
           r == [at |-> "place", key |-> k, val |-> v, turn |-> 0]
<1>1. /\ cell' = [x \in Places |-> IF x \in written THEN [cell[x] EXCEPT !.val = v] ELSE cell[x]]
      /\ proc' = [proc EXCEPT ![p] = r]
      /\ last' = [last EXCEPT ![k] = NoValue]
      /\ UNCHANGED <<root, used, remain, length, overrun>>
  BY DEF Store
<1>2. ASSUME NEW x \in written
      PROVE  /\ x \in Places /\ Filled(x)
             /\ PagesOf[v] <= PagesOf[cell[x].val]
  <2>1. PICK y \in over : x = Place(y)
    OBVIOUS
  <2>2. Matches(y, k) /\ PagesOf[ItemAt(y).val] >= PagesOf[v]
    BY DEF Overwritable
  <2>3. Place(y) \in Places /\ Filled(Place(y)) /\ ItemAt(y) = cell[Place(y)]
    BY <2>2, EntryMeets
  <2>4. PagesOf[v] \in Nat /\ PagesOf[cell[x].val] \in Nat
    BY <2>1, <2>3, CellIs, Sizes
  <2> QED BY <2>1, <2>2, <2>3, <2>4
<1> HIDE DEF written, over
<1>3. ASSUME NEW x \in written
      PROVE  /\ cell'[x] \in Item /\ cell'[x].val = v /\ cell'[x].dead = cell[x].dead
  <2>1. x \in Places /\ cell[x] \in Item
    BY <1>2, CellIs
  <2>2. cell'[x] = [cell[x] EXCEPT !.val = v]
    BY <1>1, <2>1
  <2> QED BY <2>1, <2>2 DEF Item
<1>4. \A x \in Places : x \notin written => cell'[x] = cell[x]
  BY <1>1
<1>5. cell' \in [Places -> Item \cup {NoItem}]
  <2>1. \A x \in Places : cell'[x] \in Item \cup {NoItem}
    BY <1>3, <1>4 DEF Typed
  <2>2. cell' = [x \in Places |-> cell'[x]]
    BY <1>1
  <2> QED BY <2>1, <2>2
<1>6. r \in ProcState
  BY Sizes DEF ProcState
<1>7. Typed'
  BY <1>1, <1>5, <1>6 DEF Typed
<1>8. ASSUME NEW x \in Places, cell'[x] # NoItem
      PROVE  /\ Filled(x) /\ cell'[x] \in Item
             /\ PagesOf[cell'[x].val] <= PagesOf[cell[x].val]
             /\ cell[x].dead => cell'[x].dead
  <2>1. CASE x \in written
    BY <2>1, <1>2, <1>3
  <2>2. CASE x \notin written
    <3>1. cell'[x] = cell[x] /\ Filled(x)
      BY <1>4, <1>8, <2>2 DEF Filled
    <3> QED BY <3>1, CellIs
  <2> QED BY <2>1, <2>2
<1>9. InFiles'
  BY <1>1, <1>8, CellsShrink DEF Sound
<1>10. \A f \in Files : length'[f] \in Nat /\ length[f] <= length'[f]
  BY <1>1 DEF Typed
<1>11. Passed'
  BY <1>1, <1>10, PassedKept DEF Sound
<1>12. root' = root /\ root \in Indexes
  BY <1>1 DEF Typed
<1>13. \A l \in Keys : \A x \in Held(root', l) : x \in Entries /\ (x \in Held(root, l) \/ Names(x))
  BY <1>12, HeldIs
<1>14. Named'
  BY <1>1, <1>10, <1>13, NamedKept DEF Sound
<1> QED BY <1>7, <1>9, <1>11, <1>14 DEF Sound

-----------------------------------------------------------------------------
(* Steps of a store that looks for room *)

\* The first file with room is passed for a reason that lasts.
LEMMA PassedIsHopeless ==
    ASSUME Typed, InFiles, NEW f \in Files, NEW n \in Nat \ {0},
           remain[f] <= n \/ Runs(f, n) = {}
    PROVE  Hopeless(f, n)
<1> DEFINE l == length[f]
           c == Cardinality({x \in used : x[1] = f})
<1>1. /\ used \in SUBSET Places /\ l \in Nat /\ remain[f] \in Nat
      /\ l <= NPages /\ (l = 0 => remain[f] <= NPages)
  BY DEF Typed, InFiles, Bounded
<1>2. \A x \in used : x[1] = f => x[2] # 0 /\ x[2] < l
  BY DEF InFiles, UsedBelow
<1>3. c \in Nat /\ (l = 0 => c = 0) /\ (l # 0 => c <= l - 1)
  BY <1>1, <1>2, FileCounted, BelowCounted
<1>4. Runs(f, 1) = {i \in Pages \ {0} : <<f, i>> \notin used}
  BY <1>1, NoRoom DEF Runs
<1>5. CASE Runs(f, n) = {} /\ l # 0 /\ l + n <= NPages
  <2>1. l \in Pages \ {0} /\ l < NPages /\ <<f, l>> \in Places
    BY <1>1, <1>5, PlaceParts, Sizes DEF Pages
  <2>2. PagesFrom(<<f, l>>, n) \cap used = {}
    <3>1. ASSUME NEW y \in PagesFrom(<<f, l>>, n), y \in used
          PROVE  FALSE
      <4>1. y[1] = f /\ l <= y[2] /\ y[2] \in Nat
        BY <2>1, <1>5, <1>1, <3>1, RunInFile, PlaceParts
      <4> QED BY <4>1, <1>2, <3>1, <1>1
    <3> QED BY <3>1
  <2>3. l \in Runs(f, n)
    BY <2>1, <2>2, <1>5 DEF Runs
  <2> QED BY <2>3, <1>5
<1>6. CASE Runs(f, n) = {} /\ l = 0 /\ n < NPages
  <2>1. 1 \in Pages \ {0} /\ 1 + n <= NPages /\ <<f, 1>> \in Places
    BY <1>6, PlaceParts, Sizes DEF Pages
  <2>2. used \cap PagesFrom(<<f, 1>>, n) = {}
    <3>1. ASSUME NEW y \in PagesFrom(<<f, 1>>, n), y \in used
          PROVE  FALSE
      <4>1. y[1] = f /\ y[2] \in Nat
        BY <2>1, <1>1, <3>1, RunInFile, PlaceParts
      <4> QED BY <4>1, <1>2, <1>6, <3>1
    <3> QED BY <3>1
  <2>3. 1 \in Runs(f, n)
    BY <2>1, <2>2 DEF Runs
  <2> QED BY <2>3, <1>6
<1>7. CASE remain[f] <= n /\ remain[f] + c >= NPages
  BY <1>1, <1>3, <1>7, Sizes DEF Hopeless
<1>8. CASE Runs(f, 1) = {}
  <2>1. \A i \in Pages \ {0} : <<f, i>> \in used
    BY <1>4, <1>8
  <2>2. c >= NPages - 1
    BY <1>1, <2>1, FullCounted
  <2> QED BY <1>1, <1>3, <2>2, Sizes DEF Hopeless
<1>9. Runs(f, 1) = {} \/ remain[f] + c >= NPages
  BY DEF InFiles, Counted, UsedIn
<1> QED BY <1>1, <1>5, <1>6, <1>7, <1>8, <1>9, Sizes DEF Hopeless

LEMMA PassFileKeeps ==
    ASSUME Typed, Sound, NEW p \in Procs, proc[p].at = "place", PassFile(p)
    PROVE  Typed' /\ Sound'
<1> DEFINE k == proc[p].key
           turn == proc[p].turn
           f == FileAt(k, turn)
           n == PagesOf[proc[p].val]
           r == IF turn = 2 * NFiles - 1 THEN Idle ELSE [proc[p] EXCEPT !.turn = turn + 1]
<1>1. /\ remain[f] > n => turn < NFiles /\ Runs(f, n) = {}
      /\ remain' = IF remain[f] > n THEN [remain EXCEPT ![f] = RemainAfter(f, n)] ELSE remain
      /\ proc' = [proc EXCEPT ![p] = r]
      /\ UNCHANGED <<root, cell, used, length, overrun, last>>
  BY DEF PassFile
<1>2. /\ k \in Keys /\ proc[p].val \in Values /\ turn \in 0 .. 2 * NFiles - 1
      /\ n \in Nat \ {0} /\ NFiles \in Nat \ {0}
  BY PlacingIs, Sizes
<1>3. f \in Files /\ remain[f] \in Nat
  BY <1>2, FileAtIs DEF Typed
<1>4. proc[p] \in [at : {"place"}, key : Keys, val : Values, turn : 0 .. 2 * NFiles - 1]
  BY DEF Typed, ProcState, Idle
<1>5. /\ r \in ProcState
      /\ r.at = "place" => r.key = k /\ r.val = proc[p].val /\ r.turn = turn + 1
      /\ r.at # "index"
  <2>1. CASE turn = 2 * NFiles - 1
    BY <2>1 DEF ProcState, Idle
  <2>2. CASE turn # 2 * NFiles - 1
    <3>1. turn + 1 \in 0 .. 2 * NFiles - 1
      BY <1>2, <2>2
    <3> QED BY <1>4, <2>2, <3>1 DEF ProcState
  <2> QED BY <2>1, <2>2
<1> HIDE DEF r
<1>6. Typed'
  <2>1. remain' \in [Files -> Nat]
    BY <1>1, <1>3 DEF Typed, RemainAfter
  <2>2. proc' \in [Procs -> ProcState]
    BY <1>1, <1>5 DEF Typed
  <2> QED BY <1>1, <2>1, <2>2 DEF Typed
<1>7. Hopeless(f, n)
  <2>1. remain[f] <= n \/ Runs(f, n) = {}
    BY <1>1, <1>2, <1>3
  <2> QED BY <1>2, <1>3, <2>1, PassedIsHopeless DEF Sound
<1>8. InFiles'
  <2>1. \A x : Body(x)' = Body(x)
    BY <1>1 DEF Body
  <2>2. CellsInFile' /\ CellsApart' /\ UsedBelow'
    BY <1>1, <2>1 DEF Sound, InFiles, CellsInFile, CellsApart, CellInFile, Filled, UsedBelow
  <2>3. \A g : UsedIn(g)' = UsedIn(g) /\ Runs(g, 1)' = Runs(g, 1)
    BY <1>1 DEF UsedIn, Runs
  <2>4. ASSUME NEW g \in Files
        PROVE  remain'[g] = remain[g] \/ (remain'[g] = 0 /\ Runs(g, 1) = {})
    BY <1>1, <1>2 DEF RemainAfter, Typed
  <2>5. Counted'
    BY <2>3, <2>4 DEF Counted, Sound, InFiles
  <2>6. Bounded'
    BY <1>1, <2>4, Sizes DEF Bounded, Sound, InFiles
  <2> QED BY <2>2, <2>5, <2>6 DEF InFiles
<1>9. Passed'
  <2>1. ASSUME NEW q \in Procs, proc'[q].at = "place",
               NEW t \in 0 .. NFiles - 1, t < proc'[q].turn
        PROVE  Hopeless(FileAt(proc'[q].key, t), PagesOf[proc'[q].val])
    <3>1. CASE q # p
      <4>1. proc'[q] = proc[q]
        BY <1>1, <3>1 DEF Typed
      <4> QED BY <2>1, <4>1 DEF Sound, Passed
    <3>2. CASE q = p /\ t < turn
      <4>1. proc'[q].key = k /\ proc'[q].val = proc[p].val
        BY <1>1, <1>5, <2>1, <3>2 DEF Typed
      <4> QED BY <2>1, <3>2, <4>1 DEF Sound, Passed
    <3>3. CASE q = p /\ ~(t < turn)
      <4>1. proc'[q].key = k /\ proc'[q].val = proc[p].val /\ proc'[q].turn = turn + 1
        BY <1>1, <1>5, <2>1, <3>3 DEF Typed
      <4>2. t = turn
        BY <1>2, <2>1, <3>3, <4>1
      <4> QED BY <1>7, <4>1, <4>2
    <3> QED BY <3>1, <3>2, <3>3
  <2> QED BY <1>1, <2>1 DEF Passed, Hopeless, FileAt
<1>10. Named'
  <2>1. \A g \in Files : length'[g] \in Nat /\ length[g] <= length'[g]
    BY <1>1 DEF Typed
  <2>2. root' = root /\ root \in Indexes
    BY <1>1 DEF Typed
  <2>3. \A l \in Keys : \A x \in Held(root', l) : x \in Entries /\ (x \in Held(root, l) \/ Names(x))
    BY <2>2, HeldIs
  <2> QED BY <1>1, <1>5, <2>1, <2>3, NamedKept DEF Sound
<1> QED BY <1>6, <1>8, <1>9, <1>10 DEF Sound

LEMMA Modest ==
    ASSUME NEW n \in Nat \ {0}, NEW a \in Nat
    PROVE  a % n \in Nat /\ a % n <= a
  BY SMT

LEMMA PlacedIs ==
    ASSUME Typed, NEW p \in Procs, proc[p].at = "place", NEW f \in Files, NEW page \in Nat
    PROVE  /\ Placed(p, f, page) \in ProcState /\ Placed(p, f, page).at = "index"
           /\ page \in Pages \ {0} => Placed(p, f, page).item \in Entries
           /\ Placed(p, f, page).item[2] = f
           /\ Placed(p, f, page).item[3] \in Nat
           /\ Placed(p, f, page).item[3] <= page + HeaderPages
<1>1. proc[p].key \in Keys /\ proc[p].val \in Values
  BY PlacingIs
<1>2. page + HeaderPages \in Nat
  BY Sizes
<1>3. Recorded(page) \in Nat /\ Recorded(page) <= page + HeaderPages
  BY <1>2, Sizes, Modest DEF Recorded
<1>4. HashOf[proc[p].key] \in Nat
  BY <1>1, Sizes
<1>5. page \in Pages \ {0} => <<HashOf[proc[p].key], f, Recorded(page)>> \in Entries
  BY <1>1 DEF Entries, EntriesOf
<1> QED BY <1>1, <1>3, <1>4, <1>5 DEF Placed, ProcState

LEMMA WrittenIs ==
    ASSUME Typed, NEW p \in Procs, proc[p].at = "place", NEW f \in Files, NEW page \in Nat,
           cell' = Written(p, f, page)
    PROVE  /\ cell' \in [Places -> Item \cup {NoItem}]
           /\ \A x \in Places : cell'[x] # NoItem =>
                \/ x = <<f, page>> /\ cell'[x].val = proc[p].val /\ ~cell'[x].dead
                \/ /\ x \notin PagesFrom(<<f, page>>, PagesOf[proc[p].val])
                   /\ Filled(x) /\ cell'[x] = cell[x]
           /\ \A x \in Places :
                x # <<f, page>> /\ x \notin PagesFrom(<<f, page>>, PagesOf[proc[p].val])
                  => cell'[x] = cell[x]
<1> DEFINE item == [key |-> proc[p].key, val |-> proc[p].val, dead |-> FALSE]
           first == <<f, page>>
           body == PagesFrom(first, PagesOf[proc[p].val])
<1>1. item \in Item
  BY PlacingIs DEF Item
<1>2. item.val = proc[p].val /\ ~item.dead
  OBVIOUS
<1>3. <<f, page>> \in PagesFrom(<<f, page>>, PagesOf[proc[p].val])
  BY PlacingIs, InPages, Sizes
<1>4. cell' = [x \in Places |-> IF x = first THEN item ELSE IF x \in body THEN NoItem ELSE cell[x]]
  BY DEF Written
<1> HIDE DEF item, body, first
<1>5. \A x \in Places :
         cell'[x] = IF x = first THEN item ELSE IF x \in body THEN NoItem ELSE cell[x]
  BY <1>4
<1>6. \A x \in Places : cell'[x] \in Item \cup {NoItem}
  BY <1>1, <1>5 DEF Typed
<1>7. cell' \in [Places -> Item \cup {NoItem}]
  BY <1>4, <1>6
<1>8. \A x \in Places : cell'[x] # NoItem =>
         \/ x = first /\ cell'[x].val = proc[p].val /\ ~cell'[x].dead
         \/ x \notin body /\ Filled(x) /\ cell'[x] = cell[x]
  BY <1>2, <1>5 DEF Filled
<1>9. \A x \in Places : x # first /\ x \notin body => cell'[x] = cell[x]
  BY <1>5
<1> QED BY <1>7, <1>8, <1>9 DEF first, body

\* The first run of free pages meets no item that it does not overwrite.
LEMMA FirstRunMeetsNone ==
    ASSUME Typed, InFiles, NEW f \in Files, NEW n \in Nat \ {0}, NEW page \in Runs(f, n),
           \A i \in Runs(f, n) : page <= i,
           NEW x \in Places, Filled(x), x \notin PagesFrom(<<f, page>>, n)
    PROVE  Body(x) \cap PagesFrom(<<f, page>>, n) = {}
<1> DEFINE first == <<f, page>>
           body == PagesFrom(first, n)
           m == PagesOf[cell[x].val]
<1>1. /\ page \in Nat /\ page # 0 /\ page + n <= NPages /\ page < NPages
      /\ body \cap used = {} /\ first \in Places
  <2>1. page \in Pages \ {0} /\ page + n <= NPages /\ body \cap used = {}
    BY DEF Runs
  <2> QED BY <2>1, PlaceParts, Sizes DEF Pages
<1>2. /\ \A y \in body : y \in Places /\ y[1] = f /\ page <= y[2] /\ y[2] < page + n
      /\ \A y \in Places : y[1] = f /\ page <= y[2] /\ y[2] < page + n => y \in body
  BY <1>1, RunInFile
<1>3. m \in Nat \ {0}
  BY CellIs
<1>4. /\ x[2] # 0 /\ x[2] \in Nat /\ x[2] + m <= NPages
      /\ Body(x) \subseteq used \/ Body(x) \cap used = {}
  BY <1>3, PlaceParts, Sizes DEF InFiles, CellsInFile, CellInFile, Bounded, Typed
<1>5. /\ \A y \in Body(x) : y[1] = x[1] /\ x[2] <= y[2] /\ y[2] < x[2] + m
      /\ \A y \in Places : y[1] = x[1] /\ x[2] <= y[2] /\ y[2] < x[2] + m => y \in Body(x)
  BY <1>3, <1>4, RunInFile DEF Body
<1> HIDE DEF body, m, first
<1>6. SUFFICES ASSUME NEW y \in Body(x), y \in body
               PROVE  FALSE
  BY DEF body, first
<1>7. Body(x) \cap used = {}
  BY <1>1, <1>4, <1>6
<1>8. y[2] \in Nat /\ y[1] = f /\ x[1] = f
  BY <1>2, <1>5, <1>6, PlaceParts
<1>9. x \notin body
  BY DEF body, first
<1>10. x[2] < page
  BY <1>2, <1>4, <1>5, <1>6, <1>8, <1>9, <1>1
<1> DEFINE q == page - 1
<1>11. /\ q \in Nat /\ q # 0 /\ q + n <= NPages /\ q < NPages
       /\ x[2] <= q /\ q < x[2] + m /\ <<f, q>> \in Places
  <2>1. q \in Nat /\ q # 0 /\ q + n <= NPages /\ q < NPages /\ x[2] <= q
    BY <1>1, <1>4, <1>10, Sizes
  <2>2. page <= y[2] /\ y[2] < x[2] + m
    BY <1>2, <1>5, <1>6
  <2>3. q < x[2] + m
    BY <2>2, <1>1, <1>3, <1>4, <1>8
  <2> QED BY <2>1, <2>3, PlaceParts
<1>12. ASSUME NEW z \in PagesFrom(<<f, q>>, n)
       PROVE  z \notin used
  <2>1. z \in Places /\ z[1] = f /\ q <= z[2] /\ z[2] < q + n /\ z[2] \in Nat
    BY <1>11, RunInFile, PlaceParts
  <2>2. CASE z[2] = q
    BY <2>1, <2>2, <1>5, <1>7, <1>8, <1>11
  <2>3. CASE z[2] # q
    <3>1. page <= z[2] /\ z[2] < page + n
      BY <2>1, <2>3, <1>1
    <3> QED BY <3>1, <2>1, <1>1, <1>2
  <2> QED BY <2>2, <2>3
<1>13. q \in Runs(f, n)
  <2>1. q \in Pages \ {0}
    BY <1>11, Sizes DEF Pages
  <2> QED BY <2>1, <1>11, <1>12 DEF Runs
<1>14. page <= q
  BY <1>13
<1> QED BY <1>1, <1>14

LEMMA TakePagesKeeps ==
    ASSUME Typed, Sound, NEW p \in Procs, proc[p].at = "place", TakePages(p)
    PROVE  Typed' /\ Sound'
<1> DEFINE f == FileAt(proc[p].key, proc[p].turn)
           n == PagesOf[proc[p].val]
<1>1. PICK page \in Runs(f, n) :
        /\ \A i \in Runs(f, n) : page <= i
        /\ used' = used \cup Marked(f, page, n)
        /\ cell' = Written(p, f, page)
        /\ length' = [length EXCEPT ![f] = IF page + n > @ THEN page + n ELSE @]
        /\ remain' = [remain EXCEPT ![f] = @ - n]
        /\ proc' = [proc EXCEPT ![p] = Placed(p, f, page)]
  BY DEF TakePages
<1>2. remain[f] > n /\ UNCHANGED <<root, overrun, last>>
  BY DEF TakePages
<1>3. n \in Nat \ {0} /\ f \in Files
  BY PlacingIs, FileAtIs, Sizes
<1> DEFINE first == <<f, page>>
           body == PagesFrom(first, n)
<1>4. /\ page \in Pages \ {0} /\ page \in Nat /\ page # 0 /\ page + n <= NPages
      /\ body \cap used = {} /\ first \in Places
  <2>1. page \in Pages \ {0} /\ page + n <= NPages /\ body \cap used = {}
    BY DEF Runs
  <2> QED BY <2>1, <1>3, PlaceParts, Sizes DEF Pages
<1>5. /\ body \subseteq Places /\ first \in body
      /\ \A y \in body : y[1] = f /\ page <= y[2] /\ y[2] < page + n
  BY <1>3, <1>4, RunInFile
<1>6. /\ cell' \in [Places -> Item \cup {NoItem}]
      /\ \A x \in Places : cell'[x] # NoItem =>
           \/ x = first /\ cell'[x].val = proc[p].val /\ ~cell'[x].dead
           \/ x \notin body /\ Filled(x) /\ cell'[x] = cell[x]
  BY <1>1, <1>3, <1>4, WrittenIs
<1>7. \A x \in Places : Filled(x) /\ x \notin body => Body(x) \cap body = {}
  BY <1>1, <1>3, FirstRunMeetsNone DEF Sound
<1>8. /\ Placed(p, f, page) \in ProcState /\ Placed(p, f, page).at = "index"
      /\ Placed(p, f, page).item \in Entries /\ Placed(p, f, page).item[2] = f
      /\ Placed(p, f, page).item[3] \in Nat
      /\ Placed(p, f, page).item[3] <= page + HeaderPages
  BY <1>3, <1>4, PlacedIs
<1>9. used' = used \cup body
  BY <1>1 DEF Marked
<1> HIDE DEF f, n, first, body
<1>10. /\ length' \in [Files -> Nat] /\ remain' \in [Files -> Nat]
       /\ \A g \in Files : g # f => length'[g] = length[g] /\ remain'[g] = remain[g]
       /\ remain[f] \in Nat /\ remain'[f] = remain[f] - n
       /\ page + n <= length'[f] /\ length[f] <= length'[f] /\ length'[f] \in Nat
       /\ length[f] \in Nat /\ (length'[f] = length[f] \/ length'[f] = page + n)
  BY <1>1, <1>2, <1>3, <1>4 DEF Typed
<1>11. \A g \in Files : length'[g] \in Nat /\ length[g] \in Nat /\ length[g] <= length'[g]
  BY <1>10 DEF Typed
<1>12. Typed'
  <2>1. used' \subseteq Places /\ proc' \in [Procs -> ProcState]
    BY <1>1, <1>5, <1>8, <1>9 DEF Typed
  <2> QED BY <2>1, <1>2, <1>6, <1>10 DEF Typed
<1>13. ASSUME NEW x \in Places, cell'[x] # NoItem
       PROVE  \/ x = first /\ Body(x)' = body /\ ~cell'[x].dead /\ PagesOf[cell'[x].val] = n
              \/ x \notin body /\ Filled(x) /\ cell'[x] = cell[x] /\ Body(x)' = Body(x)
  BY <1>6, <1>13 DEF Body, body, first, n
<1>14. ASSUME NEW x \in Places, cell'[x] # NoItem
       PROVE  CellInFile(x)'
  <2>1. CASE x = first /\ Body(x)' = body /\ PagesOf[cell'[x].val] = n
    <3>1. x[1] = f /\ x[2] = page
      BY <2>1 DEF first
    <3> QED BY <2>1, <3>1, <1>4, <1>9, <1>10 DEF CellInFile
  <2>2. CASE x \notin body /\ Filled(x) /\ cell'[x] = cell[x] /\ Body(x)' = Body(x)
    <3>1. CellInFile(x) /\ Body(x) \cap body = {}
      BY <2>2, <1>7 DEF Sound, InFiles, CellsInFile
    <3>2. x[1] \in Files /\ x[2] \in Nat /\ PagesOf[cell[x].val] \in Nat
      BY <2>2, PlaceParts, CellIs
    <3>3. x[2] + PagesOf[cell'[x].val] <= length'[x[1]]
      BY <2>2, <3>1, <3>2, <1>11 DEF CellInFile
    <3> QED BY <2>2, <3>1, <3>3, <1>9 DEF CellInFile
  <2> QED BY <1>13, <1>14, <2>1, <2>2
<1>15. ASSUME NEW x \in Places, NEW y \in Places, cell'[x] # NoItem, cell'[y] # NoItem, x # y
       PROVE  Body(x)' \cap Body(y)' = {}
  <2>1. ASSUME NEW z \in Places, z # first, cell'[z] # NoItem
        PROVE  z \notin body /\ Filled(z) /\ Body(z)' = Body(z)
    BY <2>1, <1>13
  <2>2. ASSUME x = first
        PROVE  Body(x)' = body
    BY <2>2, <1>5, <1>13, <1>15
  <2>3. ASSUME y = first
        PROVE  Body(y)' = body
    BY <2>3, <1>5, <1>13, <1>15
  <2>4. CASE x = first
    BY <2>1, <2>2, <2>4, <1>7, <1>15
  <2>5. CASE y = first
    BY <2>1, <2>3, <2>5, <1>7, <1>15
  <2>6. CASE x # first /\ y # first
    BY <2>1, <2>6, <1>15 DEF Sound, InFiles, CellsApart
  <2> QED BY <2>4, <2>5, <2>6
<1>16. UsedBelow'
  <2>1. ASSUME NEW x \in body
        PROVE  x[2] # 0 /\ x[2] < length'[x[1]]
    <3>1. x[1] = f /\ page <= x[2] /\ x[2] < page + n /\ x[2] \in Nat
      BY <1>5, PlaceParts
    <3> QED BY <3>1, <1>3, <1>4, <1>10
  <2>2. ASSUME NEW x \in used
        PROVE  x[2] # 0 /\ x[2] < length'[x[1]]
    <3>1. x[1] \in Files /\ x[2] \in Nat
      BY PlaceParts DEF Typed
    <3>2. x[2] # 0 /\ x[2] < length[x[1]]
      BY DEF Sound, InFiles, UsedBelow
    <3> QED BY <3>1, <3>2, <1>11
  <2> QED BY <1>9, <2>1, <2>2 DEF UsedBelow
<1>17. Counted'
  <2>1. ASSUME NEW g \in Files, g # f
        PROVE  remain'[g] + Cardinality(UsedIn(g)') >= NPages \/ Runs(g, 1)' = {}
    <3>1. UsedIn(g)' = UsedIn(g)
      BY <2>1, <1>5, <1>9 DEF UsedIn
    <3>2. used' \in SUBSET Places /\ used \in SUBSET Places
      BY <1>12 DEF Typed
    <3>3. Runs(g, 1)' = {i \in Pages \ {0} : <<g, i>> \notin used'}
      BY <3>2, NoRoom DEF Runs
    <3>4. Runs(g, 1) = {i \in Pages \ {0} : <<g, i>> \notin used}
      BY <3>2, NoRoom DEF Runs
    <3>5. Runs(g, 1)' = Runs(g, 1)
      BY <2>1, <3>3, <3>4, <1>5, <1>9
    <3> QED BY <2>1, <3>1, <3>5, <1>10 DEF Sound, InFiles, Counted
  <2>2. ASSUME NEW g \in Files, g = f
        PROVE  remain'[g] + Cardinality(UsedIn(g)') >= NPages
    <3>1. used \in SUBSET Places
      BY DEF Typed
    <3>2. Runs(g, 1) = {i \in Pages \ {0} : <<g, i>> \notin used}
      BY <3>1, NoRoom DEF Runs
    <3>3. page \in Runs(g, 1)
      BY <2>2, <3>2, <1>4, <1>5 DEF first
    <3>4. remain[g] + Cardinality(UsedIn(g)) >= NPages
      BY <3>3 DEF Sound, InFiles, Counted
    <3>5. UsedIn(g)' = UsedIn(g) \cup body
      <4>1. UsedIn(g)' = {x \in used \cup body : x[1] = g}
        BY <1>9 DEF UsedIn
      <4>2. \A x \in body : x[1] = g
        BY <2>2, <1>5
      <4> QED BY <4>1, <4>2 DEF UsedIn
    <3>6. UsedIn(g) \cap body = {}
      BY <1>4 DEF UsedIn
    <3>7. IsFiniteSet(UsedIn(g)) /\ Cardinality(UsedIn(g)) \in Nat
      BY <3>1, FileCounted DEF UsedIn
    <3>8. IsFiniteSet(body) /\ Cardinality(body) = n
      <4>1. first[2] \in Nat
        BY <1>4 DEF first
      <4> QED BY <4>1, <1>3, RunCounted DEF body
    <3> DEFINE U == UsedIn(g)
    <3>9. Cardinality(U \cup body) = Cardinality(U) + n
      <4> HIDE DEF U
      <4>1. IsFiniteSet(U) /\ U \cap body = {} /\ Cardinality(U) \in Nat
        BY <3>6, <3>7 DEF U
      <4>2. Cardinality(U \cup body) = Cardinality(U) + Cardinality(body) - Cardinality(U \cap body)
        BY <4>1, <3>8, FS_Union
      <4>3. Cardinality(U \cap body) = 0
        BY <4>1, FS_EmptySet
      <4> QED BY <4>1, <4>2, <4>3, <3>8, <1>3
    <3>10. Cardinality(UsedIn(g)') = Cardinality(UsedIn(g)) + n
      BY <3>5, <3>9
    <3> QED BY <2>2, <3>4, <3>7, <3>10, <1>3, <1>10, Sizes
  <2> QED BY <2>1, <2>2 DEF Counted
<1>18. Bounded'
  <2>1. \A g \in Files : length[g] <= NPages /\ (length[g] = 0 => remain[g] <= NPages)
    BY DEF Sound, InFiles, Bounded
  <2>2. length'[f] # 0 /\ length'[f] <= NPages
    BY <2>1, <1>3, <1>4, <1>10
  <2> QED BY <2>1, <2>2, <1>10 DEF Bounded
<1>19. Passed'
  BY <1>1, <1>8, <1>11, PassedKept DEF Sound
<1>20. Named'
  <2>1. Placed(p, f, page).item[3] < length'[f] + HeaderPages
    BY <1>3, <1>4, <1>8, <1>10, Sizes
  <2>2. root' = root /\ root \in Indexes
    BY <1>2 DEF Typed
  <2>3. \A l \in Keys : \A x \in Held(root', l) : x \in Entries /\ (x \in Held(root, l) \/ Names(x))
    BY <2>2, HeldIs
  <2> QED BY <1>1, <1>8, <1>11, <2>1, <2>3, NamedKept DEF Sound
<1>21. CellsInFile' /\ CellsApart'
  BY <1>14, <1>15 DEF CellsInFile, CellsApart, Filled
<1> QED BY <1>12, <1>16, <1>17, <1>18, <1>19, <1>20, <1>21 DEF Sound, InFiles

\* An item behind the last one overruns the file, and no entry names its pages.
LEMMA AppendItemKeeps ==
    ASSUME Typed, Sound, NEW p \in Procs, proc[p].at = "place", AppendItem(p)
    PROVE  Typed' /\ LiveItemsApart' /\ overrun'
<1> DEFINE k == proc[p].key
           turn == proc[p].turn
           f == FileAt(k, turn)
           n == PagesOf[proc[p].val]
<1>1. /\ turn >= NFiles /\ remain[f] > n
      /\ overrun' = (length[f] + n > NPages)
      /\ used' = used \cup (PagesFrom(<<f, length[f] + HeaderPages>>, n) \cap Places)
      /\ cell' = Written(p, f, length[f])
      /\ length' = [length EXCEPT ![f] = @ + n]
      /\ remain' = [remain EXCEPT ![f] = @ - n]
      /\ proc' = [proc EXCEPT ![p] = Placed(p, f, length[f])]
      /\ UNCHANGED <<root, last>>
  BY DEF AppendItem
<1>2. /\ k \in Keys /\ turn \in 0 .. 2 * NFiles - 1 /\ turn \in Nat
      /\ n \in Nat \ {0} /\ NFiles \in Nat \ {0} /\ f \in Files
  BY PlacingIs, FileAtIs, Sizes
<1>3. length[f] \in Nat /\ remain[f] \in Nat
  BY <1>2 DEF Typed
<1>4. overrun' = TRUE
  <2>1. turn - NFiles \in 0 .. NFiles - 1 /\ turn - NFiles < turn
    BY <1>1, <1>2
  <2>2. FileAt(k, turn - NFiles) = f
    BY <1>1, <1>2, FileAtIs
  <2>3. Hopeless(f, n)
    BY <2>1, <2>2 DEF Sound, Passed
  <2>4. length[f] = 0 => remain[f] <= NPages
    BY <1>2 DEF Sound, InFiles, Bounded
  <2>5. length[f] + n > NPages
    BY <2>3, <2>4, <1>1, <1>2, <1>3, Sizes DEF Hopeless
  <2> QED BY <2>5, <1>1
<1> DEFINE first == <<f, length[f]>>
<1>5. /\ cell' \in [Places -> Item \cup {NoItem}]
      /\ \A x \in Places : cell'[x] # NoItem => x = first \/ cell'[x] = cell[x]
  <2> DEFINE l == length[f]
  <2>1. cell' = Written(p, f, l) /\ f \in Files /\ l \in Nat
    BY <1>1, <1>2, <1>3
  <2> HIDE DEF f, l
  <2>2. /\ cell' \in [Places -> Item \cup {NoItem}]
        /\ \A x \in Places : cell'[x] # NoItem =>
             \/ x = <<f, l>> /\ cell'[x].val = proc[p].val /\ ~cell'[x].dead
             \/ /\ x \notin PagesFrom(<<f, l>>, PagesOf[proc[p].val])
                /\ Filled(x) /\ cell'[x] = cell[x]
    BY <2>1, WrittenIs
  <2> QED BY <2>2 DEF l
<1>6. Placed(p, f, length[f]) \in ProcState
  BY <1>2, <1>3, PlacedIs
<1> HIDE DEF k, turn, f, n
<1>7. Typed'
  <2>1. used' \subseteq Places
    BY <1>1 DEF Typed
  <2>2. length' \in [Files -> Nat] /\ remain' \in [Files -> Nat]
    BY <1>1, <1>2, <1>3 DEF Typed
  <2>3. proc' \in [Procs -> ProcState]
    BY <1>1, <1>6 DEF Typed
  <2> QED BY <1>1, <1>4, <1>5, <2>1, <2>2, <2>3 DEF Typed
<1>8. ASSUME NEW l \in Keys, NEW x \in LiveEntries(l)'
      PROVE  /\ Place(x) \in Places /\ Filled(Place(x)) /\ ~cell[Place(x)].dead
             /\ Extent(x)' = Body(Place(x))
  <2>1. x \in Held(root, l) /\ Matches(x, l)'
    BY <1>1, <1>8 DEF LiveEntries, Held
  <2>2. /\ ItemAt(x)' \in Item /\ ItemAt(x)'.dead = FALSE
    BY <2>1 DEF Matches, Item
  <2>3. ItemAt(x)' # NoItem
    BY <2>2, ItemIs
  <2>4. Place(x) \in Places /\ ItemAt(x)' = cell'[Place(x)]
    BY <2>3 DEF ItemAt, Place
  <2>5. x \in Entries /\ Names(x)
    <3>1. root \in Indexes
      BY DEF Typed
    <3> QED BY <2>1, <3>1, HeldIs DEF Sound, Named
  <2>6. Place(x) # first
    <3>1. x[2] \in Files /\ x[3] \in Nat
      BY <2>5, EntryIs
    <3>2. x[3] - HeaderPages < length[x[2]]
      BY <2>5, <3>1, Sizes DEF Names, Typed
    <3>3. Place(x) = first => x[2] = f /\ x[3] - HeaderPages = length[f]
      BY DEF Place
    <3> QED BY <3>1, <3>2, <3>3, <1>3, Sizes
  <2>7. cell'[Place(x)] = cell[Place(x)]
    BY <1>5, <2>3, <2>4, <2>6
  <2> QED BY <2>2, <2>3, <2>4, <2>7 DEF Filled, Body, Extent, Place
<1>9. LiveItemsApart'
  <2> DEFINE live == UNION {LiveEntries(l)' : l \in Keys}
  <2>1. \A x \in live : Extent(x)' \subseteq used'
    BY <1>1, <1>8 DEF Sound, InFiles, CellsInFile, CellInFile
  <2>2. \A x, y \in live : Place(x) # Place(y) => Extent(x)' \cap Extent(y)' = {}
    BY <1>8 DEF Sound, InFiles, CellsApart
  <2> QED BY <2>1, <2>2 DEF LiveItemsApart, Place
<1> QED BY <1>4, <1>7, <1>9

-----------------------------------------------------------------------------
(* Searches give the pages of expired items back *)

LEMMA GivenBackInFiles ==
    ASSUME Typed, InFiles, NEW D \in SUBSET Places,
           \A x \in D : Filled(x) /\ cell[x].dead,
           used' = used \ UNION {Body(x) : x \in D}, UNCHANGED <<cell, length>>
    PROVE  CellsInFile' /\ CellsApart' /\ UsedBelow'
<1>1. \A x : Body(x)' = Body(x) /\ Filled(x)' = Filled(x)
  BY DEF Body, Filled
<1>2. ASSUME NEW x \in Places, Filled(x)
      PROVE  CellInFile(x)'
  <2>1. CellInFile(x)
    BY <1>2 DEF InFiles, CellsInFile
  <2>2. CASE x \in D
    BY <2>1, <2>2, <1>1 DEF CellInFile
  <2>3. CASE x \notin D
    <3>1. \A y \in D : Body(x) \cap Body(y) = {}
      BY <1>2, <2>3 DEF InFiles, CellsApart
    <3>2. Body(x) \cap UNION {Body(y) : y \in D} = {}
      BY <3>1
    <3> QED BY <2>1, <3>2, <1>1 DEF CellInFile
  <2> QED BY <2>2, <2>3
<1>3. CellsInFile' /\ CellsApart'
  BY <1>1, <1>2 DEF InFiles, CellsInFile, CellsApart
<1>4. UsedBelow'
  BY DEF InFiles, UsedBelow
<1> QED BY <1>3, <1>4

\* What is given back makes up for the marks that are cleared, and in a file
\* that was taken for full for the one page that is never marked.
LEMMA GivenBackCounted ==
    ASSUME Typed, InFiles, NEW freed, used' = used \ freed, NEW f \in Files,
           NEW G, IsFiniteSet(G),
           \A y \in freed \cap used : y[1] = f => \E e : <<e, y>> \in G,
           remain'[f] = remain[f] + FreeUnit * Cardinality(G)
    PROVE  /\ remain'[f] \in Nat
           /\ remain'[f] + Cardinality(UsedIn(f)') >= NPages \/ Runs(f, 1)' = {}
<1> DEFINE U == UsedIn(f)
           P == U \cap freed
           G2 == {z \in G : z[2] \in P}
           g == [z \in G2 |-> z[2]]
<1>1. used \in SUBSET Places /\ used' \in SUBSET Places /\ remain[f] \in Nat
  BY DEF Typed
<1>2. IsFiniteSet(U) /\ Cardinality(U) \in Nat
  BY <1>1, FileCounted DEF UsedIn
<1>3. IsFiniteSet(P) /\ Cardinality(P) \in Nat
  <2>1. P \in SUBSET U
    OBVIOUS
  <2> HIDE DEF U, P
  <2> QED BY <1>2, <2>1, FS_Subset, FS_CardinalityType
<1>4. IsFiniteSet(G2) /\ Cardinality(G2) <= Cardinality(G)
      /\ Cardinality(G) \in Nat /\ Cardinality(G2) \in Nat
  <2>1. G2 \in SUBSET G
    OBVIOUS
  <2> HIDE DEF G2
  <2> QED BY <2>1, FS_Subset, FS_CardinalityType
<1>5. \A y \in P : \E z \in G2 : z[2] = y
  <2>1. ASSUME NEW y \in P
        PROVE  \E z \in G2 : z[2] = y
    <3>1. PICK e : <<e, y>> \in G
      BY DEF UsedIn
    <3> QED BY <3>1
  <2> QED BY <2>1
<1>6. g \in Surjection(G2, P)
  <2>1. g \in [G2 -> P]
    OBVIOUS
  <2>2. \A y \in P : \E z \in G2 : g[z] = y
    BY <1>5
  <2> QED BY <2>1, <2>2 DEF Surjection
<1>7. Cardinality(P) <= Cardinality(G)
  <2>1. Cardinality(P) <= Cardinality(G2)
    <3> HIDE DEF g, G2, P
    <3> QED BY <1>4, <1>6, FS_Surjection
  <2> QED BY <2>1, <1>3, <1>4
<1>8. UsedIn(f)' = U \ P
  BY DEF UsedIn
<1>9. Cardinality(UsedIn(f)') = Cardinality(U) - Cardinality(P)
  <2>1. P \subseteq U
    OBVIOUS
  <2> HIDE DEF U, P
  <2>2. U \cap P = P
    BY <2>1
  <2> QED BY <1>2, <1>8, <2>2, FS_Difference
<1>10. FreeUnit * Cardinality(G) \in Nat /\ FreeUnit * Cardinality(G) >= 2 * Cardinality(P)
  BY <1>3, <1>4, <1>7, Sizes, Scaled
<1>11. Runs(f, 1) = {i \in Pages \ {0} : <<f, i>> \notin used}
  BY <1>1, NoRoom DEF Runs
<1>12. Runs(f, 1)' = {i \in Pages \ {0} : <<f, i>> \notin used'}
  BY <1>1, NoRoom DEF Runs
<1> DEFINE u == Cardinality(U)
           c == Cardinality(P)
           a == FreeUnit * Cardinality(G)
<1>13. /\ remain'[f] = remain[f] + a /\ Cardinality(UsedIn(f)') = u - c
       /\ u \in Nat /\ c \in Nat /\ a \in Nat /\ a >= 2 * c
  BY <1>2, <1>3, <1>9, <1>10
<1>14. CASE remain[f] + Cardinality(UsedIn(f)) >= NPages
  <2>1. remain[f] + u >= NPages
    BY <1>14
  <2> HIDE DEF u, c, a
  <2> QED BY <2>1, <1>1, <1>13, Sizes
<1>15. CASE Runs(f, 1) = {} /\ P = {}
  <2>1. \A i \in Pages \ {0} : <<f, i>> \in used /\ <<f, i>>[1] = f
    BY <1>11, <1>15
  <2>2. \A i \in Pages \ {0} : <<f, i>> \in used'
    BY <2>1, <1>15 DEF UsedIn
  <2>3. Runs(f, 1)' = {}
    BY <2>2, <1>12
  <2>4. remain'[f] \in Nat
    BY <1>1, <1>13
  <2> QED BY <2>3, <2>4
<1>16. CASE Runs(f, 1) = {} /\ P # {}
  <2>1. c # 0
    <3> HIDE DEF P
    <3> QED BY <1>3, <1>16, FS_EmptySet
  <2>2. \A i \in Pages \ {0} : <<f, i>> \in used
    BY <1>11, <1>16
  <2>3. u >= NPages - 1
    BY <1>1, <2>2, FullCounted DEF UsedIn
  <2> HIDE DEF u, c, a
  <2> QED BY <2>1, <2>3, <1>1, <1>13, Sizes
<1>17. remain[f] + Cardinality(UsedIn(f)) >= NPages \/ Runs(f, 1) = {}
  BY DEF InFiles, Counted
<1> QED BY <1>14, <1>15, <1>16, <1>17

LEMMA SearchKeeps ==
    ASSUME Typed, Sound, NEW p \in Procs, NEW k \in Keys, Search(p, k)
    PROVE  Typed' /\ Sound'
<1> DEFINE met == Visited(k)
           dead == {i \in DOMAIN met : IsDead(met[i])}
           Rank(i) == Cardinality({j \in dead : j < i})
           Given(f) == UNION {{x} \X Extent(x) : x \in {y \in {met[i] : i \in dead} : y[2] = f}}
           freed == UNION {Extent(met[i]) : i \in dead}
           r == [at |-> "expire",
                 left |-> {<<Rank(i), met[i]>> : i \in {j \in dead : Rank(j) < ReservedMax}}]
           D == {Place(met[i]) : i \in dead}
           R == {met[i] : i \in dead}
<1>1. /\ used' = used \ freed
      /\ remain' = [f \in Files |-> remain[f] + FreeUnit * Cardinality(Given(f))]
      /\ proc' = [proc EXCEPT ![p] = r]
      /\ UNCHANGED <<root, cell, length, overrun, last>>
  BY DEF Search
<1>2. met \in Seq(Entries)
  BY VisitedIs DEF Typed
<1>3. dead \in SUBSET (1 .. Len(met)) /\ \A i \in dead : met[i] \in Entries /\ IsDead(met[i])
  BY <1>2
<1>4. IsFiniteSet(dead)
  <2>1. Len(met) \in Nat
    BY <1>2
  <2>2. IsFiniteSet(1 .. Len(met))
    BY <2>1, FS_Interval
  <2> HIDE DEF dead, met
  <2> QED BY <1>3, <2>2, FS_Subset
<1>5. \A i \in dead : Rank(i) \in Nat
  <2>1. ASSUME NEW i \in dead
        PROVE  Rank(i) \in Nat
    <3>1. {j \in dead : j < i} \in SUBSET dead
      OBVIOUS
    <3> HIDE DEF dead, met
    <3> QED BY <1>4, <3>1, FS_Subset, FS_CardinalityType
  <2> QED BY <2>1
<1>6. ASSUME NEW i \in dead
      PROVE  /\ met[i] \in Entries
             /\ Place(met[i]) \in Places /\ Filled(Place(met[i])) /\ cell[Place(met[i])].dead
             /\ Extent(met[i]) = Body(Place(met[i]))
             /\ Place(met[i])[1] = met[i][2]
  <2>1. met[i] \in Entries /\ IsDead(met[i])
    BY <1>3
  <2> QED BY <2>1, EntryMeets DEF Place
<1> HIDE DEF dead, met
<1>7. r \in ProcState /\ r.at = "expire"
  <2>1. \A i \in dead : <<Rank(i), met[i]>> \in Nat \X Entries
    BY <1>5, <1>6
  <2> HIDE DEF Rank
  <2> QED BY <2>1 DEF ProcState
<1>8. D \in SUBSET Places /\ (\A x \in D : Filled(x) /\ cell[x].dead)
      /\ used' = used \ UNION {Body(x) : x \in D}
  <2>1. freed = UNION {Body(x) : x \in D}
    BY <1>6
  <2> QED BY <1>1, <1>6, <2>1
<1>9. CellsInFile' /\ CellsApart' /\ UsedBelow'
  <2> HIDE DEF D
  <2> QED BY <1>1, <1>8, GivenBackInFiles DEF Sound
<1>10. IsFiniteSet(R \X Places)
  <2>1. IsFiniteSet(R)
    <3> DEFINE g == [i \in dead |-> met[i]]
    <3>1. g \in Surjection(dead, R)
      BY DEF Surjection
    <3> HIDE DEF g, R
    <3> QED BY <1>4, <3>1, FS_Surjection
  <2>2. IsFiniteSet(Files) /\ IsFiniteSet(Pages)
    <3>1. NFiles - 1 \in Int /\ NPages - 1 \in Int
      BY Sizes
    <3> QED BY <3>1, FS_Interval DEF Files, Pages
  <2>3. IsFiniteSet(Places)
    BY <2>2, FS_Product DEF Places
  <2> HIDE DEF R
  <2> QED BY <2>1, <2>3, FS_Product
<1>11. ASSUME NEW f \in Files
       PROVE  /\ IsFiniteSet(Given(f))
              /\ \A y \in freed \cap used : y[1] = f => \E e : <<e, y>> \in Given(f)
              /\ length[f] = 0 => Given(f) = {}
  <2>1. ASSUME NEW i \in dead
        PROVE  /\ Extent(met[i]) \subseteq Places
               /\ \A y \in Extent(met[i]) : y[1] = met[i][2]
               /\ length[met[i][2]] # 0
    <3>1. /\ Body(Place(met[i])) \subseteq Places
          /\ Place(met[i]) \in Body(Place(met[i]))
          /\ \A y \in Body(Place(met[i])) : y[1] = Place(met[i])[1]
               /\ Place(met[i])[2] <= y[2] /\ y[2] < length[Place(met[i])[1]]
      BY <1>6, BodyIs DEF Sound, InFiles
    <3>2. length[Place(met[i])[1]] # 0
      BY <3>1, <1>6, PlaceParts
    <3> QED BY <3>1, <3>2, <1>6
  <2>2. Given(f) \in SUBSET (R \X Places)
    BY <2>1
  <2>3. IsFiniteSet(Given(f))
    <3> HIDE DEF Given, R
    <3> QED BY <2>2, <1>10, FS_Subset
  <2>4. ASSUME NEW y \in freed, y[1] = f
        PROVE  \E e : <<e, y>> \in Given(f)
    <3>1. PICK i \in dead : y \in Extent(met[i])
      OBVIOUS
    <3>2. met[i][2] = f
      BY <2>1, <2>4, <3>1
    <3>3. met[i] \in {z \in {met[j] : j \in dead} : z[2] = f}
      BY <3>2
    <3>4. <<met[i], y>> \in {met[i]} \X Extent(met[i])
      BY <3>1
    <3>5. <<met[i], y>> \in Given(f)
      BY <3>3, <3>4
    <3> QED BY <3>5
  <2>5. length[f] = 0 => Given(f) = {}
    BY <2>1
  <2> QED BY <2>3, <2>4, <2>5
<1>12. ASSUME NEW f \in Files
       PROVE  /\ remain'[f] \in Nat
              /\ remain'[f] + Cardinality(UsedIn(f)') >= NPages \/ Runs(f, 1)' = {}
              /\ length[f] = 0 => remain'[f] = remain[f]
  <2> DEFINE G == Given(f)
  <2>1. IsFiniteSet(G) /\ (length[f] = 0 => G = {})
        /\ \A y \in freed \cap used : y[1] = f => \E e : <<e, y>> \in G
    BY <1>11
  <2>2. remain'[f] = remain[f] + FreeUnit * Cardinality(G)
    BY <1>1
  <2>3. remain[f] \in Nat
    BY DEF Typed
  <2> HIDE DEF G, freed
  <2>4. /\ remain'[f] \in Nat
        /\ remain'[f] + Cardinality(UsedIn(f)') >= NPages \/ Runs(f, 1)' = {}
    BY <1>1, <2>1, <2>2, GivenBackCounted DEF Sound
  <2>5. ASSUME length[f] = 0
        PROVE  remain'[f] = remain[f]
    <3>1. Cardinality(G) = 0
      BY <2>1, <2>5, FS_EmptySet
    <3> QED BY <2>2, <2>3, <3>1, Sizes
  <2> QED BY <2>4, <2>5
<1>13. Counted' /\ Bounded'
  BY <1>1, <1>12 DEF Counted, Bounded, Sound, InFiles
<1>14. Typed'
  <2>1. remain' \in [Files -> Nat]
    <3> HIDE DEF Given
    <3> QED BY <1>1, <1>12
  <2>2. used' \subseteq Places /\ proc' \in [Procs -> ProcState]
    BY <1>1, <1>7 DEF Typed
  <2> QED BY <1>1, <2>1, <2>2 DEF Typed
<1>15. \A f \in Files : length'[f] \in Nat /\ length[f] <= length'[f]
  BY <1>1 DEF Typed
<1> HIDE DEF r
<1>16. Passed'
  BY <1>1, <1>7, <1>15, PassedKept DEF Sound
<1>17. Named'
  <2>1. root' = root /\ root \in Indexes
    BY <1>1 DEF Typed
  <2>2. \A l \in Keys : \A x \in Held(root', l) : x \in Entries /\ (x \in Held(root, l) \/ Names(x))
    BY <2>1, HeldIs
  <2> QED BY <1>1, <1>7, <1>15, <2>2, NamedKept DEF Sound
<1> QED BY <1>9, <1>13, <1>14, <1>16, <1>17 DEF Sound, InFiles

-----------------------------------------------------------------------------
(* The theorems *)

LEMMA InitSound ==
    ASSUME Init
    PROVE  IInv
<1> USE DEF Init
<1>1. Idle \in ProcState /\ Idle.at = "idle"
  BY DEF ProcState, Idle
<1>2. Typed
  <2>1. EmptyIndex \in Indexes
    BY IndexAssumption
  <2>2. /\ remain \in [Files -> Nat] /\ length \in [Files -> Nat]
        /\ cell \in [Places -> Item \cup {NoItem}] /\ last \in [Keys -> Values \cup {NoValue}]
    BY Sizes
  <2> QED BY <1>1, <2>1, <2>2 DEF Typed
<1>3. CellsInFile /\ CellsApart /\ UsedBelow
  BY DEF CellsInFile, CellsApart, UsedBelow, Filled
<1>4. Counted /\ Bounded
  <2>1. ASSUME NEW f \in Files
        PROVE  Cardinality(UsedIn(f)) = 0
    <3>1. UsedIn(f) = {}
      BY DEF UsedIn
    <3> QED BY <3>1, FS_EmptySet
  <2> QED BY <2>1, Sizes DEF Counted, Bounded
<1>5. Passed
  BY <1>1 DEF Passed
<1>6. Named
  <2>1. \A k \in Keys : Held(root, k) = {}
    BY IndexAssumption
  <2> QED BY <1>1, <2>1 DEF Named
<1>7. LiveItemsApart
  BY <1>2, <1>3, SoundGivesApart
<1> QED BY <1>2, <1>3, <1>4, <1>5, <1>6, <1>7 DEF IInv, Sound, InFiles

LEMMA StepKeeps ==
    ASSUME Typed, Sound, ~overrun, Next
    PROVE  Typed' /\ (Sound' \/ (LiveItemsApart' /\ overrun'))
<1>1. ASSUME NEW p \in Procs, NEW k \in Keys, Search(p, k)
      PROVE  Typed' /\ Sound'
  BY <1>1, SearchKeeps
<1>2. ASSUME NEW p \in Procs, NEW s \in Stores, Store(p, s[1], s[2])
      PROVE  Typed' /\ Sound'
  <2>1. s[1] \in Keys /\ s[2] \in Values
    BY StoreAssumption
  <2> QED BY <1>2, <2>1, StoreKeeps
<1>3. ASSUME NEW p \in Procs, RemoveExpired(p)
      PROVE  Typed' /\ Sound'
  BY <1>3, RemoveExpiredKeeps
<1>4. ASSUME NEW p \in Procs, Allocate(p)
      PROVE  Typed' /\ (Sound' \/ (LiveItemsApart' /\ overrun'))
  <2>1. proc[p].at = "place" /\ (TakePages(p) \/ AppendItem(p) \/ PassFile(p))
    BY <1>4 DEF Allocate
  <2>2. CASE TakePages(p)
    BY <2>1, <2>2, TakePagesKeeps
  <2>3. CASE AppendItem(p)
    BY <2>1, <2>3, AppendItemKeeps
  <2>4. CASE PassFile(p)
    BY <2>1, <2>4, PassFileKeeps
  <2> QED BY <2>1, <2>2, <2>3, <2>4
<1>5. ASSUME NEW p \in Procs, AddIndex(p)
      PROVE  Typed' /\ Sound'
  BY <1>5, AddIndexKeeps
<1>6. ASSUME NEW p \in Procs, Kill(p)
      PROVE  Typed' /\ Sound'
  BY <1>6, KillKeeps
<1>7. ASSUME NEW x \in Places, Lapse(x)
      PROVE  Typed' /\ Sound'
  BY <1>7, LapseKeeps
<1> QED BY <1>1, <1>2, <1>3, <1>4, <1>5, <1>6, <1>7 DEF Next

LEMMA NextKeeps ==
    ASSUME IInv, [Next]_vars
    PROVE  IInv'
<1>1. CASE UNCHANGED vars
  <2>1. Typed'
    BY <1>1 DEF vars, IInv, Typed
  <2>2. \A x : ItemAt(x)' = ItemAt(x)
    BY <1>1 DEF vars, ItemAt, Place
  <2>3. /\ \A k : LiveEntries(k)' = LiveEntries(k)
        /\ \A x : Extent(x)' = Extent(x) /\ Place(x)' = Place(x)
        /\ used' = used
    BY <1>1, <2>2 DEF vars, LiveEntries, Held, Matches, Extent, Place
  <2>4. LiveItemsApart'
    BY <2>3 DEF IInv, LiveItemsApart
  <2>5. ASSUME Sound
        PROVE  Sound'
    <3>1. InFiles'
      BY <1>1, <2>5, FilesKept DEF vars, files, Sound
    <3>2. Passed'
      BY <1>1, <2>5 DEF vars, Sound, Passed, Hopeless, FileAt
    <3>3. Named'
      BY <1>1, <2>5 DEF vars, Sound, Named, Names, Held
    <3> QED BY <3>1, <3>2, <3>3 DEF Sound
  <2> QED BY <1>1, <2>1, <2>4, <2>5 DEF vars, IInv
<1>2. CASE Next
  <2>1. Typed /\ Sound /\ ~overrun
    BY <1>2 DEF IInv, Next
  <2>2. Typed' /\ (Sound' \/ (LiveItemsApart' /\ overrun'))
    BY <1>2, <2>1, StepKeeps
  <2>3. Typed' /\ CellsInFile' /\ CellsApart' => LiveItemsApart'
    BY SoundGivesApart, PTL
  <2> QED BY <2>2, <2>3 DEF IInv, Sound, InFiles
<1> QED BY <1>1, <1>2

LEMMA Invariant == Spec => []IInv
<1>1. Init => IInv
  BY InitSound
<1>2. IInv /\ [Next]_vars => IInv'
  BY NextKeeps
<1> QED BY <1>1, <1>2, PTL DEF Spec

(* The index, the data files and the processes keep their types, whatever   *)
(* the order of stores, searches and kills (smmr_database.c).               *)
THEOREM TypeCorrect == Spec => []TypeOK
<1>1. IInv => TypeOK
  BY TypedGivesTypeOK DEF IInv
<1> QED BY <1>1, Invariant, PTL

(* Entries that have not expired are marked used and share no page, though  *)
(* searches give pages back under entries that stay in the index and the    *)
(* next store takes them again (smmr_database.c:161-175, 80-87, 833-842).   *)
THEOREM LiveItemsStayApart == Spec => []LiveItemsApart
<1>1. IInv => LiveItemsApart
  BY DEF IInv
<1> QED BY <1>1, Invariant, PTL

(* Until a process has written past the end of a file, a file with a free   *)
(* page is looked at by every store of one page: no order of stores, failed *)
(* searches for room and expiries makes the length said to remain too small *)
(* (smmr_database.c:561, 581, 842).                                         *)
THEOREM RoomStaysSeen == Spec => []RoomIsSeen
<1>1. IInv => RoomIsSeen
  BY SoundGivesRoom DEF IInv, Sound, InFiles, RoomIsSeen
<1> QED BY <1>1, Invariant, PTL

(* Every item that a store's second round puts behind the last one reaches  *)
(* past the end of the data file: the first round has found no room in any  *)
(* file, and no file's used length ever falls                               *)
(* (smmr_database.c:280-285, 548, 656-766).                                *)
Overruns == \A p \in Procs : Allocate(p) /\ AppendItem(p) => overrun'

THEOREM AppendingOverruns == Spec => [][Next => Overruns]_vars
<1>1. IInv /\ Next => Overruns
  <2> SUFFICES ASSUME IInv, Next, NEW p \in Procs, Allocate(p), AppendItem(p)
               PROVE  overrun'
    BY DEF Overruns
  <2>1. Typed /\ Sound /\ proc[p].at = "place"
    BY DEF IInv, Next, Allocate
  <2> QED BY <2>1, AppendItemKeeps
<1>2. IInv /\ [Next]_vars => [Next => Overruns]_vars
  BY <1>1
<1> QED BY <1>2, Invariant, PTL DEF Spec

-----------------------------------------------------------------------------
(* The database implements a key's abstract store.  What a step changes is *)
(* never an item that an entry of a lasting key names: such an item does   *)
(* not expire, so its pages stay marked and no other item is put there.    *)

\* No key that expires has the hash of one that lasts.
HashesApart == \A k \in Lasting, m \in MortalKeys : HashOf[k] # HashOf[m]

\* The bits kept of an offset tell all places of a file apart.
PlacesRecorded == NPages + HeaderPages <= OffsetPages

DeadAreMortal == \A x \in Places : Filled(x) /\ cell[x].dead => cell[x].key \in MortalKeys

\* The entry x names an item of a key with k's hash.
NamesKin(x, k) ==
    /\ Place(x) \in Places /\ Filled(Place(x))
    /\ HashOf[cell[Place(x)].key] = HashOf[k]

LastingNamed == \A k \in Lasting : \A x \in Held(root, k) : NamesKin(x, k)

\* A place still to be recorded has its item, and what is to be removed expired.
ProcKept(p) ==
    /\ proc[p].at = "index" =>
         /\ proc[p].item[1] = HashOf[proc[p].key]
         /\ proc[p].key \in Lasting =>
              /\ Place(proc[p].item) \in Places /\ Filled(Place(proc[p].item))
              /\ cell[Place(proc[p].item)].key = proc[p].key
    /\ proc[p].at = "expire" =>
         \A y \in proc[p].left, k \in Lasting : y[2][1] # HashOf[k]

LastingKept == DeadAreMortal /\ LastingNamed /\ \A p \in Procs : ProcKept(p)

LEMMA KinLasts ==
    ASSUME HashesApart, Typed, NEW k \in Lasting, NEW x, NamesKin(x, k)
    PROVE  cell[Place(x)].key \in Lasting
<1>1. cell[Place(x)] \in Item
  BY CellIs DEF NamesKin
<1>2. cell[Place(x)].key \in Keys
  BY <1>1, ItemIs
<1> QED BY <1>2 DEF HashesApart, NamesKin, Lasting

LEMMA LastingIsLive ==
    ASSUME Typed, InFiles, DeadAreMortal, NEW x \in Places, Filled(x), cell[x].key \in Lasting
    PROVE  ~cell[x].dead /\ cell[x].dead \in BOOLEAN /\ x \in used
<1>1. cell[x].dead \in BOOLEAN
  BY CellIs, ItemIs
<1>2. ~cell[x].dead
  BY DEF DeadAreMortal, Lasting
<1>3. Body(x) \subseteq used
  BY <1>2 DEF InFiles, CellsInFile, CellInFile
<1>4. x \in Body(x)
  BY BodyIs DEF InFiles
<1> QED BY <1>1, <1>2, <1>3, <1>4

-----------------------------------------------------------------------------
(* What a search answers *)

LEMMA FoundIs ==
    root \in Indexes =>
      \A k \in Keys : (\A x \in Held(root, k) : ItemAt(x) # NoItem) =>
         /\ LiveEntries(k) = {} => Found(k) = NoValue
         /\ LiveEntries(k) # {} => Found(k) \in CopiesOf(k)
<1>1. SUFFICES ASSUME root \in Indexes, NEW k \in Keys,
                      \A x \in Held(root, k) : ItemAt(x) # NoItem
               PROVE  /\ LiveEntries(k) = {} => Found(k) = NoValue
                      /\ LiveEntries(k) # {} => Found(k) \in CopiesOf(k)
  OBVIOUS
<1> DEFINE met == Visited(k)
           stopped == {i \in DOMAIN met : StopsAt(met[i], k)}
           e == met[Max(stopped)]
<1>2. /\ met \in Seq(Entries) /\ met \in Seq(Held(root, k))
      /\ \A x \in Held(root, k) : StopsAt(x, k) => stopped # {}
  BY <1>1, VisitedIs
<1>3. Found(k) = IF stopped # {} /\ Matches(e, k) THEN ItemAt(e).val ELSE NoValue
  BY <1>2 DEF Found
<1> HIDE DEF met
<1>4. \A i \in stopped : met[i] \in LiveEntries(k) /\ Matches(met[i], k)
  BY <1>1, <1>2 DEF StopsAt, LiveEntries
<1>5. ASSUME stopped # {}
      PROVE  e \in LiveEntries(k) /\ Matches(e, k)
  <2>1. stopped \in SUBSET (1 .. Len(met)) /\ Len(met) \in Nat
    BY <1>2
  <2>2. Max(stopped) \in stopped
    <3> HIDE DEF stopped
    <3> QED BY <1>5, <2>1, LastExists
  <2> QED BY <2>2, <1>4
<1>6. ASSUME LiveEntries(k) # {}
      PROVE  stopped # {}
  BY <1>2, <1>6 DEF LiveEntries, StopsAt
<1>7. ASSUME LiveEntries(k) = {}
      PROVE  stopped = {}
  BY <1>4, <1>7
<1> HIDE DEF stopped, e
<1> QED BY <1>3, <1>5, <1>6, <1>7 DEF CopiesOf

LEMMA KinIsItem ==
    ASSUME NEW x, NEW k, NamesKin(x, k)
    PROVE  ItemAt(x) = cell[Place(x)] /\ ItemAt(x) # NoItem
  BY DEF NamesKin, ItemAt, Filled

\* If the same entries stop a scan, the same entry decides the answer.
LEMMA SameStops ==
    ASSUME Typed, NEW k \in Keys, root' = root,
           \A x \in Held(root, k) :
              (StopsAt(x, k)' <=> StopsAt(x, k)) /\ (Matches(x, k)' <=> Matches(x, k))
    PROVE  /\ LiveEntries(k)' = LiveEntries(k)
           /\ \/ Found(k) = NoValue /\ Found(k)' = NoValue
              \/ \E x \in LiveEntries(k) : Found(k) = ItemAt(x).val /\ Found(k)' = ItemAt(x)'.val
<1>1. LiveEntries(k)' = LiveEntries(k)
  BY DEF LiveEntries, Held
<1>2. Visited(k)' = Visited(k)
  <2> DEFINE now == {x \in EntriesOf(k) : StopsAt(x, k)}
             then == {x \in EntriesOf(k) : StopsAt(x, k)'}
  <2>1. now \cap Held(root, k) = then \cap Held(root, k)
    OBVIOUS
  <2>2. now \in SUBSET EntriesOf(k) /\ then \in SUBSET EntriesOf(k)
    OBVIOUS
  <2>3. Visited(k) = IndexHits(root, HashOf[k], now)
    BY DEF Visited
  <2>4. Visited(k)' = IndexHits(root, HashOf[k], then)
    BY DEF Visited
  <2> HIDE DEF now, then
  <2>5. root \in Indexes
    BY DEF Typed
  <2>6. IndexHits(root, HashOf[k], now) = IndexHits(root, HashOf[k], now \cap Held(root, k))
    BY <2>2, <2>5, OnlyHeldStop
  <2>7. IndexHits(root, HashOf[k], then) = IndexHits(root, HashOf[k], then \cap Held(root, k))
    BY <2>2, <2>5, OnlyHeldStop
  <2> QED BY <2>1, <2>3, <2>4, <2>6, <2>7
<1> DEFINE met == Visited(k)
           stopped == {i \in DOMAIN met : StopsAt(met[i], k)}
           e == met[Max(stopped)]
<1>3. met \in Seq(Entries) /\ met \in Seq(Held(root, k))
  BY VisitedIs DEF Typed
<1>4. stopped' = stopped
  BY <1>2, <1>3
<1>5. e' = e
  BY <1>2, <1>4
<1>6. Found(k) = IF stopped # {} /\ Matches(e, k) THEN ItemAt(e).val ELSE NoValue
  BY <1>3 DEF Found
<1>7. Found(k)' = IF stopped' # {} /\ Matches(e, k)' THEN ItemAt(e)'.val ELSE NoValue
  BY <1>2, <1>3 DEF Found
<1>8. stopped # {} => e \in Held(root, k)
  <2>1. stopped \in SUBSET (1 .. Len(met)) /\ Len(met) \in Nat
    BY <1>3
  <2>2. stopped # {} => Max(stopped) \in stopped
    <3> HIDE DEF stopped
    <3> QED BY <2>1, LastExists
  <2> QED BY <2>2, <1>3
<1>9. ASSUME NEW x, x = e, stopped # {}, Matches(e, k)
      PROVE  \E y \in LiveEntries(k) : Found(k) = ItemAt(y).val /\ Found(k)' = ItemAt(y)'.val
  <2>1. x \in LiveEntries(k)
    BY <1>8, <1>9 DEF LiveEntries
  <2>2. Matches(e, k)'
    BY <1>5, <1>8, <1>9
  <2>3. Found(k) = ItemAt(x).val /\ Found(k)' = ItemAt(x)'.val
    BY <1>4, <1>5, <1>6, <1>7, <1>9, <2>2
  <2> QED BY <2>1, <2>3
<1>10. ASSUME stopped = {} \/ ~Matches(e, k)
       PROVE  Found(k) = NoValue /\ Found(k)' = NoValue
  BY <1>4, <1>5, <1>6, <1>7, <1>8, <1>10
<1> HIDE DEF stopped, e
<1> QED BY <1>1, <1>9, <1>10

\* Nothing changes for a key if the index and the items that it names do not.
LEMMA SameView ==
    ASSUME Typed, NEW k \in Keys, root' = root,
           \A x \in Held(root, k) : ItemAt(x)' = ItemAt(x)
    PROVE  CopiesOf(k)' = CopiesOf(k) /\ Found(k)' = Found(k)
<1>1. \A x \in Held(root, k) : (StopsAt(x, k)' <=> StopsAt(x, k)) /\ (Matches(x, k)' <=> Matches(x, k))
  BY DEF StopsAt, Matches
<1>2. /\ LiveEntries(k)' = LiveEntries(k)
      /\ \/ Found(k) = NoValue /\ Found(k)' = NoValue
         \/ \E x \in LiveEntries(k) : Found(k) = ItemAt(x).val /\ Found(k)' = ItemAt(x)'.val
  BY <1>1, SameStops
<1>3. \A x \in LiveEntries(k) : ItemAt(x)' = ItemAt(x)
  BY DEF LiveEntries
<1> QED BY <1>2, <1>3 DEF CopiesOf

-----------------------------------------------------------------------------
(* Items of lasting keys stay, and what names them names them still *)

LEMMA LastingHash ==
    ASSUME HashesApart, NEW k \in Lasting, NEW l \in Keys, HashOf[l] = HashOf[k]
    PROVE  l \in Lasting
  BY DEF HashesApart, Lasting

LEMMA LastingSteps ==
    ASSUME HashesApart, Typed, LastingKept, DeadAreMortal',
           \A x \in Places : Filled(x) /\ cell[x].key \in Lasting =>
              Filled(x)' /\ cell'[x].key = cell[x].key,
           \A k \in Lasting : \A x \in Held(root', k) : x \in Held(root, k) \/ NamesKin(x, k),
           \A q \in Procs : proc'[q] = proc[q] \/ ProcKept(q)'
    PROVE  LastingKept'
<1>1. ASSUME NEW k \in Lasting, NEW x, NamesKin(x, k)
      PROVE  NamesKin(x, k)'
  <2>1. cell[Place(x)].key \in Lasting
    BY <1>1, KinLasts
  <2> QED BY <1>1, <2>1 DEF NamesKin, Place
<1>2. LastingNamed'
  BY <1>1 DEF LastingKept, LastingNamed, Held
<1>3. ASSUME NEW q \in Procs, proc'[q] = proc[q]
      PROVE  ProcKept(q)'
  <2>1. ProcKept(q)
    BY DEF LastingKept
  <2> QED BY <1>3, <2>1 DEF ProcKept, Place
<1> QED BY <1>2, <1>3 DEF LastingKept

LEMMA QuietKept ==
    ASSUME HashesApart, Typed, LastingKept, UNCHANGED cell, NEW p \in Procs, NEW r,
           proc' = [proc EXCEPT ![p] = r], r.at \notin {"index", "expire"},
           \A k \in Lasting : \A x \in Held(root', k) : x \in Held(root, k) \/ NamesKin(x, k)
    PROVE  LastingKept'
<1>1. DeadAreMortal'
  BY DEF LastingKept, DeadAreMortal, Filled
<1>2. \A x : Filled(x)' = Filled(x)
  BY DEF Filled
<1>3. \A q \in Procs : proc'[q] = proc[q] \/ ProcKept(q)'
  BY DEF ProcKept, Typed
<1> QED BY <1>1, <1>2, <1>3, LastingSteps

\* Expired entries that a search meets have no lasting key's hash.
LEMMA DeadMet ==
    ASSUME HashesApart, Typed, LastingKept, NEW k \in Keys, NEW x \in Held(root, k), IsDead(x),
           NEW l \in Lasting
    PROVE  x[1] # HashOf[l]
<1>1. SUFFICES ASSUME x[1] = HashOf[l]
               PROVE  FALSE
  OBVIOUS
<1>2. x[1] = HashOf[k]
  BY HeldIs DEF Typed
<1>3. x \in Held(root, l)
  BY <1>1, <1>2 DEF Held
<1>4. NamesKin(x, l)
  BY <1>3 DEF LastingKept, LastingNamed
<1>5. cell[Place(x)].key \in Lasting
  BY <1>4, KinLasts
<1>6. Place(x) \in Places /\ Filled(Place(x)) /\ cell[Place(x)].dead
  BY EntryMeets
<1> QED BY <1>5, <1>6 DEF LastingKept, DeadAreMortal, Lasting

LEMMA SearchKept ==
    ASSUME HashesApart, Typed, LastingKept, NEW p \in Procs, NEW k \in Keys, Search(p, k)
    PROVE  LastingKept'
<1> DEFINE met == Visited(k)
           dead == {i \in DOMAIN met : IsDead(met[i])}
           Rank(i) == Cardinality({j \in dead : j < i})
           left == {<<Rank(i), met[i]>> : i \in {j \in dead : Rank(j) < ReservedMax}}
           r == [at |-> "expire", left |-> left]
<1>1. proc' = [proc EXCEPT ![p] = r] /\ UNCHANGED <<root, cell>>
  BY DEF Search
<1>2. met \in Seq(Held(root, k))
  BY VisitedIs DEF Typed
<1>3. \A i \in dead : met[i] \in Held(root, k) /\ IsDead(met[i])
  BY <1>2
<1> HIDE DEF met, dead
<1>4. \A i \in dead, l \in Lasting : met[i][1] # HashOf[l]
  BY <1>3, DeadMet
<1> HIDE DEF Rank
<1>5. \A y \in left, l \in Lasting : y[2][1] # HashOf[l]
  BY <1>4
<1> HIDE DEF left
<1>6. DeadAreMortal'
  BY <1>1 DEF LastingKept, DeadAreMortal, Filled
<1>7. \A q \in Procs : proc'[q] = proc[q] \/ ProcKept(q)'
  BY <1>1, <1>5 DEF ProcKept, Typed
<1>8. \A x : Filled(x)' = Filled(x)
  BY <1>1 DEF Filled
<1>9. \A l \in Lasting : \A x \in Held(root', l) : x \in Held(root, l) \/ NamesKin(x, l)
  BY <1>1
<1> QED BY <1>1, <1>6, <1>7, <1>8, <1>9, LastingSteps

LEMMA RemoveExpiredKept ==
    ASSUME HashesApart, Typed, LastingKept, NEW p \in Procs, RemoveExpired(p)
    PROVE  LastingKept' /\ UNCHANGED cell /\ \A k \in Lasting : Held(root', k) = Held(root, k)
<1>1. PICK y \in proc[p].left :
        /\ root' = IndexRemove(root, y[2])
        /\ proc' = [proc EXCEPT ![p] =
                      IF proc[p].left = {y} THEN Idle
                      ELSE [at |-> "expire", left |-> proc[p].left \ {y}]]
  BY DEF RemoveExpired
<1>2. proc[p] \in [at : {"expire"}, left : SUBSET (Nat \X Entries)] /\ UNCHANGED cell
  BY DEF RemoveExpired, Typed, ProcState, Idle, files
<1>3. y[2] \in Entries /\ root \in Indexes
  BY <1>1, <1>2 DEF Typed
<1>4. \A z \in proc[p].left, k \in Lasting : z[2][1] # HashOf[k]
  BY <1>2 DEF LastingKept, ProcKept
<1>5. \A k \in Lasting : Held(root', k) = Held(root, k)
  <2>1. ASSUME NEW k \in Lasting
        PROVE  Held(root', k) = Held(root, k)
    <3>1. k \in Keys
      BY DEF Lasting
    <3>2. Held(root', k) = Held(root, k) \ {y[2]}
      BY <1>1, <1>3, <3>1, IndexSteps
    <3>3. \A x \in Held(root, k) : x[1] = HashOf[k]
      BY <1>3, <3>1, HeldIs
    <3> QED BY <1>4, <3>2, <3>3
  <2> QED BY <2>1
<1>6. DeadAreMortal'
  BY <1>2 DEF LastingKept, DeadAreMortal, Filled
<1>7. \A q \in Procs : proc'[q] = proc[q] \/ ProcKept(q)'
  <2> DEFINE r == IF proc[p].left = {y} THEN Idle
                  ELSE [at |-> "expire", left |-> proc[p].left \ {y}]
  <2>1. r.at # "index" /\ (r.at = "expire" => r.left \subseteq proc[p].left)
    BY DEF Idle
  <2>2. proc' = [proc EXCEPT ![p] = r]
    BY <1>1
  <2> HIDE DEF r
  <2>3. \A q \in Procs : proc'[q] = IF q = p THEN r ELSE proc[q]
    BY <2>2 DEF Typed
  <2>4. ProcKept(p)'
    BY <1>4, <2>1, <2>3 DEF ProcKept
  <2> QED BY <2>3, <2>4
<1>8. \A x : Filled(x)' = Filled(x)
  BY <1>2 DEF Filled
<1>9. LastingKept'
  BY <1>2, <1>5, <1>6, <1>7, <1>8, LastingSteps
<1> QED BY <1>2, <1>5, <1>9

LEMMA StoreKept ==
    ASSUME HashesApart, Typed, LastingKept, NEW p \in Procs, NEW k \in Keys, NEW v \in Values,
           Store(p, k, v)
    PROVE  LastingKept'
<1> DEFINE written == {Place(x) : x \in {y \in ToSet(Visited(k)) :
                                         Matches(y, k) /\ Overwritable(y, v)}}
           r == [at |-> "place", key |-> k, val |-> v, turn |-> 0]
<1>1. /\ cell' = [x \in Places |-> IF x \in written THEN [cell[x] EXCEPT !.val = v] ELSE cell[x]]
      /\ proc' = [proc EXCEPT ![p] = r]
      /\ root' = root
  BY DEF Store
<1>2. \A x \in written : x \in Places /\ Filled(x)
  BY EntryMeets
<1> HIDE DEF written
<1>3. ASSUME NEW x \in Places
      PROVE  /\ Filled(x)' => Filled(x)
             /\ Filled(x) => /\ Filled(x)'
                              /\ cell'[x].key = cell[x].key /\ cell'[x].dead = cell[x].dead
  <2>1. CASE x \in written
    <3>1. cell[x] \in Item
      BY <1>2, <2>1, CellIs
    <3>2. cell'[x] = [cell[x] EXCEPT !.val = v]
      BY <1>1, <2>1
    <3>3. cell'[x] \in Item /\ cell'[x].key = cell[x].key /\ cell'[x].dead = cell[x].dead
      BY <3>1, <3>2 DEF Item
    <3> QED BY <1>2, <2>1, <3>3, ItemIs DEF Filled
  <2>2. CASE x \notin written
    BY <1>1, <2>2 DEF Filled
  <2> QED BY <2>1, <2>2
<1>4. DeadAreMortal'
  BY <1>3 DEF LastingKept, DeadAreMortal
<1>5. \A q \in Procs : proc'[q] = proc[q] \/ ProcKept(q)'
  BY <1>1 DEF ProcKept, Typed
<1>6. \A l \in Lasting : \A x \in Held(root', l) : x \in Held(root, l) \/ NamesKin(x, l)
  BY <1>1
<1> QED BY <1>3, <1>4, <1>5, <1>6, LastingSteps

LEMMA TakePagesKept ==
    ASSUME HashesApart, PlacesRecorded, Typed, InFiles, LastingKept, NEW p \in Procs,
           proc[p].at = "place", TakePages(p)
    PROVE  /\ LastingKept'
           /\ root' = root
           /\ \A x \in Places : Filled(x) /\ cell[x].key \in Lasting => cell'[x] = cell[x]
<1> DEFINE f == FileAt(proc[p].key, proc[p].turn)
           n == PagesOf[proc[p].val]
<1>1. PICK page \in Runs(f, n) :
        /\ cell' = Written(p, f, page)
        /\ proc' = [proc EXCEPT ![p] = Placed(p, f, page)]
        /\ root' = root
  BY DEF TakePages
<1>2. /\ n \in Nat \ {0} /\ f \in Files /\ proc[p].key \in Keys
  BY PlacingIs, FileAtIs, Sizes
<1> HIDE DEF f
<1>3. /\ page \in Nat /\ page < NPages /\ <<f, page>> \in Places
      /\ PagesFrom(<<f, page>>, n) \cap used = {}
      /\ <<f, page>> \in PagesFrom(<<f, page>>, n)
  <2>1. page \in Pages /\ PagesFrom(<<f, page>>, n) \cap used = {}
    BY DEF Runs
  <2> QED BY <1>2, <2>1, PlaceParts, InPages, Sizes DEF Pages
<1>4. /\ \A x \in Places : cell'[x] # NoItem =>
           \/ x = <<f, page>> /\ cell'[x].val = proc[p].val /\ ~cell'[x].dead
           \/ /\ x \notin PagesFrom(<<f, page>>, PagesOf[proc[p].val])
              /\ Filled(x) /\ cell'[x] = cell[x]
      /\ \A x \in Places :
           x # <<f, page>> /\ x \notin PagesFrom(<<f, page>>, PagesOf[proc[p].val])
             => cell'[x] = cell[x]
      /\ cell' \in [Places -> Item \cup {NoItem}]
  BY <1>1, <1>2, <1>3, WrittenIs
<1>5. ASSUME NEW x \in Places, Filled(x), cell[x].key \in Lasting
      PROVE  cell'[x] = cell[x]
  <2>1. x \in used
    BY <1>5, LastingIsLive DEF LastingKept
  <2> QED BY <1>3, <1>4, <2>1
<1>6. DeadAreMortal'
  BY <1>4 DEF LastingKept, DeadAreMortal, Filled
<1>7. cell'[<<f, page>>] = [key |-> proc[p].key, val |-> proc[p].val, dead |-> FALSE]
  BY <1>1, <1>3 DEF Written
<1>8. cell'[<<f, page>>] # NoItem /\ cell'[<<f, page>>].key = proc[p].key
  <2>1. cell'[<<f, page>>] \in Item
    BY <1>2, <1>7, PlacingIs DEF Item
  <2>2. cell'[<<f, page>>] # NoItem
    BY <2>1, ItemIs
  <2>3. cell'[<<f, page>>].key = proc[p].key
    BY <1>7
  <2> QED BY <2>2, <2>3
<1>9. Recorded(page) - HeaderPages = page
  <2>1. page + HeaderPages \in 0 .. OffsetPages - 1
    BY <1>3, Sizes DEF PlacesRecorded
  <2>2. (page + HeaderPages) % OffsetPages = page + HeaderPages
    BY <1>3, <2>1, Sizes
  <2> QED BY <1>3, <2>2, Sizes DEF Recorded
<1>10. /\ Placed(p, f, page).at = "index" /\ Placed(p, f, page).key = proc[p].key
       /\ Placed(p, f, page).item[1] = HashOf[proc[p].key]
       /\ Place(Placed(p, f, page).item) = <<f, page>>
  BY <1>9 DEF Placed, Place
<1>11. \A q \in Procs : proc'[q] = proc[q] \/ ProcKept(q)'
  <2>1. proc'[p] = Placed(p, f, page) /\ \A q \in Procs : q # p => proc'[q] = proc[q]
    BY <1>1 DEF Typed
  <2>2. ASSUME NEW g, g = f
        PROVE  ProcKept(p)'
    <3>1. /\ proc'[p].at = "index" /\ proc'[p].key = proc[p].key
          /\ proc'[p].item[1] = HashOf[proc'[p].key]
          /\ Place(proc'[p].item) = <<g, page>>
      BY <1>10, <2>1, <2>2
    <3>2. <<g, page>> \in Places /\ Filled(<<g, page>>)' /\ cell'[<<g, page>>].key = proc[p].key
      BY <1>3, <1>8, <2>2 DEF Filled
    <3>3. Place(proc[p].item)' = <<g, page>>
      BY <3>1 DEF Place
    <3> QED BY <3>1, <3>2, <3>3 DEF ProcKept
  <2>3. ProcKept(p)'
    BY <2>2
  <2> QED BY <2>1, <2>3
<1>12. \A l \in Lasting : \A x \in Held(root', l) : x \in Held(root, l) \/ NamesKin(x, l)
  BY <1>1
<1>13. \A x \in Places : Filled(x) /\ cell[x].key \in Lasting =>
          Filled(x)' /\ cell'[x].key = cell[x].key
  BY <1>5 DEF Filled
<1>14. LastingKept'
  BY <1>6, <1>11, <1>12, <1>13, LastingSteps
<1> QED BY <1>1, <1>5, <1>14

LEMMA LapseKept ==
    ASSUME HashesApart, Typed, LastingKept, NEW x \in Places, Lapse(x)
    PROVE  /\ LastingKept'
           /\ root' = root
           /\ \A y \in Places : Filled(y) /\ cell[y].key \in Lasting => cell'[y] = cell[y]
<1>1. /\ cell[x] # NoItem /\ cell[x].key \in MortalKeys
      /\ cell' = [cell EXCEPT ![x].dead = TRUE] /\ root' = root /\ proc' = proc
  BY DEF Lapse
<1>2. \A y \in Places : y # x => cell'[y] = cell[y]
  BY <1>1 DEF Typed
<1>3. cell[x] \in Item /\ cell'[x] = [cell[x] EXCEPT !.dead = TRUE]
  BY <1>1, CellIs DEF Filled, Typed
<1>4. cell'[x].key = cell[x].key
  BY <1>3 DEF Item
<1>5. \A y \in Places : Filled(y) /\ cell[y].key \in Lasting => cell'[y] = cell[y]
  BY <1>1, <1>2 DEF Lasting
<1>6. DeadAreMortal'
  BY <1>1, <1>2, <1>4 DEF LastingKept, DeadAreMortal, Filled
<1>7. LastingKept'
  BY <1>1, <1>5, <1>6, LastingSteps DEF Filled
<1> QED BY <1>1, <1>5, <1>7

LEMMA AddIndexKept ==
    ASSUME HashesApart, Typed, Named, LastingKept, NEW p \in Procs, AddIndex(p)
    PROVE  LastingKept'
<1>1. /\ proc[p].at = "index" /\ proc' = [proc EXCEPT ![p] = Idle] /\ UNCHANGED cell
      /\ root' = IF proc[p].item[1] = 0 THEN root ELSE IndexAdd(root, proc[p].item)
  BY DEF AddIndex, files
<1>2. proc[p].item \in Entries /\ root \in Indexes /\ proc[p].key \in Keys
  BY <1>1, PlacingIs DEF Named, Typed
<1>3. ASSUME NEW k \in Lasting, NEW x \in Held(root', k)
      PROVE  x \in Held(root, k) \/ NamesKin(x, k)
  <2>1. k \in Keys
    BY DEF Lasting
  <2>2. x \in Held(root, k) \/ (x = proc[p].item /\ x[1] = HashOf[k])
    BY <1>1, <1>2, <1>3, <2>1, IndexSteps
  <2>3. ASSUME x = proc[p].item, x[1] = HashOf[k]
        PROVE  NamesKin(x, k)
    <3>1. x[1] = HashOf[proc[p].key]
      BY <1>1, <2>3 DEF LastingKept, ProcKept
    <3>2. proc[p].key \in Lasting
      BY <1>2, <2>3, <3>1, LastingHash
    <3> QED BY <1>1, <2>3, <3>1, <3>2 DEF LastingKept, ProcKept, NamesKin
  <2> QED BY <2>2, <2>3
<1>4. Idle.at \notin {"index", "expire"}
  BY DEF Idle
<1> QED BY <1>1, <1>3, <1>4, QuietKept

LEMMA AppendLeaves ==
    ASSUME Typed, Named, NEW p \in Procs, proc[p].at = "place", AppendItem(p)
    PROVE  /\ root' = root
           /\ \A k \in Keys : \A x \in Held(root, k) : ItemAt(x)' = ItemAt(x)
<1> DEFINE f == FileAt(proc[p].key, proc[p].turn)
           n == PagesOf[proc[p].val]
           l == length[f]
<1>1. root' = root /\ cell' = Written(p, f, l)
  BY DEF AppendItem
<1>2. f \in Files /\ n \in Nat \ {0} /\ l \in Nat
  BY PlacingIs, FileAtIs, Sizes DEF Typed
<1> HIDE DEF f, l
<1>3. \A x \in Places : x # <<f, l>> /\ x \notin PagesFrom(<<f, l>>, n) => cell'[x] = cell[x]
  BY <1>1, <1>2, WrittenIs
<1>4. \A x \in PagesFrom(<<f, l>>, n) : x[1] = f /\ x[2] >= l
  BY <1>2 DEF PagesFrom
<1>5. ASSUME NEW k \in Keys, NEW x \in Held(root, k), Place(x) \in Places
      PROVE  cell'[Place(x)] = cell[Place(x)]
  <2>1. x \in Entries /\ Names(x)
    BY <1>5, HeldIs DEF Named, Typed
  <2>2. x[2] \in Files /\ x[3] \in Nat /\ HeaderPages \in Nat /\ length[x[2]] \in Nat
    BY <2>1, EntryIs, Sizes DEF Typed
  <2>3. x[3] - HeaderPages < length[x[2]]
    BY <2>1, <2>2 DEF Names
  <2>4. Place(x)[1] = x[2] /\ Place(x)[2] = x[3] - HeaderPages
    BY DEF Place
  <2>5. x[2] = f => Place(x)[2] < l
    BY <2>3, <2>4 DEF l
  <2>6. x[3] - HeaderPages \in Int
    BY <2>2
  <2>7. Place(x) # <<f, l>> /\ Place(x) \notin PagesFrom(<<f, l>>, n)
    BY <1>2, <1>4, <2>4, <2>5, <2>6
  <2> QED BY <1>3, <1>5, <2>7
<1> QED BY <1>1, <1>5 DEF ItemAt, Place

-----------------------------------------------------------------------------
(* Each step is one of the abstract store, or none of the key's *)

KvMoves(k) == [Kv(k)!KvStep]_<<CopiesOf(k), Found(k)>>

LEMMA KvInserts ==
    ASSUME NEW k, NEW v \in Values,
           CopiesOf(k)' = CopiesOf(k) \cup {v}, Found(k)' \in CopiesOf(k)'
    PROVE  KvMoves(k)
  BY DEF KvMoves, Kv!KvStep, Kv!Insert

LEMMA KvOverwrites ==
    ASSUME NEW k, NEW v \in Values, v \in CopiesOf(k)', CopiesOf(k)' \subseteq CopiesOf(k) \cup {v},
           Found(k)' \in {v, Found(k)}
    PROVE  KvMoves(k)
  BY DEF KvMoves, Kv!KvStep, Kv!Overwrite

\* The entries of a lasting key's hash all name items.
LEMMA LastingHasItems ==
    LastingNamed => \A k \in Lasting : \A x \in Held(root, k) :
                       ItemAt(x) = cell[Place(x)] /\ ItemAt(x) # NoItem
  BY KinIsItem DEF LastingNamed

FoundRight ==
    \A k \in Lasting : /\ CopiesOf(k) = {} => Found(k) = NoValue
                       /\ CopiesOf(k) # {} => Found(k) \in CopiesOf(k)

LEMMA FoundOrNot == Typed /\ LastingNamed => FoundRight
<1>1. SUFFICES ASSUME Typed, LastingNamed, NEW k \in Lasting
               PROVE  /\ CopiesOf(k) = {} => Found(k) = NoValue
                      /\ CopiesOf(k) # {} => Found(k) \in CopiesOf(k)
  BY DEF FoundRight
<1>2. k \in Keys
  BY DEF Lasting
<1>3. \A x \in Held(root, k) : ItemAt(x) # NoItem
  BY <1>1, LastingHasItems
<1>4. CopiesOf(k) = {} <=> LiveEntries(k) = {}
  BY DEF CopiesOf
<1> QED BY <1>1, <1>2, <1>3, <1>4, FoundIs DEF Typed

\* The copies stay, but a scan may meet them otherwise.
LEMMA KvRearranges ==
    ASSUME Typed, Typed', LastingNamed, LastingNamed', NEW k \in Lasting, CopiesOf(k)' = CopiesOf(k)
    PROVE  KvMoves(k)
<1>1. FoundRight
  BY FoundOrNot
<1>2. Typed' /\ LastingNamed' => FoundRight'
  BY FoundOrNot, PTL
<1>3. \/ UNCHANGED <<CopiesOf(k), Found(k)>>
      \/ CopiesOf(k)' = CopiesOf(k) /\ Found(k)' \in CopiesOf(k)
  BY <1>1, <1>2 DEF FoundRight
<1> QED BY <1>3 DEF KvMoves, Kv!KvStep, Kv!Rearrange

\* A step that moves nothing of lasting keys.
LEMMA KvUnmoved ==
    ASSUME HashesApart, Typed, LastingKept, root' = root,
           \A x \in Places : Filled(x) /\ cell[x].key \in Lasting => cell'[x] = cell[x],
           NEW k \in Lasting
    PROVE  KvMoves(k)
<1>1. ASSUME NEW x \in Held(root, k)
      PROVE  ItemAt(x)' = ItemAt(x)
  <2>1. NamesKin(x, k)
    BY DEF LastingKept, LastingNamed
  <2>2. cell[Place(x)].key \in Lasting
    BY <2>1, KinLasts
  <2> QED BY <2>1, <2>2 DEF NamesKin, ItemAt, Place
<1>2. k \in Keys
  BY DEF Lasting
<1>3. CopiesOf(k)' = CopiesOf(k) /\ Found(k)' = Found(k)
  BY <1>1, <1>2, SameView
<1> QED BY <1>3 DEF KvMoves

LEMMA StoreMoves ==
    ASSUME HashesApart, Typed, LastingKept, NEW p \in Procs, NEW l \in Keys, NEW v \in Values,
           Store(p, l, v), NEW k \in Lasting
    PROVE  KvMoves(k)
<1> DEFINE over == {y \in ToSet(Visited(l)) : Matches(y, l) /\ Overwritable(y, v)}
           written == {Place(x) : x \in over}
<1>1. /\ cell' = [x \in Places |-> IF x \in written THEN [cell[x] EXCEPT !.val = v] ELSE cell[x]]
      /\ root' = root
  BY DEF Store
<1>2. \A y \in over : y \in Held(root, l) /\ Matches(y, l) /\ Place(y) \in written
  BY VisitedIs DEF Typed
<1>3. \A x \in written : x \in Places /\ Filled(x) /\ cell[x].key = l
  BY EntryMeets
<1>4. k \in Keys
  BY DEF Lasting
<1>5. over = {} => written = {}
  OBVIOUS
<1>6. written # {} => over # {}
  OBVIOUS
<1> HIDE DEF written, over
<1>7. ASSUME NEW x \in Held(root, k)
      PROVE  /\ ItemAt(x) \in Item /\ ItemAt(x)' \in Item
             /\ ItemAt(x)'.key = ItemAt(x).key /\ ItemAt(x)'.dead = ItemAt(x).dead
             /\ Place(x) \in written => ItemAt(x)'.val = v /\ ItemAt(x).key = l
             /\ Place(x) \notin written => ItemAt(x)' = ItemAt(x)
  <2>1. Place(x) \in Places /\ Filled(Place(x)) /\ ItemAt(x) = cell[Place(x)]
    BY KinIsItem DEF LastingKept, LastingNamed, NamesKin
  <2>2. ItemAt(x) \in Item
    BY <2>1, CellIs
  <2>3. ItemAt(x)' = cell'[Place(x)]
    BY <2>1 DEF ItemAt, Place
  <2>4. CASE Place(x) \in written
    <3>1. ItemAt(x)' = [ItemAt(x) EXCEPT !.val = v]
      BY <1>1, <2>1, <2>3, <2>4
    <3>2. /\ ItemAt(x)' \in Item /\ ItemAt(x)'.val = v
          /\ ItemAt(x)'.key = ItemAt(x).key /\ ItemAt(x)'.dead = ItemAt(x).dead
      BY <2>2, <3>1 DEF Item
    <3> QED BY <1>3, <2>1, <2>2, <2>4, <3>2
  <2>5. CASE Place(x) \notin written
    BY <1>1, <2>1, <2>2, <2>3, <2>5
  <2> QED BY <2>4, <2>5
<1>8. ASSUME NEW x \in Held(root, k)
      PROVE  (StopsAt(x, k)' <=> StopsAt(x, k)) /\ (Matches(x, k)' <=> Matches(x, k))
  <2>1. Matches(x, k) <=> ItemAt(x).key = k /\ ItemAt(x).dead = FALSE
    BY <1>7 DEF Matches, Item
  <2>2. Matches(x, k)' <=> ItemAt(x)'.key = k /\ ItemAt(x)'.dead = FALSE
    BY <1>7 DEF Matches, Item
  <2>3. ItemAt(x) # NoItem /\ ItemAt(x)' # NoItem
    BY <1>7, ItemIs
  <2> QED BY <1>7, <2>1, <2>2, <2>3 DEF StopsAt
<1>9. /\ LiveEntries(k)' = LiveEntries(k)
      /\ \/ Found(k) = NoValue /\ Found(k)' = NoValue
         \/ \E x \in LiveEntries(k) : Found(k) = ItemAt(x).val /\ Found(k)' = ItemAt(x)'.val
  BY <1>1, <1>4, <1>8, SameStops
<1>10. \A x \in LiveEntries(k) : x \in Held(root, k) /\ ItemAt(x).key = k
  BY DEF LiveEntries, Matches
<1>11. \A x \in LiveEntries(k) : ItemAt(x)'.val \in {v, ItemAt(x).val}
  BY <1>7, <1>10
<1>12. CASE k # l
  <2>1. \A x \in LiveEntries(k) : ItemAt(x)' = ItemAt(x)
    BY <1>7, <1>10, <1>12
  <2>2. CopiesOf(k)' = CopiesOf(k) /\ Found(k)' = Found(k)
    BY <1>9, <2>1 DEF CopiesOf
  <2> QED BY <2>2 DEF KvMoves
<1>13. CASE k = l /\ written = {}
  BY <1>1, <1>13, KvUnmoved
<1>14. CASE k = l /\ written # {}
  <2>1. PICK y \in over : TRUE
    BY <1>6, <1>14
  <2>2. y \in LiveEntries(k) /\ ItemAt(y)'.val = v
    BY <1>2, <1>7, <1>14, <2>1 DEF LiveEntries
  <2>3. v \in CopiesOf(k)'
    BY <1>9, <2>2 DEF CopiesOf
  <2>4. CopiesOf(k)' \subseteq CopiesOf(k) \cup {v}
    BY <1>9, <1>11 DEF CopiesOf
  <2>5. Found(k)' \in {v, Found(k)}
    BY <1>9, <1>11
  <2> QED BY <2>3, <2>4, <2>5, KvOverwrites
<1> QED BY <1>12, <1>13, <1>14

LEMMA AddIndexMoves ==
    ASSUME HashesApart, Typed, Typed', Named, LastingKept, LastingKept', NEW p \in Procs,
           AddIndex(p), NEW k \in Lasting
    PROVE  KvMoves(k)
<1> DEFINE new == proc[p].item
           l == proc[p].key
<1>1. /\ proc[p].at = "index" /\ UNCHANGED cell
      /\ root' = IF new[1] = 0 THEN root ELSE IndexAdd(root, new)
  BY DEF AddIndex, files
<1>2. /\ new \in Entries /\ root \in Indexes /\ l \in Keys /\ k \in Keys
      /\ new[1] = HashOf[l]
  BY <1>1, PlacingIs DEF Named, Typed, Lasting, LastingKept, ProcKept
<1>3. /\ l \in Lasting => /\ Place(new) \in Places /\ Filled(Place(new))
                          /\ cell[Place(new)].key = l
  BY <1>1 DEF LastingKept, ProcKept
<1> HIDE DEF new, l
<1>4. CASE new[1] = 0
  BY <1>1, <1>4, KvUnmoved
<1>5. CASE new[1] # 0
  <2>1. Held(root', k) = Held(root, k) \cup (IF new[1] = HashOf[k] THEN {new} ELSE {})
    BY <1>1, <1>2, <1>5, IndexSteps
  <2>2. \A x : ItemAt(x)' = ItemAt(x) /\ (Matches(x, k)' <=> Matches(x, k))
    BY <1>1 DEF Matches, ItemAt, Place
  <2>3. LiveEntries(k)' = {x \in Held(root', k) : Matches(x, k)}
    BY <2>2 DEF LiveEntries, Held
  <2>4. CASE new[1] = HashOf[k] /\ l = k
    <3>1. Place(new) \in Places /\ Filled(Place(new)) /\ cell[Place(new)].key = k
      BY <1>3, <2>4
    <3>2. cell[Place(new)] \in Item /\ ~cell[Place(new)].dead
      BY <3>1, CellIs DEF LastingKept, DeadAreMortal, Lasting
    <3>3. ItemAt(new) = cell[Place(new)]
      BY <3>1 DEF ItemAt
    <3>4. Matches(new, k) /\ ItemAt(new).val \in Values
      BY <3>1, <3>2, <3>3 DEF Matches, Item
    <3>5. LiveEntries(k)' = LiveEntries(k) \cup {new}
      BY <2>1, <2>3, <2>4, <3>4 DEF LiveEntries
    <3>6. CopiesOf(k)' = CopiesOf(k) \cup {ItemAt(new).val}
      BY <2>2, <3>5 DEF CopiesOf
    <3>7. Typed' /\ LastingNamed' => FoundRight'
      BY FoundOrNot, PTL
    <3>8. Found(k)' \in CopiesOf(k)'
      BY <3>6, <3>7 DEF FoundRight, LastingKept
    <3> QED BY <3>4, <3>6, <3>8, KvInserts
  <2>5. CASE new[1] # HashOf[k] \/ l # k
    <3>1. new[1] = HashOf[k] => ~Matches(new, k)
      <4>1. SUFFICES ASSUME new[1] = HashOf[k], Matches(new, k)
                     PROVE  FALSE
        OBVIOUS
      <4>2. l \in Lasting
        BY <1>2, <4>1, LastingHash
      <4>3. cell[Place(new)].key = k
        BY <1>2, <4>1, EntryMeets
      <4> QED BY <1>3, <2>5, <4>1, <4>2, <4>3
    <3>2. LiveEntries(k)' = LiveEntries(k)
      BY <2>1, <2>3, <3>1 DEF LiveEntries
    <3>3. CopiesOf(k)' = CopiesOf(k)
      BY <2>2, <3>2 DEF CopiesOf
    <3> QED BY <3>3, KvRearranges DEF LastingKept
  <2> QED BY <2>4, <2>5
<1> QED BY <1>4, <1>5

LEMMA RemoveExpiredMoves ==
    ASSUME Typed, Typed', LastingKept, LastingKept', UNCHANGED cell,
           NEW k \in Lasting, Held(root', k) = Held(root, k)
    PROVE  KvMoves(k)
<1>1. CopiesOf(k)' = CopiesOf(k)
  BY DEF CopiesOf, LiveEntries, Held, Matches, ItemAt, Place
<1> QED BY <1>1, KvRearranges DEF LastingKept

LEMMA PassFileKept ==
    ASSUME HashesApart, Typed, LastingKept, NEW p \in Procs, proc[p].at = "place", PassFile(p)
    PROVE  LastingKept' /\ UNCHANGED <<root, cell>>
<1>1. /\ proc' = IF proc[p].turn = 2 * NFiles - 1 THEN [proc EXCEPT ![p] = Idle]
                 ELSE [proc EXCEPT ![p].turn = @ + 1]
      /\ UNCHANGED <<root, cell>>
  BY DEF PassFile
<1>2. \A k \in Lasting : \A x \in Held(root', k) : x \in Held(root, k) \/ NamesKin(x, k)
  BY <1>1
<1>3. CASE proc[p].turn = 2 * NFiles - 1
  <2>1. proc' = [proc EXCEPT ![p] = Idle] /\ Idle.at \notin {"index", "expire"}
    BY <1>1, <1>3 DEF Idle
  <2> QED BY <1>1, <1>2, <2>1, QuietKept
<1>4. CASE proc[p].turn # 2 * NFiles - 1
  <2> DEFINE r == [proc[p] EXCEPT !.turn = @ + 1]
  <2>1. proc[p] \in [at : {"place"}, key : Keys, val : Values, turn : 0 .. 2 * NFiles - 1]
    BY DEF Typed, ProcState, Idle
  <2>2. r.at \notin {"index", "expire"}
    BY <2>1
  <2>3. proc' = [proc EXCEPT ![p] = r]
    BY <1>1, <1>4
  <2> HIDE DEF r
  <2> QED BY <1>1, <1>2, <2>2, <2>3, QuietKept
<1> QED BY <1>1, <1>3, <1>4

LEMMA KillKept ==
    ASSUME HashesApart, Typed, LastingKept, NEW p \in Procs, Kill(p)
    PROVE  LastingKept' /\ UNCHANGED <<root, cell>>
<1>1. /\ proc' = [proc EXCEPT ![p] = Idle] /\ Idle.at \notin {"index", "expire"}
      /\ UNCHANGED <<root, cell>>
  BY DEF Kill, files, Idle
<1>2. \A k \in Lasting : \A x \in Held(root', k) : x \in Held(root, k) \/ NamesKin(x, k)
  BY <1>1
<1> QED BY <1>1, <1>2, QuietKept

LEMMA InitKept ==
    ASSUME Init
    PROVE  LastingKept /\ \A k \in Lasting : Kv(k)!KvInit
<1>1. \A k \in Keys : Held(root, k) = {}
  BY IndexAssumption DEF Init
<1>2. LastingNamed
  BY <1>1 DEF LastingNamed, Lasting
<1>3. LastingKept
  BY <1>2 DEF LastingKept, DeadAreMortal, Filled, ProcKept, Init, Idle
<1>4. FoundRight
  BY <1>2, InitSound, FoundOrNot DEF IInv
<1>5. \A k \in Lasting : CopiesOf(k) = {}
  BY <1>1 DEF CopiesOf, LiveEntries, Lasting
<1> QED BY <1>3, <1>4, <1>5 DEF FoundRight, Kv!KvInit

LEMMA StepImplements ==
    ASSUME HashesApart, PlacesRecorded, Typed, Typed', Sound, LastingKept, Next
    PROVE  /\ LastingKept' \/ overrun'
           /\ UNCHANGED <<root, cell>> \/ \A k \in Lasting : KvMoves(k)
<1>1. ASSUME NEW p \in Procs, NEW k \in Keys, Search(p, k)
      PROVE  LastingKept' /\ UNCHANGED <<root, cell>>
  BY <1>1, SearchKept DEF Search
<1>2. ASSUME NEW p \in Procs, NEW s \in Stores, Store(p, s[1], s[2])
      PROVE  LastingKept' /\ \A k \in Lasting : KvMoves(k)
  <2>1. s[1] \in Keys /\ s[2] \in Values
    BY StoreAssumption
  <2> QED BY <1>2, <2>1, StoreKept, StoreMoves
<1>3. ASSUME NEW p \in Procs, RemoveExpired(p)
      PROVE  LastingKept' /\ \A k \in Lasting : KvMoves(k)
  <2>1. LastingKept' /\ UNCHANGED cell /\ \A k \in Lasting : Held(root', k) = Held(root, k)
    BY <1>3, RemoveExpiredKept
  <2> QED BY <2>1, RemoveExpiredMoves
<1>4. ASSUME NEW p \in Procs, proc[p].at = "place", TakePages(p)
      PROVE  LastingKept' /\ \A k \in Lasting : KvMoves(k)
  <2>1. /\ LastingKept' /\ root' = root
        /\ \A x \in Places : Filled(x) /\ cell[x].key \in Lasting => cell'[x] = cell[x]
    BY <1>4, TakePagesKept DEF Sound
  <2> QED BY <2>1, KvUnmoved
<1>5. ASSUME NEW p \in Procs, proc[p].at = "place", AppendItem(p)
      PROVE  overrun' /\ \A k \in Lasting : KvMoves(k)
  <2>1. /\ root' = root
        /\ \A k \in Keys : \A x \in Held(root, k) : ItemAt(x)' = ItemAt(x)
    BY <1>5, AppendLeaves DEF Sound
  <2>2. \A k \in Lasting : CopiesOf(k)' = CopiesOf(k) /\ Found(k)' = Found(k)
    BY <2>1, SameView DEF Lasting
  <2>3. \A k \in Lasting : KvMoves(k)
    BY <2>2 DEF KvMoves
  <2> QED BY <1>5, <2>3, AppendItemKeeps
<1>6. ASSUME NEW p \in Procs, proc[p].at = "place", PassFile(p)
      PROVE  LastingKept' /\ UNCHANGED <<root, cell>>
  BY <1>6, PassFileKept
<1>7. ASSUME NEW p \in Procs, AddIndex(p)
      PROVE  LastingKept' /\ \A k \in Lasting : KvMoves(k)
  <2>1. LastingKept'
    BY <1>7, AddIndexKept DEF Sound
  <2> QED BY <1>7, <2>1, AddIndexMoves DEF Sound
<1>8. ASSUME NEW p \in Procs, Kill(p)
      PROVE  LastingKept' /\ UNCHANGED <<root, cell>>
  BY <1>8, KillKept
<1>9. ASSUME NEW x \in Places, Lapse(x)
      PROVE  LastingKept' /\ \A k \in Lasting : KvMoves(k)
  <2>1. /\ LastingKept' /\ root' = root
        /\ \A y \in Places : Filled(y) /\ cell[y].key \in Lasting => cell'[y] = cell[y]
    BY <1>9, LapseKept
  <2> QED BY <2>1, KvUnmoved
<1> QED BY <1>1, <1>2, <1>3, <1>4, <1>5, <1>6, <1>7, <1>8, <1>9 DEF Next, Allocate

(* The database, seen from a key whose entries do not expire, does what the *)
(* abstract store does: a value found was stored, and once one can be found *)
(* one always can, whatever the other processes do between the sections of  *)
(* a store (smmr_database.c:217-303), if no key that expires has its hash   *)
(* and the index records every offset in full (smmr.h:441).                 *)
THEOREM StoreImplementsKv ==
    ASSUME HashesApart, PlacesRecorded
    PROVE  Spec => ImplementsKv
<1> DEFINE KInv == ~overrun => LastingKept
           Moves == UNCHANGED <<root, cell>> \/ \A k \in Lasting : KvMoves(k)
<1>1. Init => KInv /\ \A k \in Lasting : Kv(k)!KvInit
  BY InitKept
<1>2. IInv /\ IInv' /\ KInv /\ [Next]_vars => KInv' /\ [Moves]_vars
  <2> SUFFICES ASSUME IInv, IInv', KInv, [Next]_vars
               PROVE  KInv' /\ [Moves]_vars
    OBVIOUS
  <2>1. CASE UNCHANGED vars
    <3>1. ASSUME LastingKept
          PROVE  LastingKept'
      <4>1. DeadAreMortal' /\ LastingNamed'
        BY <2>1, <3>1 DEF LastingKept, DeadAreMortal, LastingNamed, NamesKin, Held, Place, Filled, vars
      <4>2. \A p \in Procs : ProcKept(p)'
        BY <2>1, <3>1 DEF LastingKept, ProcKept, Place, Filled, vars
      <4> QED BY <4>1, <4>2 DEF LastingKept
    <3> QED BY <2>1, <3>1 DEF vars
  <2>2. CASE Next
    <3>1. Typed /\ Typed' /\ Sound /\ LastingKept
      BY <2>2 DEF IInv, Next
    <3> QED BY <2>2, <3>1, StepImplements
  <2> QED BY <2>1, <2>2
<1>3. [Moves]_vars <=>
        [\/ UNCHANGED <<root, cell>>
         \/ \A k \in Lasting : [Kv(k)!KvStep]_<<CopiesOf(k), Found(k)>>]_vars
  BY DEF KvMoves
<1> HIDE DEF KInv, Moves
<1> QED BY <1>1, <1>2, <1>3, Invariant, PTL DEF Spec, ImplementsKv
=============================================================================
