# network-bfd-sample in TLA+

A verification project for the three BFD daemons of this repository and the
shared-memory database under the first of them: TLA+ modules translated from the
source, configurations for TLC, and theorems checked by TLAPS. Paths below are
relative to `src/`; `PROJECT.json` has the exact lines of every definition.

## 1. The system

| Part | State | Operations | Interacts with |
|---|---|---|---|
| **C daemon** `bfdd/bfdd.c`, `bfdd_event.c`, `bfdd_session.c` | one discriminator counter; sessions, a summary record with a counter per hash group, and a key list per group, all in the database | receive a packet; a transmission pass over all sessions when no packet came for 100 ms; start and end | UDP; `smmr` for every lookup and store |
| **C++ daemon** `bfdd_cpp/*` | a `std::map` of sessions, a discriminator counter, a connection with one write buffer per session | receive (io thread, two critical sections), timer pass (second thread), queued asynchronous sends | UDP by boost::asio; one mutex between its threads |
| **netmap daemon** `bfdd_netmap/*` | none but the rings' cursors and slots | turn BFD frames into their answers, exchange buffers between receive and transmit rings | the network card, by shared rings |
| **smmr database** `deps/smmr/smmr_database.c` | data files with bitmap, `remain_length`, `used_length`; mutex per file | `store`, `search`, expiry | several processes at once; the index; the files |
| **smmr index** `smmr_tree.c` | one B-tree per category, in shared memory | insert, remove, search by item, search by hash with callbacks | the allocator; the database's callbacks |
| **smmr allocator** `smmr_memory.c` | per page a list of items in use, one of items given back, and the bucket new items are cut from; per category bitmaps of the pages | allocate, free, attach, rebuild | the index, for its nodes and its root |
| **smmr categories** `smmr_categories.c`, `smmr.inl` | the mapped files; a mutex per category and one for all | make, attach, detach, remove, lock | all of the above, in several processes |
| **paged buffer, sockets** `smmr_pagedbuffer.c`, `bfdd_socket.c` | none that matters here | growing array; a chain of `setsockopt` | |

What is hard in it:

* A handler of the C daemon makes up to four stores. Each may fail on its own,
  and the database answers a lookup with *some* earlier value of a key, not
  always the last: `smmr_database.c:437` makes every store insert one more copy.
* The BFD hand-shake itself: losses, duplicates, crossings, restarts of either
  end, and no detection timer in the daemons.
* Two threads in the C++ daemon: a handler that releases the mutex half way, a
  clock that is read before the mutex is taken, and queued sends that point into
  a buffer that later writes change.
* Receive and transmit rings that run full and empty independently.
* Processes that interleave between the critical sections of a store, or die
  there; files that fill up; entries that expire while others allocate.
* Pages of memory that several processes rebuild, fill and empty under two mutexes
  that do not exclude each other, or under none, with mutexes that stay locked when
  their owner is killed.

What makes each part correct: for the C daemon, sessions that are never lost,
keep a discriminator of their own, match what the neighbour said and are reached
by every pass; with a neighbour, that both ends get Up and stay so; for the C++
daemon the same of its sessions, plus that the last word for a neighbour leaves
whole and Polls are answered; for the netmap daemon, that buffers are permuted
and every BFD frame is answered; for the database, that entries do not overlap,
room is found, and a lasting key always answers with a stored value; for the
index, that it is a balanced search tree equal to the set of its items and that
its searches miss nothing; for the allocator and the categories, that items never
overlap, everybody shares one root, a rebuild by the server alone loses nothing that is
in use, and a mutex whose owner lives is had by whoever waits for it. `PROJECT.json` lists the hazards, line by line.

## 2. The modules

```
BfdDefs ──┬── BfdFsm (abstract: one BFD session; implemented by Bfdd and BfddCpp)
          ├── Bfdd ── BfddPeer ── BfddProofs
          ├── BfddCpp ── BfddCppProofs
          └── BfddNetmap ── BfddNetmapProofs

SmmrBtree ──┬── SmmrTree ──┬── implements SmmrIndex (abstract set)
            │              └── SmmrTreeProofs (uses Recursion)
            └── MCSmmrStore, as the index of SmmrStore

SmmrStore ── implements SmmrKv (abstract: one key)
    │
SmmrStoreProofs

SmmrMemory (one page) ── SmmrCategory (processes) ── implements SmmrHeap (blocks)
                              │
                      SmmrCategoryProofs ── SmmrRootProofs
```

* **BfdDefs**: states, the packet, the checks a packet passes. A packet is the
  fields some handler branches on or stores. `wellFormed` stands for the length,
  version, Multipoint, Auth and Detect Mult checks, which only drop packets.
* **BfdFsm**: what one session promises: it moves only on the neighbour's word,
  one hand-shake stage at a time. It leaves open whether Init falls back to Down
  when the neighbour is Down: the C daemon does, the C++ daemon does not.
* **Bfdd**: the C daemon. `RecvBfdEvent` is `recv_bfd_event` (`Discard`, `Adopt`,
  `Admit` and `Known` are its paths), `SendBfdEvent` is `send_bfd_event` with
  `iterate_all_session`, `Restart` the end of the process for any reason.
  `InsertSession` is `insert_session` with all its stores, each of which may end
  the chain. `db` is the database: the visible value of each entry and the values
  of its other copies; `Commit` is what one store may do to it. `out` and `event`
  record what the last step sent and did.
* **BfddPeer**: `Bfdd` with one neighbour and a network. The neighbour is not
  part of the repository: it follows RFC 5880, 6.8.6.
* **BfddCpp**: the C++ daemon. `Receive` and `Process` are the two critical
  sections of `on_bfd_recieved`; `Wake`, `Lock` and `TimerTransmit` are
  `on_bfd_thread`; `Write` and `Flush` are `Conn::write` and the sends asio
  finishes later. A queued send that runs while the buffer is rewritten sends any
  mixture of the old and the new fields (`Torn`), the outcomes of that data race.
* **BfddNetmap**: `Turn` is a turn of the loop of `move`, `ProcessRings` is
  `process_rings` with `recv_packet` and `swap_index`. The card is external:
  rings move on its side only while the daemon is in a system call.
* **SmmrBtree**: the algorithms of `smmr_tree.c` as operators on a tree of
  records: `AddTree`, `RemoveTree`, `Finds`, `Hits` (the search by hash, with the
  places where the callback stops). What the code does by recursion into a child is
  a function of the node's height: `InsertItem[h]` handles nodes with `h` levels, and
  `InsertInto(below, n, x)` is the body of the C function with `below` for the calls.
  The code keeps no height. It ends at an empty child, which is the one node of
  height 0, so the functions make the calls the code makes as long as all leaves are
  equally far down, and that they are is part of `TreeSound`.
* **SmmrIndex**, **SmmrTree**: a set of items, and the tree that implements it.
* **SmmrKv**: what the database promises of one lasting key. It is what
  `Bfdd!Commit` takes for granted: a lookup answers with a value that was stored,
  and with something as soon as anything was.
* **SmmrStore**: processes that store, search and expire, one action per critical
  section. `Store` goes through the entries of the hash and overwrites, `Allocate`
  is one file's turn in `insert_to_datafile_at_freepage` or `insert_to_datafile`,
  `AddIndex` is `add_tree_safe`; `Search` frees the pages of expired entries and
  `RemoveExpired` removes one of them from the index. `Kill` ends a process
  between two sections. The index is a parameter, a set of entries with the four
  operations of `smmr_tree.c` the database uses; `IndexAssumption` says what they do.
  `MCSmmrStore` puts the B-tree in, so that TLC evaluates the assumption for every
  tree the runs' entries lead to and the runs search real trees.
* **SmmrMemory**: the allocator's operations on one page, as operators on a record of
  the two lists, the bucket and the page's bits. A call has two halves: an item leaves
  its place (`Taken` in `_operate_recycle`, `Cut` in `_operate_insert`, `Dropped` in
  `shmfree`) and is then linked to a list (`Handed`, `Returned`); in between it is in
  `moving`, which stands for "in no list". `Offers` with `Foremost` is the order in
  which `shmalloc` tries classes and pages; `Cleared`, `Marked` and `Shrunk` are the
  three things `_rebuild_bitmap_and_pagesummary` does.
* **SmmrCategory**: the processes. `ServerStart`, `ClientJoin`, `ClientLeave` and
  `ServerStop` are the functions of `smmr_categories.c`; `RebuildBegin` and
  `PrintBegin` start `rebuild_pages_area` and `rebuild_page_statics`, whose turn for
  a page is `RebuildClear`, `RebuildMark` and `RebuildReset`; `TreeBegin` and
  `MakeTree` are `create_tree_unsafe`, with `RootMade` when it allocates the root;
  `CategoryBegin` to `CategoryEnd` are an operation on the tree, `Allocate` and `Free`
  the first halves of its calls of the allocator, and `Link` the second; `Kill` takes a
  process at any step, within a call too, with the mutexes it holds.
* **SmmrHeap**: what an allocator promises: a set of disjoint blocks, each in use
  until it is given back.
* **BfddProofs** (about `Bfdd` and `BfddPeer`), **BfddCppProofs**,
  **BfddNetmapProofs**, **SmmrStoreProofs**, **SmmrTreeProofs**: the theorems about the
  modules of these names; **SmmrCategoryProofs**, **SmmrRootProofs**: those about
  `SmmrMemory` and `SmmrCategory`.
* **Recursion**: induction over the numbers, and functions defined by recursion over
  them, stated for operators that are constants of the module. An instance of it with
  a model's operators gives the facts for these (`X!Induction`, `X!Defined`). These are
  lemmas of mathematics that the other proofs need and say nothing of the program.

Operators whose comment begins with "Slip:" are slips one could make in the code
beside them. They are used by no specification; each one makes a property fail.

### Abstractions

* C daemon: `diag`, the intervals, `must_terminate` and `detect_time` are stored
  and read by nothing that decides anything; `keys_bits` says no more than "the
  counter is not zero"; byte order is a bijection; the sends of a pass are a set
  since nobody reacts within it. No handler gives a session the state AdminDown. The
  send of a Poll's answer may fail, which the handler ignores (`bfdd_event.c:111-114`;
  the event is "mute"); in BfddPeer that is a fault like a loss.
* C++ daemon: intervals are reduced to "not zero" (`paced`), deadlines to "passed
  or not" (`expired`), which may happen at any time. `unsubscribe` and `abort` are
  called by nothing and have no action.
* Database: lengths are in pages; one category, since categories share only the
  files; key lengths and `memcmp` are equality of keys; the clock is `Lapse`, any
  moment after a store; an overwrite keeps the item's pages. The mutexes hold for
  the length of one action. What follows a write past the end of a file is not
  modelled: the model stops there (`overrun`).
* The scan of a search is one action. The code holds the category's mutex from the first
  callback to the last, so the index cannot change within it, and takes a file's mutex in
  each callback (`smmr_database.c:135-198`). What another process can do between two
  callbacks is to take pages of a file for an entry it has yet to add. An entry that
  expired and was given back by one callback is thus available to it a little earlier
  than in the model, where it is so once the scan ends. The process that searches takes
  no pages in the scan, and the other one adds its entry to the index after the scan in
  either case; no property depends on which callback the allocation falls before.
* Allocator: offsets are counted from behind a page's root items, and the linked
  lists are sequences. A call of the allocator is two steps and a rebuild three per
  page, since a client rebuilds under `category_all_mutex` and calls the allocator under
  `category_mutex`: a page may be walked or reset while an item is out of its lists.
  Within each half the writes to one list are one step; a walk that comes in between, or
  that finds what a kill left there, meets the item, or does not, or finds the page faulty
  (`Disturbed`, any page while another process moves items, and for good a page with an
  item on its way). Once a page is reset under an item in use or on its way
  (`Moved`), memory is not modelled any further (`lost`). An item whose process was killed
  before it was linked belongs to nobody, and a reset of its page takes it as well. That
  two rebuilds at once lose one another's bits of a shared byte is not modelled, nor that
  a walk over moving lists sums up wrong lengths; both change bitmaps only, which
  `shmalloc` takes for hints.
* The data offset has 24 bits in the index while a data file has 128 MB.
  `Recorded` does that arithmetic; the runs keep files below the limit.

## 3. The runs

| Run | Asks | Instance |
|---|---|---|
| BfddTable | Is the directory sound, and each session a BFD session, when any of a handler's stores may fail? While none fails, does a pass reach every neighbour and say what is stored? | 2 neighbours, 1 group of 3 slots, discriminator limit 2 |
| BfddWeakdb | Do sessions stay distinct, attached and truthful when lookups may return older copies? | 2 neighbours, 1 group, every store may bring one entry back |
| BfddPeer | Do both ends get Up, each with the other's discriminator, and stay so, does a Poll sequence end, is the hand-shake three-way? | 1 neighbour that may change its discriminator, 3 faults |
| BfddCpp | Do two threads and shared buffers keep sessions, discriminators and words apart? Does a pass that judges by an old clock leave anybody out? Are Polls answered? | 2 neighbours, discriminator limit 1, 1 queued send told apart |
| NetmapRings | Are buffers permuted, frames kept, all BFD frames answered, and is the stateless hand-shake enough? | 2 + 2 rings of 3 slots, 4 frames |
| SmmrTree | Is the tree balanced, sorted, a set, and are searches complete? | 9 items, 6 of one hash, nodes of 2 keys |
| SmmrStore | Do entries stay apart, is room found, are lasting keys kept? | 2 processes, 1 file of 3 usable pages, a lasting and an expiring key |
| SmmrShared | Do items stay apart though rebuilds and kills fall into the middle of calls, is the root shared, does a rebuild find all room, does who waits get in? | a server and a client, 2 pages with room for two items, 1 kill |
| BfddFull, BfddCut, NetmapStale, SmmrLost | each contradicts a comment, the README or a test of the repository | see section 6 |

Bounds, and why they are enough:

* `GroupMax = 3` for two neighbours lets a key be listed twice if it could be, and
  one more slot stay free; BfddWeakdb has groups of 2, which fill up. Groups only
  meet in the summary record, so one or two of them show everything.
* `DiscrLimit = 2` lets two sessions of the C daemon be attached before the counter
  wraps, the third wraps it; `PeerDiscrs` includes a value that equals a local
  discriminator in BfddTable. In BfddCpp the limit is 1: the second session restarts the
  counter and still has a discriminator of its own, as `DiscrUnique` says. That is
  because the property counts what was handed out (`handed`, up to
  `MaxHanded = DiscrLimit + 2`) and excuses no more than a number handed out a second
  time.
* `MaxMoved = 1`: one store changes the visible copy of at most one entry.
  `MaxHidden = 2` (a CONSTRAINT): at most two further values of an entry are kept.
  Both are bounds of the runs only; the theorems have neither.
* `MaxFaults = 3` in BfddPeer: a fault is a loss, a duplicate, a packet sent while
  another is in flight, a restart, a detection timeout, a Poll sequence begun, an
  answer whose send failed or the session being disabled. Liveness is about what comes
  after the last fault.
* `MaxPending = 1`: a queue of sends counts as one; all of them send the same
  buffer, so what a longer queue sends is a repetition. `MCSays` lets the
  first neighbour send any state, a discriminator of ours once it is in Init or Up, and
  Polls and Finals when it is Up; the second only begins a session. Two neighbours meet
  only in the counter and in the mutex, and the theorems take any packets.
* Nodes of 2 keys (the code has 4) need three levels for nine items, so removal
  borrows, combines and shrinks the root at every level. SmmrStore and SmmrLost use
  the code's 4, which their six and seven entries outgrow.
* `MaxRemain = 258` keeps the expiries of a behaviour finite: the unit error at
  `smmr_database.c:842` makes `remain_length` grow by 128 pages with each. Two are
  within the bound, so one entry's pages may be freed twice, and the overrun that the
  error leads to is reached. After one the file's counters are no guide any more (an
  overrun into a larger file can leave `remain` at one page while several are free), so
  `RoomIsSeen` speaks of the time before.
* SmmrShared has pages of 7 bytes, items of 3 and 5 with header and footer, and
  bitmap limits 1 to 4: a page holds one item of each size, or two small ones, an
  item given back may be too small or too large, and both pages fill up. That makes
  672,635 states, rebuilds between the halves of calls and kills there included. One client
  comes and goes as often as it likes, so it meets the server, and what an earlier
  life of its own left behind; a third process is what the theorems add.
* In SmmrStore the key that expires has another hash than the lasting one and is
  one page long. These are assumptions of what the run shows. With equal hashes a
  stale index entry can be taken for the new entry at the same place and be
  removed with it; an item of several pages that is freed twice can lose pages
  that another item has taken in between. The hazards say so; no run claims the
  contrary.

`VIEW` drops the variables no later step reads (`out`, `event`, `last`). Invariants
of those runs do not mention them; action properties that mention `out'` or
`event'` speak of the step alone, which TLC evaluates on every step it generates.
`SmmrLost` needs `last` and has no view. Neighbours and processes are symmetric
where the constants make no difference between them, and no liveness property is
checked under symmetry. `CHECK_DEADLOCK FALSE` stands where the model stops:
after the last frame (netmap), after an overrun (database), or when the server is
gone or a killed process holds a mutex (categories).

### Fairness

* **BfddPeer**: packets in flight arrive, if not lost; the neighbour's one-second
  timer keeps firing, also into a quiet network; the operator enables the session
  again. For the daemon, `SF(Quiet /\ DaemonSend)` is the loop of `bfdd.c:70-98`:
  it transmits in a turn without a packet for 100 ms, which one neighbour with a
  one-second timer leaves it. A neighbour that sends more often than every 100 ms
  starves all transmission; that is a hazard of the code outside this assumption.
* **BfddCpp**: asio gets back to a writable socket, a pass of the timer ends, and a
  handler waiting for the mutex gets it because the timer sleeps between passes
  (`bfdd_cpp_session_manager.hpp:191-212`). Nothing is assumed of the clock or of when the
  timer wakes up: the answer to a Poll does not wait for a pass.
* **BfddNetmap**: the loop polls again and turns go on; the card sends released
  slots although it does so only while the daemon is in a system call.
* **SmmrCategory**: `Goes` is weakly fair, since a call of the allocator and a rebuild
  are finite loops without waiting; `Turns` is strongly fair, since an operation on the
  tree makes finitely many calls, and since the mutexes inherit priorities
  (`smmr_categories.c:75, 93`), which glibc and Linux implement by handing the mutex over
  to a waiter. A killed process takes no step at all; `WaiterGetsIn` excuses only those
  who wait for the very mutex it owned.
* **Bfdd, SmmrTree, SmmrStore** have safety properties only.

## 4. What is proved

### The C daemon

`BfddProofs` is about `Bfdd` for any sets of addresses, ports and discriminators, any
hash, group count and size, and any database that fails or forgets as `Commit`
allows, under `ConstantsAssumption`.

| Theorem | Statement |
|---|---|
| `InductiveInvariant` | `Spec => []IInv` |
| `TypeCorrect` | `Spec => []TypeOK` |
| `DiscriminatorsUnique` | `Spec => []DiscrUnique` |
| `StatesMatch` | `Spec => []StateMatchesLastWord` |
| `SpeaksOnlyOwn` | `Spec => SpeaksOwnDiscr` |
| `AttachmentsStable` | `Spec => AttachmentStable` |
| `DirectoryStaysSound` | `StoreMayRevert = FALSE` implies `Spec => []DirectorySound` |
| `SessionsAreBfd` | `StoreMayRevert = FALSE` implies `Spec => ImplementsBfdFsm` |
| `PassesReachAll` | `StoreMayRevert = FALSE` implies `Spec => PassReachesAll` |
| `ToldWhatIsStored` | `StoreMayRevert = FALSE` implies `Spec => SaysWhatIsStored` |

`IInv == TypeOK /\ Ready(db)`. None of the properties is inductive: a lookup may
bring any copy back, so the invariant must speak of all records of a key, visible
or hidden. `Ready` says that a key without a session has no hidden record, that
every record claims no more than the neighbour's word in it allows, that hidden
records exist only of attached sessions, attached under the same discriminator,
and that, until the counter wraps, the discriminators in use lie between 1 and the
counter and differ.

The argument goes bottom up. `Drift` says that every record of a key in one
database was one in the other; the lemmas `ResurfacedDrifts`, `CommitDrifts`,
`Put...Drifts` and `RegisterDrifts` show that stores of counters and lists only
let records drift, and `PutSessionStores`, `InsertSessionStores` that a session's
store adds the one record. `InsertSessionKeeps` turns that into preservation of
`Ready`; `AdvanceKeeps` does the common end of a handler, `AdoptKeeps`,
`AdmitKeeps`, `RecvKeeps`, `SendSpeaks` and `NextKeeps` the actions. For the last
two theorems the `...Exact` lemmas sharpen this: without reverting stores a record
is what was stored, and `Register` extends the list only behind its counter.

The last two hold while no store has failed, which the history variable `failed`
records: a failed store may leave a stored session that no list names. Their
invariant `LInv` adds that, until then, every key with a session is listed in its
group (`AllListed`); `PassReaches` shows that a pass then visits every attached key.
The run has one group; that keys lie in several is what the theorem adds.

### The C daemon with a neighbour

The second part of `BfddProofs` is about `BfddPeer`, under `PeerAssumption` and for any number of
faults of any kind.

| Theorem | Statement |
|---|---|
| `PeerTypeCorrect` | `PeerSpec => []PeerTypeOK` |
| `HandShakesHold` | `StoreMayRevert = FALSE` implies `PeerSpec => []HandShake` |

Every step of the composition is one of `Bfdd`, or leaves the daemon alone
(`PeerStepIsLoopStep`), so the daemon's invariant carries over. The hand-shake needs
`Calm`: until the first fault one packet at most is in flight, it says the state its
sender is still in, and the pair of the two ends' states is one of `InStep`. From
there each packet moves its receiver to the next pair (`HearingKeepsStep`,
`AnsweringKeepsStep`), and a store that fails leaves the daemon one behind. Stores
may fail; a database that brings an older record back could put the daemon behind a
neighbour that is Up already, hence the hypothesis.

### The C++ daemon

`BfddCppProofs` is about `BfddCpp` for any neighbours, packets and bounds, under
`CppAssumption`.

| Theorem | Statement |
|---|---|
| `InductiveInvariant` | `Spec => []IInv` |
| `TypeCorrect` | `Spec => []TypeOK` |
| `DiscriminatorsUnique` | `Spec => []DiscrUnique` |
| `SpeaksOnlyOwn` | `Spec => []SpeaksOwnDiscr` |
| `LastWordsLeave` | `Spec => []LastWordLeaves` |
| `PassesServeAlive` | `Spec => PassServesAlive` |
| `SessionsAreBfd` | `Spec => ImplementsBfdFsm` |

`IInv` adds to the properties that the counter is the number of discriminators handed
out while that is within its range (`Counted`), that no session with a connection has a
higher one than were handed out (`Numbered`; uniqueness alone does not say that the next
one is free), that a send is queued only once something was written (`Backed`; a mixture of
two packets needs two packets), that buffer and last word speak for the session there is
(`Speaking`), and that a pass is about sessions that are there (`Waiting`).
`PassesServeAlive` rests on an invariant of its own, `late \subseteq expired`: what an old
clock reading has against a session still holds, since a handler that renews one takes
it out of both.
`WriteKeeps` and `TransmitKeeps` do the write buffer, mixtures included: whatever two
words of one session are mixed, both name it alike. `AdvanceIs` says what a handler's
second critical section does to the map, for the invariant and for the refinement.

### The netmap daemon

`BfddNetmapProofs` is about `BfddNetmap` for any number of rings, slots and frames,
under `NetmapAssumption`.

| Theorem | Statement |
|---|---|
| `InductiveInvariant` | `Spec => []IInv` |
| `TypeCorrect` | `Spec => []TypeOK` |
| `BuffersStayApart` | `Spec => []BuffersApart` |
| `NoFrameIsLost` | `Spec => []NothingLost` |
| `AnswersCompleteHandShake` | `Spec => []HandShakeCompletes` |

`NothingLost` is inductive together with `BuffersApart` and the types: a frame is safe
from a write into another slot only if no two slots share a buffer. The lemmas on
distances (`ForthAndBack` to `OutOfReach`) do the arithmetic modulo the number of slots.
`ExchangeKeepsApart` gives the permutation: each slot of a pass has one partner, at the
same distance from the other ring's cursor, and the partner's partner is the slot itself.
`ProcessLosesNone` follows a frame through a pass: read and answered in the window, left
to be read behind it, and out of reach (`OutOfReach`) where it waits to be sent.
`HandShakeCompletes` needs no invariant, since answers depend on nothing but the frame:
`ExchangedIs` computes what a neighbour makes of one.

### The database

`SmmrStoreProofs` is about `SmmrStore` for any processes, keys, values, hashes, item
sizes, numbers of files and pages, under `StoreAssumption` and `IndexAssumption`.
The latter is what is known of the B-tree; TLC evaluates it for the trees of the runs,
and `TreeKeepsPromise` (below) proves it for all trees.
`FreeUnit` is 128 in the code; from 2 on the proofs hold.

| Theorem | Statement |
|---|---|
| `TypeCorrect` | `Spec => []TypeOK` |
| `LiveItemsStayApart` | `Spec => []LiveItemsApart` |
| `RoomStaysSeen` | `Spec => []RoomIsSeen` |
| `AppendingOverruns` | `Spec => [][Next => Overruns]_vars` |
| `StoreImplementsKv` | `HashesApart` and `PlacesRecorded` imply `Spec => ImplementsKv` |

*Items apart.* That items of the index lie apart is not inductive: an item that expired
is given back while the index still names it, a second time too, and its pages are
handed out again. `InFiles` speaks of all items, indexed or not: none shares a page with
another, each is marked used on all its pages or on none, and one that has not expired
is. The step that could break it is `TakePages`: a run of free pages might begin in the
middle of a given-back item. `FirstRunMeetsNone` shows that it does not, because the
first run is taken: if it began behind such an item's first page, the run one page
earlier would be free as well. Giving back keeps it since an item's pages are freed
together (`GivenBackInFiles`); overwriting keeps it since a value only ever gets shorter.

*Room seen.* `Counted` says that what a file is said to have left, with the pages marked,
makes up at least the whole file, or there is no free page. Giving back keeps it although
pages are freed that are free already, or freed once for two entries, since each adds
`FreeUnit` pages (`GivenBackCounted`); a failed search for room keeps it since
`remain_length` is cleared only when not even one page was found.

*Overruns.* `Passed` says of a store in its second round that an item of its size,
behind the last item of a file it has passed, would not fit, or would not be tried. No
file's used length falls, so it stays so, and the second round appends nothing that fits:
its every write reaches past the end of the file. Space that is left behind a file's last
item is taken by the first round already.

*Refinement.* Each key that does not expire is an `SmmrKv`. `LastingKept` says, until an
overrun, that every index entry of a lasting key's hash names an item of a key of
that hash, that a place still to be recorded has its item, and that no entry waiting to
be removed has a lasting key's hash. Lasting items never expire, so their pages stay used
and no other item is put there. `SameStops` and `FoundIs` say what a scan answers, whatever
the order in which the index meets the entries; `StoreMoves`, `AddIndexMoves` and
`KvRearranges` map the steps. Two hypotheses are needed, both hold in the runs, and the
code guarantees neither: no key that expires has the hash of one that lasts, and the
24 bits of an offset tell all places of a file apart. Sections 2 and 3 say what happens
otherwise.

### The index tree

`SmmrTreeProofs` is about `SmmrBtree` and `SmmrTree`, for nodes of any size
(`NodeCount = 2 * NodeMin`), trees of any height and any items.

| Theorem | Statement |
|---|---|
| `RootIsSound` | `Spec => []SoundTree(root)` |
| `TreeStaysSound` | `Spec => []TreeSound` |
| `TreeImplementsIndex` | `Spec => ImplementsIndex` |
| `SearchFinds` | `Spec => []SearchFindsAll` |
| `StopReached` | `Spec => []StopIsReached` |
| `TreeKeepsPromise` | each clause of `SmmrStore!IndexAssumption` holds of the B-tree |

`Sound[h]` has the nodes of height `h` that hold no more keys than a node may, whose
children are sound and, unless they are `NoNode`, not too empty, and whose keys ascend
and part what the children hold. `SoundTree` adds a height and a root that has a key. It is inductive, and each
property follows from it alone, so the work is in what an operation does to one node.

*Heights.* Every function of `SmmrBtree` is a recursion over the height. `Recursion`
gives its equation (`Defined`), and `Induction` carries a statement about one level
("what insertion makes of a sound node of height h is sound and holds one item more")
to all levels. The statements are predicates such as `InsertRight` and `RemoveRight`,
which also speak of what an operation leaves unfinished: the item and the node that
a split hands up, the child that a removal leaves too small.

*One node.* Three changes make up all the others. `Replaced`: a child is exchanged for
one that holds other items of the same range. `Opened`: a key and a child are put in
between, which is what `AddItem` does. `Joined`: a key is taken out with the child
behind it, which is what `RemoveTrgt` does. For each, the lemmas say which
items are held and that the keys still part the children. Splitting, borrowing from the
left or the right and combining are then cuts and joints of ascending nodes. The
removal of an inner item replaces it by its successor: `Leftmost` is the least item of
the child behind it, and taking it out of there leaves only items above it.

*Searches.* A search by hash goes through the keys from the first one not below the
hash, and each part of a scan (`HitsAt`) meets what one key or child holds; what a
flattened sequence holds, and that nothing is in it twice, is again an induction. A
stop cuts off the rest of a node, but the stop itself has been met by then. That a scan
only depends on the stops it can meet is what the store needs of it as well.

*The store.* `TreesOf(E)` has the trees of any height whose items are among `E`.
`TreeKeepsPromise` has the clauses of `IndexAssumption` with `TreesOf(E)` for the indexes,
`EmptyTree` for the empty one and `AddTree`, `RemoveTree` and `Hits` for the operations. What
`SmmrStoreProofs` proves under that assumption thus holds over the tree of `smmr_tree.c`.

### The allocator and the categories

For any number of processes, pages and kills, any sizes, under `MemoryAssumption`
and `CategoryAssumption`:

| Theorem | Statement |
|---|---|
| `PagesStayRight` | `Spec => [](TypeOK /\ PagesRight /\ Walks)` |
| `TypeCorrect` | `Spec => []TypeOK` |
| `BlocksStayApart` | `Spec => []BlocksApart` |
| `RebuildShowsRoom` | `Spec => RebuildSeesRoom` |
| `RootIsShared` | `Spec => []RootShared` |
| `RebuildOnceIsSafe` | `Spec => []OnceIsSafe` |
| `HeapIsImplemented` | `Spec => ImplementsHeap` |

*Items apart.* `PageRight` adds to `PageSound` what the operations rely on: no item
given back or on its way is a root, and a page whose root items are not written has no
items and no bit that invites one. The first part of `SmmrCategoryProofs` shows half by
half that it is kept (`Begun` for what takes an item out, `Obtained` and `Released` for
what links it), and `Walks` adds that only pages with root items are about to be reset.
Nothing is needed about mutexes: each half keeps a page right, whatever came in between,
and an item that is on its way is found again by its place (`OnTheWayIs`).

*Room found.* `PageRight` also says that the items of a page, in use, given back or on
their way, fill it up to its bucket. `Sizes`, the sum along a list, is a recursive function; the lemmas
from `SumIs` to `SizesMoved` say by induction over the list (`Recursion`) what it becomes
when an item is added, taken out or moved. So the room that a rebuild computes is at
least what the bucket has left less one more header and footer for each item in use
(`RemainIs`), and where that is positive the 32-bit subtraction does not wrap.

*One root.* `RootInv` has a conjunct per idea. `Owners` says who holds which mutex, and
`Timeline` that, unless somebody was early, nobody is there before the server has
prepared the pages. `OneRoot` says that either there is nothing at all (`Unrooted`), or
one page has the root as its first item and no rebuild is about to reset it
(`RootedAt`): the root is made under the mutex under which clients rebuild, and before
anybody can be in the status page; once made, the list it lies in is never found empty.
`Resets` says that, when only the server rebuilt, a page about to be reset is still
empty: it is reset before anybody works in the category, or under the mutex under
which items are handed out. `QuietStep` does all steps that put no item anywhere at
once; `Alone` says who else can be at a page when an item is handed out.

*Refinement.* The end of `SmmrRootProofs` maps pages to blocks. A block is in use from the
second half of the call that hands it out, which adds one that lies apart from all others
(`BlockGiven`), to the first half of the call that gives it back (`BlockTaken`). A reset of
a page in use takes the page, all else changes no block. That every page reset under an
item is among the lost ones is taken from `RootInv`.

## 5. Model-checked only

Every invariant and every action property of the runs that pass is proved as well, and
so is every refinement. What stays with TLC:

* Liveness (`Converges`, `PollEnds`, `PollAnswered`, `AllAnswered`, `WaiterGetsIn`),
  which is out of the prover's reach, as is ENABLED.
* The four runs that contradict a document: they show a behaviour.
* That `MCSmmrStore` puts the B-tree of `SmmrBtree` into `SmmrStore` is an instance for
  TLC. The proofs meet in `IndexAssumption`: `SmmrStoreProofs` assumes it, and
  `TreeKeepsPromise` proves its clauses one for one.

## 6. Where code and documents differ

* **BfddFull**: a session of a full group cannot be updated any more: the limit on
  new keys is tested before "equal key is an overwrite" (`bfdd_session.c:145-150`).
* **BfddCut**: one failed send ends the pass for all later groups, because the
  response buffer stays set and `search` refuses every later lookup
  (`bfdd_session.c:104-107`, `smmr_database.c:44`).
* **NetmapStale**: a frame that is not BFD releases a transmit slot that may hold
  an old answer, which is sent again (`bfdd_netmap_func.c:55-66`).
* **SmmrLost**: every store adds a copy, and the fifth store under one key makes
  searches answer with the third value (`smmr_database.c:437`). Built against a
  test driver, the library shows the same.

## 7. Not modelled

* In the allocator: the counters of the status page; the checks of a page's own root
  items, which only a damaged file fails; a kill between two writes of one half of a call.
  Such a kill leaves the mutex locked under which items of the category are moved, so no
  later call builds on the half-written list; a rebuild under the other mutex finds the
  item, or does not, or finds the page faulty, as the model has it for an item on its way
  (`_operate_insert` moves the end of the list before it links the item, so a kill between
  `smmr_memory.c:729` and `731` leaves an item no walk reaches).
  `merge_page_to_category` and `free_tree_unsafe` are called by nothing.
* A session of the C daemon whose neighbour falls silent stays Up: no code compares times
  with `detect_time`. It is listed as a hazard, and no property claims more.
* What a client that joins before the server has prepared the pages does to them, beyond
  that items of pages not reset stay apart; `RootShared` and `OnceIsSafe` except it.
* Trees get their nodes: what a split does with a node it did not get (a write
  through NULL, `smmr_tree.c:364`) is undefined.
* Making, opening and mapping the files fails in no run, and a client does not meet an
  area that is half made. Data files are there from the start.
* The paged buffer, socket set-up, frame parsing and checksums, logging, tests.

## 8. Plan

Done: all modules of section 2 and their proofs. What would come next:

1. `SmmrTree` on top of `SmmrHeap`, once the code says what a split without memory
   is to do.
2. A run on a data file that overruns (`overrun` in `SmmrStore`), with what other
   entries lose by it.
3. Proofs: with reverting stores, how far the daemon can fall behind its neighbour
   (`HandShakesHold` excludes them); which weaker hypothesis on hashes `StoreImplementsKv`
   could do with.
