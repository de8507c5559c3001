-------------------------------- MODULE Bfdd --------------------------------
(***************************************************************************)
(* The C daemon, bfdd/: a single-threaded loop that either handles one     *)
(* received control packet or, when none is waiting, transmits once for    *)
(* every session.  Sessions live in a key-value database (deps/smmr) that  *)
(* also holds the daemon's own directory of them: one summary record with  *)
(* a counter per hash group, and per group the list of session keys.  One  *)
(* handler may therefore store up to four entries, each store can fail on  *)
(* its own, and the database does not always answer with the last value    *)
(* stored (see Commit).                                                    *)
(***************************************************************************)
EXTENDS BfdDefs, FiniteSets

CONSTANTS
    Addrs,          \* addresses of remote systems
    Ports,          \* UDP source ports they send from
    NGroups,        \* SESSION_KEYS_MAX, the number of hash groups
    Hash,           \* hash group of each key, [Keys -> Groups]
    GroupMax,       \* SESSION_KEYS_LISTCNT, the session keys a group can list
    DiscrLimit,     \* 0x7fffffff: past it the discriminator counter restarts
    PeerDiscrs,     \* discriminators that occur in received packets
    Polls,          \* values of the Poll bit that occur in received packets
    StoreMayFail,   \* whether a store of the database may fail
    StoreMayRevert, \* whether a store may bring older values back to light
    MaxMoved,       \* bound on the entries that one store brings back
    NoSession,      \* no entry in the database
    NoKey           \* a slot of a key list that was never written (all zero)

\* A session is found by the sender's address and source port.
Keys == Addrs \X Ports
Groups == 0 .. NGroups - 1
Slots == 1 .. GroupMax

\* Discriminators: those handed out here, and those met in packets.
LocalDiscrs == 1 .. DiscrLimit + 1
Discrs == {NoDiscr} \cup LocalDiscrs \cup PeerDiscrs

Session == [state : SessionStates, remoteState : RemoteStates,
            local : Discrs, remote : Discrs,
            pollbit : BOOLEAN, attached : BOOLEAN]

Counts == [Groups -> 0 .. GroupMax]
KeyList == [Slots -> Keys \cup {NoKey}]

\* The visible value of every entry, and the values of the further copies of
\* it that stores have left in the database (recorded where they can matter).
Database == [sess : [Keys -> Session \cup {NoSession}],
             incnt : Counts,
             list : [Groups -> KeyList],
             sessHidden : [Keys -> SUBSET Session],
             incntHidden : SUBSET Counts,
             listHidden : [Groups -> SUBSET KeyList]]

ASSUME ConstantsAssumption ==
    /\ NGroups \in Nat \ {0}
    /\ GroupMax \in Nat \ {0}
    /\ DiscrLimit \in Nat \ {0}
    /\ Hash \in [Keys -> Groups]
    /\ PeerDiscrs \subseteq Nat \ {0}
    /\ Polls \subseteq BOOLEAN
    /\ StoreMayFail \in BOOLEAN
    /\ StoreMayRevert \in BOOLEAN
    /\ MaxMoved \in Nat
    /\ NoSession \notin Session \cup SessionStates
    /\ NoKey \notin Keys

VARIABLES
    db,         \* the session database
    incr,       \* local_discriminator_incr
    wrapped,    \* history: the counter has been reset since the start
    failed,     \* history: a store has failed or was refused since the start
    out,        \* the packets the last step transmitted
    event       \* what the last step of the loop did

vars == <<db, incr, wrapped, failed, out, event>>

\* "mute": the send of a handler's answer failed; "pass": every session was
\* visited; "cut": a failed send ended the visits.
Events == {"start", "recv", "mute", "pass", "cut"}

-----------------------------------------------------------------------------
(* Sessions *)

EmptyDatabase ==
    [sess |-> [k \in Keys |-> NoSession],
     incnt |-> [g \in Groups |-> 0],
     list |-> [g \in Groups |-> [n \in Slots |-> NoKey]],
     sessHidden |-> [k \in Keys |-> {}],
     incntHidden |-> {},
     listHidden |-> [g \in Groups |-> {}]]

\* Slip: the record is zeroed instead, and state 0 is AdminDown.
InitSessionZeroed ==
    [state |-> AdminDown, remoteState |-> Down, local |-> NoDiscr,
     remote |-> NoDiscr, pollbit |-> FALSE, attached |-> FALSE]

InitSession ==
    [state |-> Down, remoteState |-> Down, local |-> NoDiscr,
     remote |-> NoDiscr, pollbit |-> FALSE, attached |-> FALSE]

(* The session stored for a sender that claims to know us, though we do not *)
(* know it: it starts Down under the discriminator the sender used.         *)
Adopted(pkt) ==
    [InitSession EXCEPT !.remote = pkt.my, !.local = pkt.your]

\* Slip: a neighbour that is Up brings a Down session Up at once.
NextStateSkipsInit(s, r) ==
    IF r \in {Init_, Up} THEN Up ELSE IF r = Down /\ s = Down THEN Init_ ELSE Down

\* Slip: a neighbour's AdminDown does not bring the session down.
NextStateIgnoresAdmin(s, r) ==
    IF r = Down THEN (IF s = Down THEN Init_ ELSE Down)
    ELSE IF r \in {Init_, Up} /\ s # Down THEN Up
    ELSE IF r = Init_ THEN Up ELSE s

\* Slip: the Init stage is left out of the hand-shake.
NextStateEager(s, r) ==
    IF r = AdminDown \/ (r = Down /\ s # Down) THEN Down
    ELSE IF s = Down /\ r = Up THEN Down ELSE Up

(* The state machine of recv_bfd_event for a session in state s.            *)
NextState(s, r) ==
    CASE r = AdminDown               -> Down
      [] s = Down /\ r = Down        -> Init_
      [] s = Down /\ r = Init_       -> Up
      [] s = Init_ /\ r # AdminDown  -> IF r \in {Init_, Up} THEN Up ELSE Down
      [] s = Up /\ r = Down          -> Down
      [] OTHER                       -> s

\* Slip: every packet hands the session another discriminator.
UpdatedReattaches(s, pkt, discr) ==
    [state |-> NextState(s.state, pkt.state), remoteState |-> pkt.state,
     local |-> discr, remote |-> pkt.my, pollbit |-> s.pollbit \/ pkt.poll,
     attached |-> TRUE]

\* Slip: the neighbour's discriminator is learned only once.
UpdatedKeepsRemote(s, pkt, discr) ==
    [state |-> NextState(s.state, pkt.state), remoteState |-> pkt.state,
     local |-> IF s.attached THEN s.local ELSE discr,
     remote |-> IF s.attached THEN s.remote ELSE pkt.my,
     pollbit |-> s.pollbit \/ pkt.poll, attached |-> TRUE]

\* Slip: the Poll bit is not remembered.
UpdatedIgnoresPoll(s, pkt, discr) ==
    [state |-> NextState(s.state, pkt.state), remoteState |-> pkt.state,
     local |-> IF s.attached THEN s.local ELSE discr,
     remote |-> pkt.my, pollbit |-> s.pollbit, attached |-> TRUE]

(* The session after an acceptable packet; discr is the discriminator a     *)
(* session gets with its first one.                                         *)
Updated(s, pkt, discr) ==
    [state |-> NextState(s.state, pkt.state),
     remoteState |-> pkt.state,
     local |-> IF s.attached THEN s.local ELSE discr,
     remote |-> pkt.my,
     pollbit |-> s.pollbit \/ pkt.poll,
     attached |-> TRUE]

Discr == incr + 1
\* Slip: the counter is never advanced, or never restarted.
CounterAfterStuck(s) == incr
CounterAfterUnbounded(s) == IF s.attached THEN incr ELSE Discr
CounterAfter(s) ==
    IF s.attached THEN incr ELSE IF Discr > DiscrLimit THEN 0 ELSE Discr

\* Slip: a session is announced before it is attached.
TransmitUnattached(k, s) ==
    IF MayAnnounce(s)
    THEN {[to |-> k[1], state |-> AnnouncedState(s), final |-> s.pollbit,
           my |-> s.local, your |-> s.remote]}
    ELSE {}

(* iterate_on_session: the packet sent for session s of key k, if any.  It  *)
(* goes to the sender's address and the BFD port, not to its source port.   *)
Transmit(k, s) ==
    IF s.attached /\ MayAnnounce(s)
    THEN {[to |-> k[1], state |-> AnnouncedState(s), final |-> s.pollbit,
           my |-> s.local, your |-> s.remote]}
    ELSE {}

-----------------------------------------------------------------------------
(* The session table *)

(* What becomes of the other copies of an entry when w surfaces over v.     *)
Beneath(v, hidden, w) == IF w = v THEN hidden ELSE hidden \cup {v}

SessionsAnyOf(d) ==
    {s \in [Keys -> UNION {{d.sess[k]} \cup d.sessHidden[k] : k \in Keys}] :
        \A k \in Keys : s[k] \in {d.sess[k]} \cup d.sessHidden[k]}

ListsAnyOf(d) ==
    {l \in [Groups -> UNION {{d.list[g]} \cup d.listHidden[g] : g \in Groups}] :
        \A g \in Groups : l[g] \in {d.list[g]} \cup d.listHidden[g]}

Displaced(d, e) ==
    Cardinality({k \in Keys : e.sess[k] # d.sess[k]}) +
    Cardinality({g \in Groups : e.list[g] # d.list[g]}) +
    IF e.incnt # d.incnt THEN 1 ELSE 0

(* The database with any of its copies visible.                             *)
Rearranged(d) ==
    {[sess |-> s, incnt |-> c, list |-> l,
      sessHidden |-> [k \in Keys |-> Beneath(d.sess[k], d.sessHidden[k], s[k])],
      incntHidden |-> Beneath(d.incnt, d.incntHidden, c),
      listHidden |-> [g \in Groups |-> Beneath(d.list[g], d.listHidden[g], l[g])]]
     : s \in SessionsAnyOf(d), c \in {d.incnt} \cup d.incntHidden, l \in ListsAnyOf(d)}

(* A store restructures the index, which may change which copy of an entry  *)
(* a lookup meets first: of the entry stored, and of any others.            *)
Resurfaced(d) == {e \in Rearranged(d) : Displaced(d, e) <= MaxMoved}

(* What one store may leave behind, and whether it reports success.  Over   *)
(* an existing entry it writes the visible value in place, giving e, then   *)
(* adds a copy with the same value, giving f; when there is no room for the *)
(* copy it fails with the value already changed.                            *)
Commit(d, e, f) ==
    {[db |-> x, ok |-> TRUE] : x \in IF StoreMayRevert THEN Resurfaced(f) ELSE {e}}
    \cup {[db |-> x, ok |-> FALSE] : x \in IF StoreMayFail THEN {d, e} ELSE {}}

PutSession(d, k, s) ==
    LET e == [d EXCEPT !.sess[k] = s] IN
    IF d.sess[k] # NoSession
    THEN Commit(d, e, [e EXCEPT !.sessHidden[k] = @ \cup {s}])
    ELSE {r \in Commit(d, e, e) : r.ok \/ r.db = d}

PutCounts(d, c) ==
    LET e == [d EXCEPT !.incnt = c]
    IN Commit(d, e, [e EXCEPT !.incntHidden = @ \cup {c}])

PutList(d, g, l) ==
    LET e == [d EXCEPT !.list[g] = l]
    IN Commit(d, e, [e EXCEPT !.listHidden[g] = @ \cup {l}])

Listed(d, k) ==
    \E n \in 1 .. d.incnt[Hash[k]] : d.list[Hash[k]][n] = k

\* Slip: the list is stored first, so that a failure leaves it ahead of the count.
RegisterListFirst(d, e, k) ==
    LET g == Hash[k]
        n == d.incnt[g] + 1
        appended == PutList(e, g, [d.list[g] EXCEPT ![n] = k])
    IN {r \in appended : ~r.ok} \cup
       (UNION {PutCounts(r.db, [d.incnt EXCEPT ![g] = n])
               : r \in {x \in appended : x.ok}})

(* A new key is counted in the summary record, then appended to the list of *)
(* its group, both as they were read in d; a failed store leaves the rest   *)
(* undone.                                                                  *)
Register(d, e, k) ==
    LET g == Hash[k]
        n == d.incnt[g] + 1
        counted == PutCounts(e, [d.incnt EXCEPT ![g] = n])
    IN {r \in counted : ~r.ok} \cup
       (UNION {PutList(r.db, g, [d.list[g] EXCEPT ![n] = k])
               : r \in {x \in counted : x.ok}})

(* insert_session: the databases it may leave, and its result.  A full      *)
(* group refuses the store, of a listed key as well.                        *)
InsertSession(d, k, s) ==
    IF d.incnt[Hash[k]] >= GroupMax THEN {[db |-> d, ok |-> FALSE]}
    ELSE UNION {IF r.ok /\ ~Listed(d, k) THEN Register(d, r.db, k) ELSE {r}
                : r \in PutSession(d, k, s)}

-----------------------------------------------------------------------------
(* The main loop *)

Init ==
    /\ db = EmptyDatabase
    /\ incr = 0
    /\ wrapped = FALSE
    /\ failed = FALSE
    /\ out = {}
    /\ event = "start"

(* A Poll is answered at once, with session s; that the send failed is not  *)
(* looked at.                                                               *)
Answer(k, s, pkt) ==
    LET answer == IF pkt.poll THEN Transmit(k, s) ELSE {}
    IN \/ out' = answer /\ event' = "recv"
       \/ answer # {} /\ out' = {} /\ event' = "mute"

\* Slip: the Poll is answered from the session as it was found.
AdvanceAnswersOld(d, k, pkt, stored) ==
    /\ \E r \in InsertSession(d, k, Updated(d.sess[k], pkt, Discr)) :
          db' = r.db /\ failed' = (failed \/ ~stored \/ ~r.ok)
    /\ incr' = CounterAfter(d.sess[k])
    /\ wrapped' = (wrapped \/ (~d.sess[k].attached /\ Discr > DiscrLimit))
    /\ Answer(k, d.sess[k], pkt)

(* The rest of recv_bfd_event, once a session of k was found in d: the      *)
(* session is updated, a Poll is answered from the updated session, and     *)
(* only then is the session stored; "stored" tells whether the stores the   *)
(* handler made before were completed.                                      *)
Advance(d, k, pkt, stored) ==
    LET s == d.sess[k]
        t == Updated(s, pkt, Discr)
    IN /\ \E r \in InsertSession(d, k, t) :
             db' = r.db /\ failed' = (failed \/ ~stored \/ ~r.ok)
       /\ incr' = CounterAfter(s)
       /\ wrapped' = (wrapped \/ (~s.attached /\ Discr > DiscrLimit))
       /\ Answer(k, t, pkt)

Silent == out' = {} /\ event' = "recv"

\* A packet that fails the checks, or that a stranger may not begin with.
Discard(k, pkt) ==
    /\ \/ ~Acceptable(pkt)
       \/ db.sess[k] = NoSession /\ pkt.your = NoDiscr /\ pkt.state # Down
    /\ Silent
    /\ UNCHANGED <<db, incr, wrapped, failed>>

\* A sender that knows a discriminator of ours, and that we do not know.
Adopt(k, pkt) ==
    /\ Acceptable(pkt)
    /\ db.sess[k] = NoSession
    /\ pkt.your # NoDiscr
    /\ \E r \in InsertSession(db, k, Adopted(pkt)) :
          db' = r.db /\ failed' = (failed \/ ~r.ok)
    /\ Silent
    /\ UNCHANGED <<incr, wrapped>>

\* First packet of a neighbour that is Down: the session is stored, read
\* back, and updated like any other if it is there.
Admit(k, pkt) ==
    /\ Acceptable(pkt)
    /\ db.sess[k] = NoSession
    /\ pkt.your = NoDiscr
    /\ pkt.state = Down
    /\ \E r \in InsertSession(db, k, InitSession) :
          \/ r.db.sess[k] # NoSession /\ Advance(r.db, k, pkt, r.ok)
          \/ /\ r.db.sess[k] = NoSession
             /\ db' = r.db
             /\ failed' = (failed \/ ~r.ok)
             /\ Silent
             /\ UNCHANGED <<incr, wrapped>>

Known(k, pkt) ==
    /\ Acceptable(pkt)
    /\ db.sess[k] # NoSession
    /\ Advance(db, k, pkt, TRUE)

RecvBfdEvent(k, pkt) ==
    \/ Discard(k, pkt)
    \/ Adopt(k, pkt)
    \/ Admit(k, pkt)
    \/ Known(k, pkt)

-----------------------------------------------------------------------------
\* Slip: the last key of each list is not visited.
VisitedAllButLast(d) == {p \in Groups \X Slots : p[2] < d.incnt[p[1]]}

(* The positions a transmission pass visits, group by group, and what it    *)
(* sends there: nothing when the slot's key has no session.                 *)
Visited(d) == {p \in Groups \X Slots : p[2] <= d.incnt[p[1]]}

Before(p, q) == p[1] < q[1] \/ (p[1] = q[1] /\ p[2] < q[2])

SentAt(d, p) ==
    LET k == d.list[p[1]][p[2]] IN
    IF k = NoKey THEN {}
    ELSE IF d.sess[k] = NoSession THEN {} ELSE Transmit(k, d.sess[k])

(* send_bfd_event.  When a send fails, the session's buffer stays behind in *)
(* the variable the next lookups want empty: each of them is refused, and   *)
(* the pass sends nothing more in this group or in any later one.           *)
SendBfdEvent ==
    /\ \/ /\ out' = UNION {SentAt(db, p) : p \in Visited(db)}
          /\ event' = "pass"
       \/ \E f \in Visited(db) :
             /\ SentAt(db, f) # {}
             /\ out' = UNION {SentAt(db, p) : p \in {q \in Visited(db) : Before(q, f)}}
             /\ event' = "cut"
    /\ UNCHANGED <<db, incr, wrapped, failed>>

(* SIGINT or a receive error ends the loop and removes the table; a crash   *)
(* leaves it under the old process id.  Either way the next start is fresh. *)
Restart ==
    /\ db' = EmptyDatabase
    /\ incr' = 0
    /\ wrapped' = FALSE
    /\ failed' = FALSE
    /\ out' = {}
    /\ event' = "start"

Inputs == Packets({NoDiscr} \cup PeerDiscrs, {NoDiscr} \cup PeerDiscrs,
                  Polls, {FALSE})

Next ==
    \/ \E k \in Keys, pkt \in Inputs : RecvBfdEvent(k, pkt)
    \/ SendBfdEvent
    \/ Restart

Spec == Init /\ [][Next]_vars

-----------------------------------------------------------------------------
(* Properties *)

Attached(k) == IF db.sess[k] = NoSession THEN FALSE ELSE db.sess[k].attached

OutPackets == [to : Addrs, state : SessionStates, final : BOOLEAN,
               my : Discrs, your : Discrs]

TypeOK ==
    /\ db \in Database
    /\ incr \in 0 .. DiscrLimit
    /\ wrapped \in BOOLEAN
    /\ failed \in BOOLEAN
    /\ out \subseteq OutPackets
    /\ event \in Events

\* Every session record of key k in the database, visible or not.
Copies(k) == ({db.sess[k]} \ {NoSession}) \cup db.sessHidden[k]

(* Until the discriminator counter wraps, no two sessions announce the same *)
(* local discriminator, even though every handler rewrites the session it   *)
(* read, stores fail, and lookups may return older records                  *)
(* (bfdd_event.c:63-69).                                                    *)
DiscrUnique ==
    ~wrapped => \A j, k \in Keys : Attached(j) /\ Attached(k) /\ j # k
                   => db.sess[j].local # db.sess[k].local

(* Every transmitted packet carries a discriminator this daemon handed out, *)
(* never the one a stranger's packet put into the record it caused to be    *)
(* stored (bfdd_event.c:45-50 against 154-156).                             *)
SpeaksOwnDiscr ==
    [][\A p \in out' : p.my # NoDiscr /\ (~wrapped' => p.my \in 1 .. incr')]_vars

(* No record, however old, claims more than the neighbour's word in it      *)
(* allows: Up needs the neighbour in Init or Up, Init a neighbour that was  *)
(* Down (bfdd_event.c:85-109).                                              *)
StateMatchesLastWord ==
    \A k \in Keys : \A s \in Copies(k) :
        /\ s.state = Up => s.remoteState \in {Init_, Up}
        /\ s.state = Init_ => s.remoteState = Down

(* A session keeps its local discriminator from its first packet until the  *)
(* daemon restarts, and is never lost or detached: the neighbour may go on  *)
(* using the discriminator it learned (bfdd_event.c:63-69,                  *)
(* bfdd_session.c:160).                                                     *)
AttachmentStable ==
    [][event' # "start" =>
         \A k \in Keys : Attached(k) =>
            /\ db'.sess[k] # NoSession
            /\ db'.sess[k].attached
            /\ db'.sess[k].local = db.sess[k].local]_vars

(* The directory is sound, with a database that keeps what it stored: a key *)
(* is listed once, in its own group, below the group's counter, and has a   *)
(* session; no failed store between the up to four of a handler breaks that *)
(* (bfdd_session.c:160-182).                                                *)
DirectorySound ==
    \A g \in Groups, n \in Slots : db.list[g][n] # NoKey =>
        /\ n <= db.incnt[g]
        /\ Hash[db.list[g][n]] = g
        /\ db.sess[db.list[g][n]] # NoSession
        /\ \A m \in Slots : db.list[g][m] = db.list[g][n] => m = n

(* As long as no store has failed, a transmission pass reaches every        *)
(* neighbour that has a session with us, and says what is stored: a key is  *)
(* counted and listed, group by group, in stores of their own               *)
(* (bfdd_session.c:84-117 against 160-182).                                 *)
PassReachesAll ==
    [][event' = "pass" /\ ~failed =>
         \A k \in Keys : Attached(k) =>
            \E p \in out' : /\ p.to = k[1]
                             /\ p.my = db.sess[k].local
                             /\ p.state = db.sess[k].state]_vars

(* As long as no store has failed, what a neighbour is told is what is      *)
(* stored: the answer to a Poll leaves before the session is saved          *)
(* (bfdd_event.c:110-116).                                                  *)
SaysWhatIsStored ==
    [][~failed' => \A p \in out' : \E k \in Keys :
          db'.sess[k] # NoSession /\ {p} = Transmit(k, db'.sess[k])]_vars

(* bfdd_session.c:150 calls a store under an equal key an overwrite; so it  *)
(* must replace the stored session whatever the number of keys listed.      *)
EqualKeyOverwrites ==
    \A k \in Keys : Listed(db, k) =>
        \A r \in InsertSession(db, k, InitSession) :
            r.ok /\ r.db.sess[k] = InitSession

(* bfdd_event.c:127-128 has a pass send to every known neighbour; a failed  *)
(* send breaks off its own group's loop, so it must spare the other groups. *)
CutSparesOtherGroups ==
    [][event' = "cut" =>
         \E g \in Groups : \A k \in Keys :
            Attached(k) /\ Hash[k] # g
               => \E p \in out' : p.my = db.sess[k].local]_vars

(* Every session is a BFD session: what is stored under a key moves only as *)
(* the abstract session allows.                                             *)
StOf(k) == IF db.sess[k] = NoSession THEN NoSession ELSE db.sess[k].state
HeardOf(k) == IF db.sess[k] = NoSession THEN Down ELSE db.sess[k].remoteState

Fsm(k) == INSTANCE BfdFsm WITH NoState <- NoSession,
                               st <- StOf(k), heard <- HeardOf(k)

ImplementsBfdFsm ==
    /\ \A k \in Keys : Fsm(k)!Start
    /\ [][\A k \in Keys : [Fsm(k)!Step]_<<StOf(k), HeardOf(k)>>]_vars
=============================================================================
