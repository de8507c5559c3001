----------------------------- MODULE BfddProofs -----------------------------
(***************************************************************************)
(* Proofs about the C daemon, for any number of neighbours, any hash, any  *)
(* group size and a database that fails and forgets as it likes.           *)
(*                                                                         *)
(* The argument: whatever a handler stores, and whichever copies the       *)
(* database brings back, the records of a key were all written for that    *)
(* key and, once it is attached, under one discriminator.  As long as no   *)
(* store has failed every key with a session is also listed in its group,  *)
(* so that a transmission pass reaches it.                                 *)
(*                                                                         *)
(* With a neighbour, whatever its discriminators and the bound on the      *)
(* faults: what is in flight was said by its sender in the state it is     *)
(* still in, as long as nothing has gone wrong.                            *)
(***************************************************************************)
EXTENDS BfddPeer, TLAPS

(* Every record of a key in e was one in d, and a single copy stays single. *)
Drift(d, e) ==
    \A j \in Keys :
        /\ e.sess[j] \in {d.sess[j]} \cup d.sessHidden[j]
        /\ e.sessHidden[j] \subseteq {d.sess[j]} \cup d.sessHidden[j]
        /\ d.sessHidden[j] = {} => e.sessHidden[j] = {}

(* The two outcomes of writing s for key k: in place, or with a copy.       *)
Written(d, k, s) == [d EXCEPT !.sess[k] = s]
Copied(d, k, s) == [Written(d, k, s) EXCEPT !.sessHidden[k] = @ \cup {s}]

DbOK(d) ==
    /\ d \in Database
    /\ \A j \in Keys : d.sess[j] = NoSession => d.sessHidden[j] = {}

LEMMA DriftReflexive ==
    ASSUME NEW d PROVE Drift(d, d)
  BY DEF Drift

LEMMA DriftTransitive ==
    ASSUME NEW d, NEW e, NEW f, Drift(d, e), Drift(e, f) PROVE Drift(d, f)
  BY DEF Drift

\* Bringing back a copy only moves the records of a key about.
LEMMA ResurfacedDrifts ==
    ASSUME NEW d, DbOK(d), NEW x \in Resurfaced(d)
    PROVE  DbOK(x) /\ Drift(d, x)
<1>1. PICK s \in SessionsAnyOf(d), c \in {d.incnt} \cup d.incntHidden, l \in ListsAnyOf(d) :
        x = [sess |-> s, incnt |-> c, list |-> l,
             sessHidden |-> [k \in Keys |-> Beneath(d.sess[k], d.sessHidden[k], s[k])],
             incntHidden |-> Beneath(d.incnt, d.incntHidden, c),
             listHidden |-> [g \in Groups |-> Beneath(d.list[g], d.listHidden[g], l[g])]]
  <2>1. x \in Rearranged(d)
    BY DEF Resurfaced
  <2> QED BY <2>1 DEF Rearranged
<1>2. /\ d.sess \in [Keys -> Session \cup {NoSession}]
      /\ d.sessHidden \in [Keys -> SUBSET Session]
      /\ \A j \in Keys : d.sess[j] = NoSession => d.sessHidden[j] = {}
  BY DEF DbOK, Database
<1>3. /\ s \in [Keys -> Session \cup {NoSession}]
      /\ \A j \in Keys : s[j] \in {d.sess[j]} \cup d.sessHidden[j]
  <2>1. \A j \in Keys : s[j] \in {d.sess[j]} \cup d.sessHidden[j]
    BY DEF SessionsAnyOf
  <2>2. \A j \in Keys : s[j] \in Session \cup {NoSession}
    BY <1>2, <2>1
  <2>3. s = [j \in Keys |-> s[j]]
    BY DEF SessionsAnyOf
  <2> QED BY <2>1, <2>2, <2>3
<1>4. \A j \in Keys : Beneath(d.sess[j], d.sessHidden[j], s[j]) \in SUBSET Session
  <2> SUFFICES ASSUME NEW j \in Keys
               PROVE  Beneath(d.sess[j], d.sessHidden[j], s[j]) \subseteq Session
    OBVIOUS
  <2>1. CASE d.sess[j] = NoSession
    BY <2>1, <1>2, <1>3 DEF Beneath
  <2>2. CASE d.sess[j] \in Session
    BY <2>2, <1>2 DEF Beneath
  <2> QED BY <2>1, <2>2, <1>2
<1>5. /\ c \in Counts
      /\ Beneath(d.incnt, d.incntHidden, c) \in SUBSET Counts
  BY DEF DbOK, Database, Beneath
<1>6. /\ l \in [Groups -> KeyList]
      /\ \A g \in Groups : Beneath(d.list[g], d.listHidden[g], l[g]) \in SUBSET KeyList
  <2>1. /\ d.list \in [Groups -> KeyList]
        /\ d.listHidden \in [Groups -> SUBSET KeyList]
    BY DEF DbOK, Database
  <2>2. /\ l = [g \in Groups |-> l[g]]
        /\ \A g \in Groups : l[g] \in {d.list[g]} \cup d.listHidden[g]
    BY DEF ListsAnyOf
  <2>3. \A g \in Groups : l[g] \in KeyList
    BY <2>1, <2>2
  <2> QED BY <2>1, <2>2, <2>3 DEF Beneath
<1>7. x \in Database
  BY <1>1, <1>3, <1>4, <1>5, <1>6 DEF Database
<1>8. Drift(d, x)
  BY <1>1, <1>2, <1>3 DEF Drift, Beneath
<1>9. \A j \in Keys : x.sess[j] = NoSession => x.sessHidden[j] = {}
  <2> SUFFICES ASSUME NEW j \in Keys, x.sess[j] = NoSession
               PROVE  x.sessHidden[j] = {}
    OBVIOUS
  <2>1. s[j] = NoSession
    BY <1>1
  <2>2. d.sess[j] = NoSession
    BY <2>1, <1>2, <1>3, ConstantsAssumption
  <2> QED BY <2>1, <2>2, <1>1, <1>2 DEF Beneath
<1> QED BY <1>7, <1>8, <1>9 DEF DbOK

\* A store of one of the two directory records leaves the sessions drifting.
LEMMA CommitDrifts ==
    ASSUME NEW d, DbOK(d), NEW e, DbOK(e), NEW f, DbOK(f),
           Drift(d, e), Drift(d, f), NEW r \in Commit(d, e, f)
    PROVE  DbOK(r.db) /\ Drift(d, r.db)
  BY ResurfacedDrifts, DriftTransitive, DriftReflexive DEF Commit

LEMMA PutCountsDrifts ==
    ASSUME NEW d, DbOK(d), NEW c \in Counts, NEW r \in PutCounts(d, c)
    PROVE  DbOK(r.db) /\ Drift(d, r.db)
<1> DEFINE e == [d EXCEPT !.incnt = c]
           f == [e EXCEPT !.incntHidden = @ \cup {c}]
<1>1. DbOK(e) /\ DbOK(f) /\ Drift(d, e) /\ Drift(d, f)
  BY DEF DbOK, Database, Drift
<1> QED BY <1>1, CommitDrifts DEF PutCounts

LEMMA PutListDrifts ==
    ASSUME NEW d, DbOK(d), NEW g \in Groups, NEW l \in KeyList,
           NEW r \in PutList(d, g, l)
    PROVE  DbOK(r.db) /\ Drift(d, r.db)
<1> DEFINE e == [d EXCEPT !.list[g] = l]
           f == [e EXCEPT !.listHidden[g] = @ \cup {l}]
<1>1. DbOK(e) /\ DbOK(f) /\ Drift(d, e) /\ Drift(d, f)
  BY DEF DbOK, Database, Drift
<1> QED BY <1>1, CommitDrifts DEF PutList
LEMMA WrittenOK ==
    ASSUME NEW d, DbOK(d), NEW k \in Keys, NEW s \in Session
    PROVE  /\ DbOK(Written(d, k, s))
           /\ DbOK(Copied(d, k, s))
           /\ Written(d, k, s).sess = [d.sess EXCEPT ![k] = s]
           /\ Written(d, k, s).sessHidden = d.sessHidden
           /\ Copied(d, k, s).sess = [d.sess EXCEPT ![k] = s]
           /\ Copied(d, k, s).sessHidden = [d.sessHidden EXCEPT ![k] = @ \cup {s}]
<1> DEFINE e == Written(d, k, s)
           f == Copied(d, k, s)
<1>1. e \in Database /\ f \in Database
  BY DEF DbOK, Database, Written, Copied
<1>2. /\ e.sess = [d.sess EXCEPT ![k] = s]
      /\ e.sessHidden = d.sessHidden
      /\ f.sess = [d.sess EXCEPT ![k] = s]
      /\ f.sessHidden = [d.sessHidden EXCEPT ![k] = @ \cup {s}]
  BY DEF DbOK, Database, Written, Copied
<1>3. s # NoSession
  BY ConstantsAssumption
<1>4. d.sess \in [Keys -> Session \cup {NoSession}]
      /\ d.sessHidden \in [Keys -> SUBSET Session]
  BY DEF DbOK, Database
<1>5. DbOK(e)
  <2>1. \A j \in Keys : e.sess[j] = NoSession => e.sessHidden[j] = {}
    BY <1>2, <1>3, <1>4 DEF DbOK
  <2> HIDE DEF e
  <2> QED BY <1>1, <2>1 DEF DbOK
<1>6. DbOK(f)
  <2>1. \A j \in Keys : f.sess[j] = NoSession => f.sessHidden[j] = {}
    BY <1>2, <1>3, <1>4 DEF DbOK
  <2> HIDE DEF f
  <2> QED BY <1>1, <2>1 DEF DbOK
<1> QED BY <1>2, <1>5, <1>6

\* A store leaves the database as it was, or with s written, up to drift.
Stored(d, k, s, x) ==
    \/ Drift(d, x)
    \/ Drift(Written(d, k, s), x)
    \/ d.sess[k] # NoSession /\ Drift(Copied(d, k, s), x)

LEMMA PutSessionStores ==
    ASSUME NEW d, DbOK(d), NEW k \in Keys, NEW s \in Session,
           NEW r \in PutSession(d, k, s)
    PROVE  DbOK(r.db) /\ Stored(d, k, s, r.db)
<1> DEFINE e == Written(d, k, s)
           f == Copied(d, k, s)
<1>1. DbOK(e) /\ DbOK(f)
  BY WrittenOK
<1>2. r \in Commit(d, e, e) \/ (d.sess[k] # NoSession /\ r \in Commit(d, e, f))
  BY DEF PutSession, Written, Copied
<1>3. ASSUME NEW x, r \in Commit(d, e, x)
      PROVE  r.db = d \/ r.db = e \/ r.db \in Resurfaced(x)
  <2>1. CASE r \in {[db |-> y, ok |-> TRUE] :
                      y \in IF StoreMayRevert THEN Resurfaced(x) ELSE {e}}
    BY <2>1
  <2>2. CASE r \in {[db |-> y, ok |-> FALSE] :
                      y \in IF StoreMayFail THEN {d, e} ELSE {}}
    BY <2>2
  <2> QED BY <1>3, <2>1, <2>2 DEF Commit
<1>4. \/ r.db = d \/ r.db = e \/ r.db \in Resurfaced(e)
      \/ d.sess[k] # NoSession /\ r.db \in Resurfaced(f)
  BY <1>2, <1>3
<1> QED BY <1>1, <1>4, ResurfacedDrifts, DriftReflexive DEF Stored

LEMMA RegisterDrifts ==
    ASSUME NEW d, DbOK(d), NEW e, DbOK(e), NEW k \in Keys,
           d.incnt[Hash[k]] < GroupMax, NEW r \in Register(d, e, k)
    PROVE  DbOK(r.db) /\ Drift(e, r.db)
<1> DEFINE g == Hash[k]
           n == d.incnt[g] + 1
           c == [d.incnt EXCEPT ![g] = n]
           l == [d.list[g] EXCEPT ![n] = k]
<1>1. g \in Groups
  BY ConstantsAssumption
<1>2. n \in Slots /\ c \in Counts
  BY <1>1, ConstantsAssumption DEF DbOK, Database, Counts, Slots
<1>3. l \in KeyList
  BY <1>1, <1>2 DEF DbOK, Database, KeyList
<1>4. \/ r \in PutCounts(e, c)
      \/ \E x \in PutCounts(e, c) : r \in PutList(x.db, g, l)
  BY DEF Register
<1>5. CASE r \in PutCounts(e, c)
  BY <1>2, <1>5, PutCountsDrifts
<1>6. CASE \E x \in PutCounts(e, c) : r \in PutList(x.db, g, l)
  <2>1. PICK x \in PutCounts(e, c) : r \in PutList(x.db, g, l)
    BY <1>6
  <2>2. DbOK(x.db) /\ Drift(e, x.db)
    BY <1>2, PutCountsDrifts
  <2>3. DbOK(r.db) /\ Drift(x.db, r.db)
    BY <1>1, <1>3, <2>1, <2>2, PutListDrifts
  <2> QED BY <2>2, <2>3, DriftTransitive
<1> QED BY <1>4, <1>5, <1>6

LEMMA InsertSessionStores ==
    ASSUME NEW d, DbOK(d), NEW k \in Keys, NEW s \in Session,
           NEW r \in InsertSession(d, k, s)
    PROVE  DbOK(r.db) /\ Stored(d, k, s, r.db)
<1>1. CASE d.incnt[Hash[k]] >= GroupMax
  BY <1>1, DriftReflexive DEF InsertSession, Stored
<1>2. CASE ~(d.incnt[Hash[k]] >= GroupMax)
  <2>1. PICK x \in PutSession(d, k, s) : r = x \/ r \in Register(d, x.db, k)
    BY <1>2 DEF InsertSession
  <2>2. DbOK(x.db) /\ Stored(d, k, s, x.db)
    BY PutSessionStores
  <2>3. d.incnt[Hash[k]] < GroupMax
    BY <1>2, ConstantsAssumption DEF DbOK, Database, Counts
  <2>4. r = x \/ (DbOK(r.db) /\ Drift(x.db, r.db))
    BY <2>1, <2>2, <2>3, RegisterDrifts
  <2> QED BY <2>2, <2>4, DriftTransitive DEF Stored
<1> QED BY <1>1, <1>2

-----------------------------------------------------------------------------
(* What holds of all the records of a key, the hidden ones included.        *)
Matches(s) ==
    /\ s.state = Up => s.remoteState \in {Init_, Up}
    /\ s.state = Init_ => s.remoteState = Down
    /\ s.attached => s.local # NoDiscr

RecordsOK(d) ==
    \A j \in Keys :
        /\ d.sess[j] # NoSession => Matches(d.sess[j])
        /\ \A t \in d.sessHidden[j] :
              /\ Matches(t) /\ t.attached /\ d.sess[j].attached
              /\ t.local = d.sess[j].local

Att(d, j) == d.sess[j] # NoSession /\ d.sess[j].attached

(* From d to e the session of j kept whether, and under which discriminator,*)
(* it is attached.                                                          *)
SameAt(d, e, j) ==
    /\ d.sess[j] = NoSession <=> e.sess[j] = NoSession
    /\ Att(d, j) <=> Att(e, j)
    /\ Att(d, j) => e.sess[j].local = d.sess[j].local

LEMMA DriftKeeps ==
    ASSUME NEW d, DbOK(d), RecordsOK(d), NEW e, DbOK(e), Drift(d, e)
    PROVE  RecordsOK(e) /\ \A j \in Keys : SameAt(d, e, j)
<1> SUFFICES ASSUME NEW j \in Keys
             PROVE  /\ e.sess[j] # NoSession => Matches(e.sess[j])
                    /\ \A t \in e.sessHidden[j] :
                          /\ Matches(t) /\ t.attached /\ e.sess[j].attached
                          /\ t.local = e.sess[j].local
                    /\ SameAt(d, e, j)
  BY DEF RecordsOK
<1>1. /\ e.sess[j] \in {d.sess[j]} \cup d.sessHidden[j]
      /\ e.sessHidden[j] \subseteq {d.sess[j]} \cup d.sessHidden[j]
      /\ d.sessHidden[j] = {} => e.sessHidden[j] = {}
  BY DEF Drift
<1>2. /\ d.sess[j] # NoSession => Matches(d.sess[j])
      /\ \A t \in d.sessHidden[j] :
            /\ Matches(t) /\ t.attached /\ d.sess[j].attached
            /\ t.local = d.sess[j].local
  BY DEF RecordsOK
<1>3. /\ d.sess[j] = NoSession => d.sessHidden[j] = {}
      /\ NoSession \notin d.sessHidden[j]
  BY ConstantsAssumption DEF DbOK, Database
<1>4. CASE d.sessHidden[j] = {}
  BY <1>1, <1>2, <1>4 DEF SameAt, Att
<1>5. CASE d.sessHidden[j] # {}
  <2>1. d.sess[j] # NoSession /\ d.sess[j].attached
    BY <1>2, <1>3, <1>5
  <2>2. \A t \in {d.sess[j]} \cup d.sessHidden[j] :
           /\ t # NoSession /\ Matches(t) /\ t.attached
           /\ t.local = d.sess[j].local
    BY <1>2, <1>3, <2>1
  <2> QED BY <1>1, <2>1, <2>2 DEF SameAt, Att
<1> QED BY <1>4, <1>5

(* What may be stored over the session of k: a record that matches, and     *)
(* never one that detaches or renames an attached session.                  *)
Writable(d, k, s) ==
    /\ Matches(s)
    /\ d.sess[k] # NoSession =>
          s.attached /\ (d.sess[k].attached => s.local = d.sess[k].local)

\* The session of k is attached in e as s is.
AsIn(e, k, s) ==
    /\ e.sess[k] # NoSession
    /\ e.sess[k].attached = s.attached
    /\ s.attached => e.sess[k].local = s.local

\* What a store of s for k does to the attachment of every session.
Effect(d, k, s, e) ==
    /\ \A j \in Keys \ {k} : SameAt(d, e, j)
    /\ SameAt(d, e, k) \/ AsIn(e, k, s)

LEMMA WriteKeeps ==
    ASSUME NEW d, DbOK(d), RecordsOK(d), NEW k \in Keys, NEW s \in Session,
           Writable(d, k, s)
    PROVE  /\ RecordsOK(Written(d, k, s))
           /\ Effect(d, k, s, Written(d, k, s))
           /\ d.sess[k] # NoSession =>
                 RecordsOK(Copied(d, k, s)) /\ Effect(d, k, s, Copied(d, k, s))
<1>1. /\ s # NoSession
      /\ d.sess \in [Keys -> Session \cup {NoSession}]
      /\ d.sessHidden \in [Keys -> SUBSET Session]
  BY ConstantsAssumption DEF DbOK, Database
<1>2. ASSUME NEW e, e.sess = [d.sess EXCEPT ![k] = s],
             e.sessHidden = d.sessHidden
      PROVE  RecordsOK(e) /\ Effect(d, k, s, e)
  <2>1. RecordsOK(e)
    BY <1>1, <1>2 DEF RecordsOK, Writable, DbOK
  <2>2. Effect(d, k, s, e)
    BY <1>1, <1>2 DEF Effect, SameAt, AsIn, Att
  <2> QED BY <2>1, <2>2
<1>3. ASSUME NEW f, f.sess = [d.sess EXCEPT ![k] = s],
             f.sessHidden = [d.sessHidden EXCEPT ![k] = @ \cup {s}],
             d.sess[k] # NoSession
      PROVE  RecordsOK(f) /\ Effect(d, k, s, f)
  <2>1. RecordsOK(f)
    BY <1>1, <1>3 DEF RecordsOK, Writable
  <2>2. Effect(d, k, s, f)
    BY <1>1, <1>3 DEF Effect, SameAt, AsIn, Att
  <2> QED BY <2>1, <2>2
<1> QED BY <1>2, <1>3, WrittenOK

LEMMA InsertSessionKeeps ==
    ASSUME NEW d, DbOK(d), RecordsOK(d), NEW k \in Keys, NEW s \in Session,
           Writable(d, k, s), NEW r \in InsertSession(d, k, s)
    PROVE  DbOK(r.db) /\ RecordsOK(r.db) /\ Effect(d, k, s, r.db)
<1>1. DbOK(r.db) /\ Stored(d, k, s, r.db)
  BY InsertSessionStores
<1>2. CASE Drift(d, r.db)
  BY <1>1, <1>2, DriftKeeps DEF Effect
<1>3. ASSUME NEW e, DbOK(e), RecordsOK(e), Effect(d, k, s, e), Drift(e, r.db)
      PROVE  RecordsOK(r.db) /\ Effect(d, k, s, r.db)
  <2>1. RecordsOK(r.db) /\ \A j \in Keys : SameAt(e, r.db, j)
    BY <1>1, <1>3, DriftKeeps
  <2>2. \A j \in Keys \ {k} : SameAt(d, r.db, j)
    BY <1>3, <2>1 DEF Effect, SameAt
  <2>3. CASE SameAt(d, e, k)
    BY <2>1, <2>2, <2>3 DEF Effect, SameAt
  <2>4. CASE AsIn(e, k, s)
    <3>1. SameAt(e, r.db, k)
      BY <2>1
    <3>2. r.db.sess[k] \in Session /\ e.sess[k] \in Session
      BY <1>1, <1>3, <2>4, <3>1 DEF DbOK, Database, SameAt, AsIn
    <3>3. AsIn(r.db, k, s)
      BY <2>4, <3>1, <3>2 DEF SameAt, AsIn, Att, Session
    <3> QED BY <2>1, <2>2, <3>3 DEF Effect
  <2> QED BY <1>3, <2>3, <2>4 DEF Effect
<1>4. CASE Drift(Written(d, k, s), r.db)
  <2>1. /\ DbOK(Written(d, k, s)) /\ RecordsOK(Written(d, k, s))
        /\ Effect(d, k, s, Written(d, k, s))
    BY WriteKeeps, WrittenOK
  <2> QED BY <1>1, <1>3, <1>4, <2>1
<1>5. CASE d.sess[k] # NoSession /\ Drift(Copied(d, k, s), r.db)
  <2>1. /\ DbOK(Copied(d, k, s)) /\ RecordsOK(Copied(d, k, s))
        /\ Effect(d, k, s, Copied(d, k, s))
    BY <1>5, WriteKeeps, WrittenOK
  <2> QED BY <1>1, <1>3, <1>5, <2>1
<1> QED BY <1>1, <1>2, <1>4, <1>5 DEF Stored

-----------------------------------------------------------------------------
(* The handlers.                                                            *)
LEMMA NextStateOK ==
    ASSUME NEW s \in SessionStates, NEW r \in RemoteStates
    PROVE  /\ NextState(s, r) \in SessionStates
           /\ NextState(s, r) = Up => r \in {Init_, Up}
           /\ NextState(s, r) = Init_ => r = Down
  BY DEF NextState, SessionStates, RemoteStates, AdminDown, Down, Init_, Up

(* Whatever packet there is, though the runs of Bfdd let only some in: the  *)
(* sender may also use the discriminators that it learned from the daemon.  *)
Receivable == Packets(Discrs, Discrs, BOOLEAN, {FALSE})

\* A step of the loop, whatever packet it receives.
LoopStep ==
    \/ \E k \in Keys, pkt \in Receivable : RecvBfdEvent(k, pkt)
    \/ SendBfdEvent
    \/ Restart

LEMMA NextIsLoopStep == Next => LoopStep
<1>1. Inputs \subseteq Receivable
  BY ConstantsAssumption DEF Inputs, Receivable, Packets, Discrs
<1> QED BY <1>1 DEF Next, LoopStep

LEMMA InputFields ==
    ASSUME NEW pkt \in Receivable, Acceptable(pkt)
    PROVE  /\ pkt.state \in RemoteStates /\ pkt.poll \in BOOLEAN
           /\ pkt.my \in Discrs /\ pkt.your \in Discrs
<1>1. pkt.wellFormed
  BY DEF Acceptable
<1>2. pkt \in [wellFormed : {TRUE}, state : RemoteStates, poll : BOOLEAN,
               final : {FALSE}, my : Discrs, your : Discrs]
  <2> DEFINE junk == [wellFormed |-> FALSE, state |-> Up, poll |-> FALSE,
                      final |-> FALSE, my |-> NoDiscr, your |-> NoDiscr]
  <2>1. junk.wellFormed = FALSE
    OBVIOUS
  <2>2. pkt # junk
    BY <1>1, <2>1
  <2> QED BY <2>2 DEF Receivable, Packets
<1> QED BY <1>2, ConstantsAssumption DEF Discrs

LEMMA UpdatedOK ==
    ASSUME NEW s \in Session, Matches(s), NEW pkt \in Receivable, Acceptable(pkt),
           NEW discr \in LocalDiscrs
    PROVE  LET t == Updated(s, pkt, discr)
           IN /\ t \in Session /\ Matches(t) /\ t.attached
              /\ t.local = IF s.attached THEN s.local ELSE discr
<1> DEFINE t == Updated(s, pkt, discr)
<1>1. /\ pkt.state \in RemoteStates /\ pkt.poll \in BOOLEAN
      /\ pkt.my \in Discrs
  BY InputFields
<1>2. /\ s.state \in SessionStates /\ s.local \in Discrs
      /\ s.pollbit \in BOOLEAN /\ s.attached \in BOOLEAN
  BY DEF Session
<1>3. /\ t.state = NextState(s.state, pkt.state) /\ t.remoteState = pkt.state
      /\ t.attached = TRUE
      /\ t.local = IF s.attached THEN s.local ELSE discr
  BY DEF Updated
<1>4. discr \in Discrs /\ discr # NoDiscr
  BY DEF Discrs, LocalDiscrs, NoDiscr
<1>5. t \in Session
  BY <1>1, <1>2, <1>4, NextStateOK DEF Updated, Session
<1>6. Matches(t)
  BY <1>1, <1>2, <1>3, <1>4, NextStateOK DEF Matches
<1> QED BY <1>3, <1>5, <1>6

LEMMA InitSessionOK ==
    /\ InitSession \in Session /\ Matches(InitSession)
    /\ ~InitSession.attached
    /\ \A pkt \in Receivable : Acceptable(pkt) =>
          /\ Adopted(pkt) \in Session /\ Matches(Adopted(pkt))
          /\ ~Adopted(pkt).attached
<1>1. NoDiscr \in Discrs
  BY DEF Discrs
<1>2. InitSession \in Session /\ Matches(InitSession) /\ ~InitSession.attached
  BY <1>1 DEF InitSession, Session, Matches, SessionStates, RemoteStates,
              Down, Init_, Up, AdminDown
<1>3. ASSUME NEW pkt \in Receivable, Acceptable(pkt)
      PROVE  /\ Adopted(pkt) \in Session /\ Matches(Adopted(pkt))
             /\ ~Adopted(pkt).attached
  <2>1. pkt.my \in Discrs /\ pkt.your \in Discrs
    BY <1>3, InputFields
  <2>2. Adopted(pkt) \in Session
    BY <1>2, <2>1 DEF Adopted, Session
  <2>3. /\ InitSession.state = Down /\ InitSession.remoteState = Down
        /\ InitSession.attached = FALSE
    BY DEF InitSession
  <2>4. /\ Adopted(pkt).state = Down /\ Adopted(pkt).remoteState = Down
        /\ Adopted(pkt).attached = FALSE
    BY <1>2, <2>3 DEF Adopted, Session
  <2>5. Matches(Adopted(pkt))
    BY <2>4 DEF Matches, Down, Init_, Up
  <2> QED BY <2>2, <2>4, <2>5
<1> QED BY <1>2, <1>3

\* The discriminators in use were handed out, each to one session.
Unique(d, c) ==
    \A j \in Keys : Att(d, j) =>
        /\ d.sess[j].local \in 1 .. c
        /\ \A i \in Keys \ {j} : Att(d, i) => d.sess[i].local # d.sess[j].local

\* From d to e no session is lost, detached or renamed.
AttKept(d, e) ==
    \A j \in Keys : Att(d, j) => Att(e, j) /\ e.sess[j].local = d.sess[j].local

Speaks(S, c, w) ==
    \A p \in S : p \in OutPackets /\ p.my # NoDiscr /\ (~w => p.my \in 1 .. c)

LEMMA TransmitSpeaks ==
    ASSUME NEW k \in Keys, NEW s \in Session, Matches(s), NEW c, NEW w,
           s.attached /\ ~w => s.local \in 1 .. c
    PROVE  Speaks(Transmit(k, s), c, w)
<1> SUFFICES ASSUME NEW p \in Transmit(k, s)
             PROVE  p \in OutPackets /\ p.my # NoDiscr /\ (~w => p.my \in 1 .. c)
  BY DEF Speaks
<1>1. /\ s.attached
      /\ p = [to |-> k[1], state |-> AnnouncedState(s), final |-> s.pollbit,
             my |-> s.local, your |-> s.remote]
  BY DEF Transmit
<1>2. k[1] \in Addrs
  BY DEF Keys
<1>3. AnnouncedState(s) \in SessionStates
  BY DEF AnnouncedState, Session, SessionStates
<1>4. p \in OutPackets
  BY <1>1, <1>2, <1>3 DEF OutPackets, Session
<1>5. p.my = s.local /\ s.local # NoDiscr
  BY <1>1 DEF Matches
<1> QED BY <1>1, <1>4, <1>5

Ready(d) ==
    DbOK(d) /\ RecordsOK(d) /\ (~wrapped => Unique(d, incr))

IInv == TypeOK /\ Ready(db)

LEMMA EffectKeeps ==
    ASSUME NEW d, NEW e, NEW k \in Keys, NEW s, Effect(d, k, s, e),
           Att(d, k) => s.attached /\ s.local = d.sess[k].local
    PROVE  AttKept(d, e)
  BY DEF Effect, AttKept, SameAt, AsIn, Att

(* The common end of a handler: updating the session of k found in d.       *)
LEMMA AdvanceKeeps ==
    ASSUME incr \in 0 .. DiscrLimit, wrapped \in BOOLEAN,
           NEW d, Ready(d), NEW k \in Keys, d.sess[k] # NoSession,
           NEW pkt \in Receivable, Acceptable(pkt), NEW stored, Advance(d, k, pkt, stored)
    PROVE  /\ Ready(db)' /\ AttKept(d, db')
           /\ incr' \in 0 .. DiscrLimit
           /\ wrapped' \in BOOLEAN /\ failed' \in BOOLEAN
           /\ Speaks(out', incr', wrapped')
<1> DEFINE s == d.sess[k]
           t == Updated(s, pkt, Discr)
<1>1. /\ s \in Session /\ Matches(s) /\ s.attached \in BOOLEAN
      /\ DbOK(d) /\ RecordsOK(d)
  BY DEF Ready, DbOK, RecordsOK, Database, Session
<1>2. Discr \in LocalDiscrs /\ Discr = incr + 1 /\ Discr \in Int
  BY ConstantsAssumption DEF Discr, LocalDiscrs
<1>3. /\ t \in Session /\ Matches(t) /\ t.attached
      /\ t.local = IF s.attached THEN s.local ELSE Discr
  BY <1>1, <1>2, UpdatedOK
<1>4. Writable(d, k, t)
  BY <1>3 DEF Writable
<1>5. PICK r \in InsertSession(d, k, t) :
         db' = r.db /\ failed' = (failed \/ ~stored \/ ~r.ok)
  BY DEF Advance
<1>6. DbOK(db') /\ RecordsOK(db') /\ Effect(d, k, t, db')
  BY <1>1, <1>3, <1>4, <1>5, InsertSessionKeeps
<1>7. AttKept(d, db')
  BY <1>3, <1>6, EffectKeeps DEF Att
<1>8. /\ incr' = CounterAfter(s)
      /\ wrapped' = (wrapped \/ (~s.attached /\ Discr > DiscrLimit))
      /\ Answer(k, t, pkt)
  BY DEF Advance
<1>9. incr' \in 0 .. DiscrLimit /\ wrapped' \in BOOLEAN
  BY <1>2, <1>8, ConstantsAssumption DEF CounterAfter
<1>10. ASSUME ~wrapped'
       PROVE  /\ Unique(d, incr)
              /\ s.attached => incr' = incr /\ t.local \in 1 .. incr
              /\ ~s.attached => incr' = incr + 1 /\ t.local = incr + 1
  <2>1. ~wrapped /\ (~s.attached => ~(Discr > DiscrLimit))
    BY <1>8, <1>10
  <2>2. Unique(d, incr)
    BY <2>1 DEF Ready
  <2>3. s.attached => t.local \in 1 .. incr
    BY <1>3, <2>2 DEF Unique, Att
  <2> QED BY <1>2, <1>3, <1>8, <2>1, <2>2, <2>3 DEF CounterAfter
<1>11. ~wrapped' => Unique(db', incr')
  <2>1. SUFFICES ASSUME ~wrapped', NEW j \in Keys, Att(db', j)
                 PROVE  /\ db'.sess[j].local \in 1 .. incr'
                        /\ \A i \in Keys \ {j} :
                              Att(db', i) => db'.sess[i].local # db'.sess[j].local
    BY DEF Unique
  <2>2. \A i \in Keys \ {k} : Att(db', i) =>
           Att(d, i) /\ db'.sess[i].local = d.sess[i].local
    BY <1>6 DEF Effect, SameAt
  <2>3. Att(db', k) => \/ Att(d, k) /\ db'.sess[k].local = d.sess[k].local
                      \/ db'.sess[k].local = t.local
    BY <1>3, <1>6 DEF Effect, SameAt, AsIn
  <2>4. /\ Unique(d, incr)
        /\ s.attached => incr' = incr /\ t.local = d.sess[k].local
        /\ ~s.attached => incr' = incr + 1 /\ t.local = incr + 1 /\ ~Att(d, k)
    BY <1>3, <1>10, <2>1 DEF Att
  <2>5. CASE s.attached
    <3>1. Att(db', k) => Att(d, k) /\ db'.sess[k].local = d.sess[k].local
      BY <2>3, <2>4, <2>5 DEF Att
    <3>2. \A i \in Keys : Att(db', i) =>
             Att(d, i) /\ db'.sess[i].local = d.sess[i].local
      BY <2>2, <3>1
    <3> QED BY <2>1, <2>4, <2>5, <3>2 DEF Unique
  <2>6. CASE ~s.attached
    <3>1. \A i \in Keys \ {k} : Att(db', i) =>
             db'.sess[i].local \in 1 .. incr /\ db'.sess[i].local = d.sess[i].local
      BY <2>2, <2>4 DEF Unique
    <3>2. Att(db', k) => db'.sess[k].local = incr + 1
      BY <2>3, <2>4, <2>6
    <3>3. db'.sess[j].local \in 1 .. incr'
      BY <2>1, <2>4, <2>6, <3>1, <3>2
    <3>4. ASSUME NEW i \in Keys \ {j}, Att(db', i)
          PROVE  db'.sess[i].local # db'.sess[j].local
      <4>1. CASE i = k \/ j = k
        BY <2>1, <3>1, <3>2, <3>4, <4>1
      <4>2. CASE i # k /\ j # k
        BY <2>1, <2>2, <2>4, <3>4, <4>2 DEF Unique
      <4> QED BY <4>1, <4>2
    <3> QED BY <3>3, <3>4
  <2> QED BY <2>5, <2>6
<1>12. Speaks(out', incr', wrapped')
  <2>1. ~wrapped' => t.local \in 1 .. incr'
    BY <1>1, <1>10
  <2>2. Speaks(Transmit(k, t), incr', wrapped')
    BY <1>3, <2>1, TransmitSpeaks
  <2> QED BY <1>8, <2>2 DEF Answer, Speaks
<1>13. failed' \in BOOLEAN
  BY <1>5
<1> QED BY <1>6, <1>7, <1>9, <1>11, <1>12, <1>13 DEF Ready

LEMMA EmptyOK ==
    /\ DbOK(EmptyDatabase) /\ RecordsOK(EmptyDatabase)
    /\ Unique(EmptyDatabase, 0)
    /\ 0 \in 0 .. DiscrLimit
<1>1. EmptyDatabase \in Database
  BY ConstantsAssumption DEF EmptyDatabase, Database, Counts, KeyList, Groups
<1>2. \A j \in Keys : /\ EmptyDatabase.sess[j] = NoSession
                     /\ EmptyDatabase.sessHidden[j] = {}
  BY DEF EmptyDatabase
<1> QED BY <1>1, <1>2, ConstantsAssumption DEF DbOK, RecordsOK, Unique, Att

LEMMA AdoptKeeps ==
    ASSUME IInv, NEW k \in Keys, NEW pkt \in Receivable, Adopt(k, pkt)
    PROVE  Ready(db)' /\ AttKept(db, db') /\ out' = {}
           /\ incr' = incr /\ wrapped' = wrapped /\ failed' \in BOOLEAN
<1>1. PICK r \in InsertSession(db, k, Adopted(pkt)) :
         db' = r.db /\ failed' = (failed \/ ~r.ok)
  BY DEF Adopt
<1>2. /\ Adopted(pkt) \in Session /\ Writable(db, k, Adopted(pkt))
      /\ ~Adopted(pkt).attached
  BY InitSessionOK DEF Adopt, Writable
<1>3. DbOK(db') /\ RecordsOK(db') /\ Effect(db, k, Adopted(pkt), db')
  BY <1>1, <1>2, InsertSessionKeeps DEF IInv, Ready
<1>4. AttKept(db, db')
  BY <1>3, EffectKeeps DEF Att, Adopt
<1>5. \A j \in Keys : Att(db', j) =>
         Att(db, j) /\ db'.sess[j].local = db.sess[j].local
  BY <1>2, <1>3 DEF Effect, SameAt, AsIn, Att
<1>6. Unique(db, incr) => Unique(db', incr)
  BY <1>5 DEF Unique
<1>7. incr' = incr /\ wrapped' = wrapped /\ out' = {}
  BY DEF Adopt, Silent
<1>8. failed' \in BOOLEAN
  BY <1>1
<1> QED BY <1>3, <1>4, <1>6, <1>7, <1>8 DEF IInv, Ready

LEMMA AdmitKeeps ==
    ASSUME IInv, NEW k \in Keys, NEW pkt \in Receivable, Admit(k, pkt)
    PROVE  /\ Ready(db)' /\ AttKept(db, db')
           /\ incr' \in 0 .. DiscrLimit
           /\ wrapped' \in BOOLEAN /\ failed' \in BOOLEAN
           /\ Speaks(out', incr', wrapped')
<1>1. PICK r \in InsertSession(db, k, InitSession) :
         \/ r.db.sess[k] # NoSession /\ Advance(r.db, k, pkt, r.ok)
         \/ /\ db' = r.db /\ out' = {} /\ UNCHANGED <<incr, wrapped>>
            /\ failed' = (failed \/ ~r.ok)
  BY DEF Admit, Silent
<1>2. Acceptable(pkt) /\ db.sess[k] = NoSession
  BY DEF Admit
<1>3. Writable(db, k, InitSession)
  BY <1>2, InitSessionOK DEF Writable
<1>4. /\ DbOK(r.db) /\ RecordsOK(r.db) /\ Effect(db, k, InitSession, r.db)
  BY <1>3, InitSessionOK, InsertSessionKeeps DEF IInv, Ready
<1>5. AttKept(db, r.db)
  BY <1>2, <1>4, EffectKeeps DEF Att
<1>6. \A j \in Keys : Att(r.db, j) =>
         Att(db, j) /\ r.db.sess[j].local = db.sess[j].local
  BY <1>4, InitSessionOK DEF Effect, SameAt, AsIn, Att
<1>7. Unique(db, incr) => Unique(r.db, incr)
  BY <1>6 DEF Unique
<1>8. Ready(r.db)
  BY <1>4, <1>7 DEF IInv, Ready
<1>9. incr \in 0 .. DiscrLimit /\ wrapped \in BOOLEAN /\ failed \in BOOLEAN
  BY DEF IInv, TypeOK
<1>10. CASE r.db.sess[k] # NoSession /\ Advance(r.db, k, pkt, r.ok)
  <2>1. /\ Ready(db)' /\ AttKept(r.db, db')
        /\ incr' \in 0 .. DiscrLimit
        /\ wrapped' \in BOOLEAN /\ failed' \in BOOLEAN
        /\ Speaks(out', incr', wrapped')
    BY <1>2, <1>8, <1>9, <1>10, AdvanceKeeps
  <2>2. AttKept(db, db')
    BY <1>5, <2>1 DEF AttKept
  <2> QED BY <2>1, <2>2
<1>11. CASE /\ db' = r.db /\ out' = {} /\ UNCHANGED <<incr, wrapped>>
            /\ failed' = (failed \/ ~r.ok)
  BY <1>5, <1>8, <1>9, <1>11 DEF Ready, Speaks
<1> QED BY <1>1, <1>10, <1>11

LEMMA RecvKeeps ==
    ASSUME IInv, NEW k \in Keys, NEW pkt \in Receivable, RecvBfdEvent(k, pkt)
    PROVE  /\ Ready(db)' /\ AttKept(db, db')
           /\ incr' \in 0 .. DiscrLimit
           /\ wrapped' \in BOOLEAN /\ failed' \in BOOLEAN
           /\ Speaks(out', incr', wrapped')
<1>1. incr \in 0 .. DiscrLimit /\ wrapped \in BOOLEAN /\ failed \in BOOLEAN /\ Ready(db)
  BY DEF IInv, TypeOK
<1>2. CASE Discard(k, pkt)
  BY <1>1, <1>2 DEF Discard, Silent, Ready, AttKept, Speaks
<1>3. CASE Adopt(k, pkt)
  BY <1>1, <1>3, AdoptKeeps DEF Speaks
<1>4. CASE Admit(k, pkt)
  BY <1>4, AdmitKeeps
<1>5. CASE Known(k, pkt)
  BY <1>1, <1>5, AdvanceKeeps DEF Known
<1> QED BY <1>2, <1>3, <1>4, <1>5 DEF RecvBfdEvent

LEMMA SendSpeaks ==
    ASSUME IInv, SendBfdEvent
    PROVE  Speaks(out', incr', wrapped')
<1>1. ASSUME NEW p \in Visited(db)
      PROVE  Speaks(SentAt(db, p), incr, wrapped)
  <2> DEFINE k == db.list[p[1]][p[2]]
  <2>1. k = NoKey \/ k \in Keys
    BY DEF IInv, TypeOK, Database, KeyList, Visited
  <2>2. CASE k = NoKey
    BY <2>2 DEF SentAt, Speaks
  <2>3. CASE k \in Keys /\ k # NoKey /\ db.sess[k] = NoSession
    BY <2>3 DEF SentAt, Speaks
  <2>4. CASE k \in Keys /\ k # NoKey /\ db.sess[k] # NoSession
    <3>1. db.sess[k] \in Session /\ Matches(db.sess[k])
      BY <2>4 DEF IInv, Ready, DbOK, Database, RecordsOK
    <3>2. db.sess[k].attached /\ ~wrapped => db.sess[k].local \in 1 .. incr
      BY <2>4 DEF IInv, Ready, Unique, Att
    <3>3. Speaks(Transmit(k, db.sess[k]), incr, wrapped)
      BY <2>4, <3>1, <3>2, TransmitSpeaks
    <3> QED BY <2>4, <3>3 DEF SentAt
  <2> QED BY <2>1, <2>2, <2>3, <2>4
<1>2. ASSUME NEW x \in out'
      PROVE  \E p \in Visited(db) : x \in SentAt(db, p)
  <2>1. CASE out' = UNION {SentAt(db, p) : p \in Visited(db)}
    BY <1>2, <2>1
  <2>2. CASE \E f \in Visited(db) :
               out' = UNION {SentAt(db, p) : p \in {q \in Visited(db) : Before(q, f)}}
    BY <1>2, <2>2
  <2> QED BY <2>1, <2>2 DEF SendBfdEvent
<1>3. Speaks(out', incr, wrapped)
  BY <1>1, <1>2 DEF Speaks
<1> QED BY <1>3 DEF SendBfdEvent

(* What every step of the loop does, and so what is always true.            *)
LEMMA LoopKeeps ==
    ASSUME IInv, LoopStep
    PROVE  /\ IInv'
           /\ event' # "start" => AttKept(db, db')
           /\ Speaks(out', incr', wrapped')
<1>1. CASE \E k \in Keys, pkt \in Receivable : RecvBfdEvent(k, pkt)
  <2>1. PICK k \in Keys, pkt \in Receivable : RecvBfdEvent(k, pkt)
    BY <1>1
  <2>2. /\ Ready(db)' /\ AttKept(db, db')
        /\ incr' \in 0 .. DiscrLimit
        /\ wrapped' \in BOOLEAN /\ failed' \in BOOLEAN
        /\ Speaks(out', incr', wrapped')
    BY <2>1, RecvKeeps
  <2>3. event' \in Events
    BY <2>1 DEF RecvBfdEvent, Discard, Adopt, Admit, Known, Advance, Silent, Answer, Events
  <2>4. TypeOK'
    BY <2>2, <2>3 DEF TypeOK, Speaks, Ready, DbOK
  <2> QED BY <2>2, <2>4 DEF IInv
<1>2. CASE SendBfdEvent
  <2>1. Speaks(out', incr', wrapped')
    BY <1>2, SendSpeaks
  <2>2. event' \in Events /\ UNCHANGED <<db, incr, wrapped, failed>>
    BY <1>2 DEF SendBfdEvent, Events
  <2>3. TypeOK'
    BY <2>1, <2>2 DEF IInv, TypeOK, Speaks
  <2>4. Ready(db)' /\ AttKept(db, db')
    BY <2>2 DEF IInv, Ready, AttKept
  <2> QED BY <2>1, <2>3, <2>4 DEF IInv
<1>3. CASE Restart
  <2>1. /\ db' = EmptyDatabase /\ incr' = 0 /\ wrapped' = FALSE /\ failed' = FALSE
        /\ out' = {} /\ event' = "start"
    BY <1>3 DEF Restart
  <2>2. Ready(db)' /\ TypeOK'
    BY <2>1, EmptyOK DEF Ready, TypeOK, Events, DbOK
  <2> QED BY <2>1, <2>2 DEF IInv, Speaks
<1> QED BY <1>1, <1>2, <1>3 DEF LoopStep

(* The invariant the safety theorems below are read off from: the types, and *)
(* Ready, which says of every record of every key, visible or not, what the  *)
(* handlers may rely on (bfdd_event.c:23-117).                               *)
THEOREM InductiveInvariant == Spec => []IInv
<1>1. Init => IInv
  BY EmptyOK DEF Init, IInv, Ready, TypeOK, Events, DbOK
<1>2. IInv /\ [Next]_vars => IInv'
  <2>1. CASE UNCHANGED vars
    BY <2>1 DEF vars, IInv, TypeOK, Ready
  <2> QED BY <2>1, NextIsLoopStep, LoopKeeps
<1> QED BY <1>1, <1>2, PTL DEF Spec

(* Type correctness of the daemon's state, for every value of the constants. *)
THEOREM TypeCorrect == Spec => []TypeOK
<1>1. IInv => TypeOK
  BY DEF IInv
<1> QED BY <1>1, InductiveInvariant, PTL

(* Distinct sessions have distinct local discriminators until the counter   *)
(* wraps, whatever the database loses (bfdd_event.c:63-69).                 *)
THEOREM DiscriminatorsUnique == Spec => []DiscrUnique
<1>1. IInv => DiscrUnique
  BY DEF IInv, Ready, Unique, DiscrUnique, Attached, Att
<1> QED BY <1>1, InductiveInvariant, PTL

(* Every record of a session agrees with the neighbour's word in it         *)
(* (bfdd_event.c:85-109).                                                   *)
THEOREM StatesMatch == Spec => []StateMatchesLastWord
<1>1. IInv => StateMatchesLastWord
  BY DEF IInv, Ready, RecordsOK, Matches, StateMatchesLastWord, Copies
<1> QED BY <1>1, InductiveInvariant, PTL

(* The daemon speaks only under discriminators it handed out                *)
(* (bfdd_event.c:154-156).                                                  *)
THEOREM SpeaksOnlyOwn == Spec => SpeaksOwnDiscr
<1>1. IInv /\ [Next]_vars =>
        [\A p \in out' : p.my # NoDiscr /\ (~wrapped' => p.my \in 1 .. incr')]_vars
  BY NextIsLoopStep, LoopKeeps DEF Speaks
<1> QED BY <1>1, InductiveInvariant, PTL DEF Spec, SpeaksOwnDiscr

(* Between restarts no session is lost, detached or renamed                 *)
(* (bfdd_event.c:63-69, bfdd_session.c:160).                                *)
THEOREM AttachmentsStable == Spec => AttachmentStable
<1>1. IInv /\ [Next]_vars =>
        [event' # "start" =>
           \A k \in Keys : Attached(k) =>
              /\ db'.sess[k] # NoSession
              /\ db'.sess[k].attached
              /\ db'.sess[k].local = db.sess[k].local]_vars
  BY NextIsLoopStep, LoopKeeps DEF AttKept, Att, Attached
<1> QED BY <1>1, InductiveInvariant, PTL DEF Spec, AttachmentStable

-----------------------------------------------------------------------------
(* With a database that answers with what it stored last.                   *)
DirSound(d) ==
    \A g \in Groups, n \in Slots : d.list[g][n] # NoKey =>
        /\ n <= d.incnt[g]
        /\ Hash[d.list[g][n]] = g
        /\ d.sess[d.list[g][n]] # NoSession
        /\ \A m \in Slots : d.list[g][m] = d.list[g][n] => m = n

LEMMA CommitExact ==
    ASSUME StoreMayRevert = FALSE, NEW d, NEW e, NEW f, NEW r \in Commit(d, e, f)
    PROVE  r.db = d \/ r.db = e
<1>1. CASE r \in {[db |-> x, ok |-> TRUE] :
                  x \in IF StoreMayRevert THEN Resurfaced(f) ELSE {e}}
  BY <1>1
<1>2. CASE r \in {[db |-> x, ok |-> FALSE] : x \in IF StoreMayFail THEN {d, e} ELSE {}}
  BY <1>2
<1> QED BY <1>1, <1>2 DEF Commit

LEMMA CommitDone ==
    ASSUME StoreMayRevert = FALSE, NEW d, NEW e, NEW f, NEW r \in Commit(d, e, f),
           r.ok
    PROVE  r.db = e
<1>1. CASE r \in {[db |-> x, ok |-> TRUE] :
                  x \in IF StoreMayRevert THEN Resurfaced(f) ELSE {e}}
  BY <1>1
<1>2. CASE r \in {[db |-> x, ok |-> FALSE] : x \in IF StoreMayFail THEN {d, e} ELSE {}}
  BY <1>2
<1> QED BY <1>1, <1>2 DEF Commit

SessExact(d, k, s, x) == x.sess = d.sess \/ x.sess = [d.sess EXCEPT ![k] = s]

SameDirectory(d, x) == x.incnt = d.incnt /\ x.list = d.list

\* What Register can leave of the directory: nothing new, the count, or the
\* count and the key.
Registered(d, k, x) ==
    LET g == Hash[k]
        n == d.incnt[g] + 1
    IN /\ x.incnt = d.incnt \/ x.incnt = [d.incnt EXCEPT ![g] = n]
       /\ \/ x.list = d.list
          \/ /\ x.incnt = [d.incnt EXCEPT ![g] = n]
             /\ x.list = [d.list EXCEPT ![g] = [@ EXCEPT ![n] = k]]

LEMMA PutSessionExact ==
    ASSUME StoreMayRevert = FALSE, NEW d, DbOK(d), NEW k \in Keys,
           NEW s \in Session, NEW r \in PutSession(d, k, s)
    PROVE  SessExact(d, k, s, r.db) /\ SameDirectory(d, r.db)
<1>1. r.db = d \/ r.db = Written(d, k, s)
  BY CommitExact DEF PutSession, Written
<1>2. /\ Written(d, k, s).sess = [d.sess EXCEPT ![k] = s]
      /\ Written(d, k, s).incnt = d.incnt /\ Written(d, k, s).list = d.list
  BY DEF Written, DbOK, Database
<1> QED BY <1>1, <1>2 DEF SessExact, SameDirectory

LEMMA PutSessionPresent ==
    ASSUME StoreMayRevert = FALSE, NEW d, DbOK(d), NEW k \in Keys,
           NEW s \in Session, NEW r \in PutSession(d, k, s), r.ok
    PROVE  r.db.sess[k] # NoSession
<1>1. r.db = Written(d, k, s)
  BY CommitDone DEF PutSession, Written
<1>2. Written(d, k, s).sess[k] = s
  BY DEF Written, DbOK, Database
<1> QED BY <1>1, <1>2, ConstantsAssumption

LEMMA RegisterExact ==
    ASSUME StoreMayRevert = FALSE, NEW d, DbOK(d), NEW e, DbOK(e),
           NEW k \in Keys, NEW r \in Register(d, e, k),
           SameDirectory(d, e)
    PROVE  r.db.sess = e.sess /\ Registered(d, k, r.db)
<1> DEFINE g == Hash[k]
           n == d.incnt[g] + 1
           c == [d.incnt EXCEPT ![g] = n]
           l == [d.list[g] EXCEPT ![n] = k]
           counted == [e EXCEPT !.incnt = c]
<1>0. e.incnt = d.incnt /\ e.list = d.list
  BY DEF SameDirectory
<1>1. /\ counted.sess = e.sess /\ counted.incnt = c /\ counted.list = d.list
  BY <1>0 DEF DbOK, Database
<1>2. ASSUME NEW x \in PutCounts(e, c)
      PROVE  x.db = e \/ x.db = counted
  BY <1>2, CommitExact DEF PutCounts
<1>3. ASSUME NEW x, NEW y \in PutList(x, g, l)
      PROVE  y.db = x \/ y.db = [x EXCEPT !.list[g] = l]
  BY <1>3, CommitExact DEF PutList
<1>4. ASSUME NEW x \in PutCounts(e, c), x.ok
      PROVE  x.db = counted
  BY <1>4, CommitDone DEF PutCounts
<1>5. \/ r \in PutCounts(e, c)
      \/ \E x \in PutCounts(e, c) : x.ok /\ r \in PutList(x.db, g, l)
  BY DEF Register
<1>6. r.db = e \/ r.db = counted \/ r.db = [counted EXCEPT !.list[g] = l]
  <2>1. CASE r \in PutCounts(e, c)
    BY <1>2, <2>1
  <2>2. CASE \E x \in PutCounts(e, c) : x.ok /\ r \in PutList(x.db, g, l)
    <3>1. PICK x \in PutCounts(e, c) : x.ok /\ r \in PutList(x.db, g, l)
      BY <2>2
    <3>2. x.db = counted
      BY <1>4, <3>1
    <3>3. r.db = x.db \/ r.db = [x.db EXCEPT !.list[g] = l]
      BY <1>3, <3>1
    <3> QED BY <3>2, <3>3
  <2> QED BY <1>5, <2>1, <2>2
<1>7. LET x == [counted EXCEPT !.list[g] = l]
      IN /\ x.sess = e.sess /\ x.incnt = c
         /\ x.list = [d.list EXCEPT ![g] = l]
  BY <1>1 DEF DbOK, Database
<1> QED BY <1>0, <1>1, <1>6, <1>7 DEF Registered

LEMMA InsertSessionExact ==
    ASSUME StoreMayRevert = FALSE, NEW d, DbOK(d), NEW k \in Keys,
           NEW s \in Session, NEW r \in InsertSession(d, k, s)
    PROVE  SessExact(d, k, s, r.db) /\ (DirSound(d) => DirSound(r.db))
<1> DEFINE g == Hash[k]
           n == d.incnt[g] + 1
<1>0. /\ d.sess \in [Keys -> Session \cup {NoSession}]
      /\ d.incnt \in [Groups -> 0 .. GroupMax]
      /\ d.list \in [Groups -> [Slots -> Keys \cup {NoKey}]]
      /\ s # NoSession /\ g \in Groups /\ GroupMax \in Nat
      /\ Hash \in [Keys -> Groups]
  BY ConstantsAssumption DEF DbOK, Database, Counts, KeyList
<1>1. ASSUME NEW e, SessExact(d, k, s, e), SameDirectory(d, e), DirSound(d)
      PROVE  DirSound(e)
  BY <1>0, <1>1, SMTT(30) DEF DirSound, SessExact, SameDirectory
<1>2. CASE d.incnt[g] >= GroupMax
  BY <1>2 DEF InsertSession, SessExact
<1>3. CASE ~(d.incnt[g] >= GroupMax)
  <2>1. PICK x \in PutSession(d, k, s) :
           r = x \/ (x.ok /\ ~Listed(d, k) /\ r \in Register(d, x.db, k))
    BY <1>3 DEF InsertSession
  <2>2. SessExact(d, k, s, x.db) /\ SameDirectory(d, x.db)
    BY PutSessionExact
  <2>3. CASE r = x
    BY <1>1, <2>2, <2>3
  <2>4. CASE x.ok /\ ~Listed(d, k) /\ r \in Register(d, x.db, k)
    <3>1. DbOK(x.db)
      BY PutSessionStores
    <3>2. r.db.sess = x.db.sess /\ Registered(d, k, r.db)
      BY <2>2, <2>4, <3>1, RegisterExact
    <3>3. SessExact(d, k, s, r.db)
      BY <2>2, <3>2 DEF SessExact
    <3>4. ASSUME DirSound(d) PROVE DirSound(r.db)
      <4>1. CASE r.db.list = d.list
        <5>1. ASSUME NEW h \in Groups, NEW i \in Slots, d.list[h][i] # NoKey
              PROVE  /\ i <= r.db.incnt[h]
                     /\ r.db.sess[d.list[h][i]] # NoSession
          <6>1. i <= d.incnt[h] /\ d.sess[d.list[h][i]] # NoSession
            BY <3>4, <5>1 DEF DirSound
          <6>2. r.db.incnt[h] \in {d.incnt[h], d.incnt[h] + 1}
            BY <1>0, <3>2 DEF Registered
          <6>3. i <= r.db.incnt[h]
            BY <1>0, <6>1, <6>2 DEF Slots
          <6> QED BY <1>0, <3>3, <5>1, <6>1, <6>3 DEF SessExact
        <5> QED BY <3>4, <4>1, <5>1 DEF DirSound
      <4>2. CASE /\ r.db.incnt = [d.incnt EXCEPT ![g] = n]
                 /\ r.db.list = [d.list EXCEPT ![g] = [@ EXCEPT ![n] = k]]
        <5>1. n \in Slots /\ n \in Int
          BY <1>0, <1>3 DEF Slots
        <5>2. x.db.sess[k] # NoSession /\ r.db.sess[k] # NoSession
          <6>1. x.db.sess[k] # NoSession
            BY <2>4, PutSessionPresent
          <6> QED BY <3>2, <6>1
        <5>3. \A m \in Slots : d.list[g][m] # k
          <6>1. \A m \in 1 .. d.incnt[g] : d.list[g][m] # k
            BY <2>4 DEF Listed
          <6>2. \A m \in Slots : d.list[g][m] # NoKey => m <= d.incnt[g]
            BY <1>0, <3>4 DEF DirSound
          <6>3. k # NoKey
            BY ConstantsAssumption
          <6> QED BY <1>0, <6>1, <6>2, <6>3 DEF Slots
        <5>4. ASSUME NEW h \in Groups, NEW i \in Slots, r.db.list[h][i] # NoKey
              PROVE  /\ i <= r.db.incnt[h]
                     /\ Hash[r.db.list[h][i]] = h
                     /\ r.db.sess[r.db.list[h][i]] # NoSession
                     /\ \A m \in Slots : r.db.list[h][m] = r.db.list[h][i] => m = i
          <6>1. CASE h # g
            BY <1>0, <3>3, <3>4, <4>2, <5>4, <6>1 DEF DirSound, SessExact
          <6>2. CASE h = g /\ i = n
            BY <1>0, <4>2, <5>1, <5>2, <5>3, <6>2
          <6>3. CASE h = g /\ i # n
            <7>1. r.db.list[h][i] = d.list[g][i] /\ r.db.incnt[h] = n
              BY <1>0, <4>2, <5>1, <6>3
            <7>2. /\ i <= d.incnt[g] /\ Hash[d.list[g][i]] = g
                  /\ d.sess[d.list[g][i]] # NoSession
                  /\ \A m \in Slots : d.list[g][m] = d.list[g][i] => m = i
              BY <3>4, <1>0, <5>4, <6>3, <7>1 DEF DirSound
            <7>3. d.list[g][i] \in Keys /\ d.list[g][i] # k
              BY <1>0, <5>3, <5>4, <7>1
            <7>4. r.db.sess[d.list[g][i]] # NoSession
              BY <1>0, <3>3, <7>2, <7>3 DEF SessExact
            <7>5. i <= n
              BY <1>0, <7>2 DEF Slots
            <7>6. \A m \in Slots : r.db.list[h][m] = r.db.list[h][i] => m = i
              BY <1>0, <4>2, <5>1, <6>3, <7>1, <7>2, <7>3
            <7> QED BY <6>3, <7>1, <7>2, <7>4, <7>5, <7>6
          <6> QED BY <6>1, <6>2, <6>3
        <5> QED BY <5>4 DEF DirSound
      <4> QED BY <3>2, <4>1, <4>2 DEF Registered
    <3> QED BY <3>3, <3>4
  <2> QED BY <2>1, <2>3, <2>4
<1> QED BY <1>2, <1>3

(* The directory of sessions stays sound through failing stores, when the   *)
(* database keeps what it stores (bfdd_session.c:160-182).                  *)
THEOREM DirectoryStaysSound ==
    ASSUME StoreMayRevert = FALSE
    PROVE  Spec => []DirectorySound
<1>1. DirectorySound <=> DirSound(db)
  BY DEF DirectorySound, DirSound
<1>2. Init => DirSound(db)
  BY DEF Init, EmptyDatabase, DirSound
<1>3. ASSUME IInv, DirSound(db), LoopStep
      PROVE  DirSound(db)'
  <2>1. ASSUME NEW d, DbOK(d), DirSound(d), NEW k \in Keys, d.sess[k] # NoSession,
               RecordsOK(d), NEW pkt \in Receivable, Acceptable(pkt), NEW stored,
               Advance(d, k, pkt, stored)
        PROVE  DirSound(db)'
    <3>1. /\ d.sess[k] \in Session /\ Matches(d.sess[k])
          /\ Discr \in LocalDiscrs
      BY <1>3, <2>1, ConstantsAssumption
         DEF IInv, TypeOK, DbOK, Database, RecordsOK, Discr, LocalDiscrs
    <3>2. Updated(d.sess[k], pkt, Discr) \in Session
      BY <2>1, <3>1, UpdatedOK
    <3> QED BY <2>1, <3>2, InsertSessionExact DEF Advance
  <2>2. DbOK(db) /\ RecordsOK(db)
    BY <1>3 DEF IInv, Ready
  <2>3. ASSUME NEW k \in Keys, NEW pkt \in Receivable, RecvBfdEvent(k, pkt)
        PROVE  DirSound(db)'
    <3>1. CASE Discard(k, pkt)
      BY <1>3, <3>1 DEF Discard
    <3>2. CASE Adopt(k, pkt)
      BY <1>3, <2>2, <3>2, InitSessionOK, InsertSessionExact DEF Adopt
    <3>3. CASE Admit(k, pkt)
      <4>1. PICK r \in InsertSession(db, k, InitSession) :
               \/ r.db.sess[k] # NoSession /\ Advance(r.db, k, pkt, r.ok)
               \/ db' = r.db
        BY <3>3 DEF Admit
      <4>2. DbOK(r.db) /\ RecordsOK(r.db) /\ DirSound(r.db)
        <5>1. Writable(db, k, InitSession)
          BY <3>3, InitSessionOK DEF Writable, Admit
        <5> QED BY <1>3, <2>2, <5>1, InitSessionOK, InsertSessionKeeps,
                   InsertSessionExact
      <4> QED BY <2>1, <3>3, <4>1, <4>2 DEF Admit
    <3>4. CASE Known(k, pkt)
      BY <1>3, <2>1, <2>2, <3>4 DEF Known
    <3> QED BY <2>3, <3>1, <3>2, <3>3, <3>4 DEF RecvBfdEvent
  <2>4. CASE SendBfdEvent
    BY <1>3, <2>4 DEF SendBfdEvent
  <2>5. CASE Restart
    BY <2>5 DEF Restart, EmptyDatabase, DirSound
  <2> QED BY <1>3, <2>3, <2>4, <2>5 DEF LoopStep
<1>4. DirSound(db) /\ IInv /\ [Next]_vars => DirSound(db)'
  BY <1>3, NextIsLoopStep DEF vars
<1> QED BY <1>1, <1>2, <1>4, InductiveInvariant, PTL DEF Spec

(* What one step can do to the session of k.                                *)
Created(k) ==
    /\ db.sess[k] = NoSession /\ db'.sess[k] # NoSession
    /\ db'.sess[k].state = Down /\ db'.sess[k].remoteState = Down

Met(k) ==
    /\ db.sess[k] = NoSession /\ db'.sess[k] # NoSession
    /\ db'.sess[k].state = Init_ /\ db'.sess[k].remoteState = Down

Heard(k, r) ==
    /\ db.sess[k] # NoSession /\ db'.sess[k] # NoSession
    /\ db'.sess[k].remoteState = r
    /\ db'.sess[k].state = NextState(db.sess[k].state, r)

Moved(k) ==
    \/ db'.sess[k] = db.sess[k]
    \/ db'.sess[k] = NoSession
    \/ Created(k) \/ Met(k) \/ \E r \in RemoteStates : Heard(k, r)

\* What a packet that says r can do to the session of its sender.
MovedBy(k, r) ==
    \/ db'.sess[k] = db.sess[k]
    \/ Created(k)
    \/ r = Down /\ Met(k)
    \/ r \in RemoteStates /\ Heard(k, r)

LEMMA NextStateFollows ==
    ASSUME NEW k \in Keys, NEW s \in SessionStates, NEW r \in RemoteStates
    PROVE  NextState(s, r) \in Fsm(k)!Follows(s, r)
  BY DEF NextState, Fsm!Follows, SessionStates, RemoteStates, AdminDown, Down,
         Init_, Up, Fsm!AdminDown, Fsm!Down, Fsm!Init_, Fsm!Up

LEMMA MovedIsStep ==
    ASSUME IInv, NEW k \in Keys, Moved(k)
    PROVE  [Fsm(k)!Step]_<<StOf(k), HeardOf(k)>>
<1>1. CASE db'.sess[k] = db.sess[k]
  BY <1>1 DEF StOf, HeardOf
<1>2. CASE db'.sess[k] = NoSession
  BY <1>2 DEF StOf, HeardOf, Fsm!Step, Fsm!Forget, Down, Fsm!Down
<1>3. CASE Created(k)
  BY <1>3 DEF Created, StOf, HeardOf, Fsm!Step, Fsm!Create, Down, Fsm!Down
<1>4. CASE Met(k)
  <2>1. Init_ \in Fsm(k)!Follows(Down, Down)
    <3>1. NextState(Down, Down) = Init_
      BY DEF NextState, Down, Init_, Up, AdminDown
    <3> QED BY <3>1, NextStateFollows DEF SessionStates, RemoteStates
  <2>2. Fsm(k)!Down = Down
    BY DEF Down, Fsm!Down
  <2>3. StOf(k) = NoSession /\ StOf(k)' = Init_ /\ HeardOf(k)' = Down
    BY <1>4 DEF Met, StOf, HeardOf
  <2>4. Fsm(k)!Meet
    BY <2>1, <2>2, <2>3 DEF Fsm!Meet
  <2> QED BY <2>4 DEF Fsm!Step
<1>5. CASE \E r \in RemoteStates : Heard(k, r)
  <2>1. PICK r \in RemoteStates : Heard(k, r)
    BY <1>5
  <2>2. db.sess[k].state \in SessionStates /\ db.sess[k].state # NoSession
    BY <2>1, ConstantsAssumption DEF Heard, IInv, TypeOK, Database, Session
  <2>3. /\ StOf(k) = db.sess[k].state /\ StOf(k) # NoSession
        /\ StOf(k)' = NextState(db.sess[k].state, r) /\ HeardOf(k)' = r
    BY <2>1, <2>2 DEF Heard, StOf, HeardOf
  <2>4. Fsm(k)!Hear(r)
    BY <2>2, <2>3, NextStateFollows DEF Fsm!Hear
  <2>5. r \in Fsm(k)!RemoteStates
    BY DEF RemoteStates, Fsm!RemoteStates, AdminDown, Down, Init_, Up,
           Fsm!AdminDown, Fsm!Down, Fsm!Init_, Fsm!Up
  <2> QED BY <2>4, <2>5 DEF Fsm!Step
<1> QED BY <1>1, <1>2, <1>3, <1>4, <1>5 DEF Moved

LEMMA RecvMoves ==
    ASSUME StoreMayRevert = FALSE, IInv, NEW k \in Keys, NEW pkt \in Receivable,
           RecvBfdEvent(k, pkt)
    PROVE  /\ MovedBy(k, pkt.state)
           /\ \A j \in Keys \ {k} : db'.sess[j] = db.sess[j]
<1>1. DbOK(db) /\ RecordsOK(db) /\ db.sess \in [Keys -> Session \cup {NoSession}]
  BY DEF IInv, Ready, DbOK, Database
<1>2. ASSUME NEW d, DbOK(d), RecordsOK(d), d.sess[k] # NoSession,
             Acceptable(pkt), NEW stored, Advance(d, k, pkt, stored)
      PROVE  LET t == Updated(d.sess[k], pkt, Discr)
             IN SessExact(d, k, t, db') /\ t \in Session
  <2>1. /\ d.sess[k] \in Session /\ Matches(d.sess[k])
        /\ Discr \in LocalDiscrs
    BY <1>2, ConstantsAssumption
       DEF IInv, TypeOK, DbOK, Database, RecordsOK, Discr, LocalDiscrs
  <2>2. Updated(d.sess[k], pkt, Discr) \in Session
    BY <1>2, <2>1, UpdatedOK
  <2> QED BY <1>2, <2>2, InsertSessionExact DEF Advance
<1>3. CASE Discard(k, pkt)
  BY <1>3 DEF Discard, MovedBy
<1>4. CASE Adopt(k, pkt)
  <2>1. /\ Adopted(pkt) \in Session /\ Adopted(pkt).state = Down
        /\ Adopted(pkt).remoteState = Down
    BY <1>4, InitSessionOK DEF Adopt, Adopted, Session, InitSession
  <2>2. SessExact(db, k, Adopted(pkt), db')
    BY <1>1, <1>4, <2>1, InsertSessionExact DEF Adopt
  <2>3. Adopted(pkt) # NoSession /\ db.sess[k] = NoSession
    BY <1>4, <2>1, ConstantsAssumption DEF Adopt
  <2> QED BY <1>1, <2>1, <2>2, <2>3 DEF SessExact, MovedBy, Created
<1>5. CASE Admit(k, pkt)
  <2>1. PICK r \in InsertSession(db, k, InitSession) :
           \/ r.db.sess[k] # NoSession /\ Advance(r.db, k, pkt, r.ok)
           \/ db' = r.db
    BY <1>5 DEF Admit
  <2>2. DbOK(r.db) /\ RecordsOK(r.db) /\ SessExact(db, k, InitSession, r.db)
    <3>1. Writable(db, k, InitSession)
      BY <1>5, InitSessionOK DEF Writable, Admit
    <3> QED BY <1>1, <3>1, InitSessionOK, InsertSessionKeeps, InsertSessionExact
  <2>3. /\ InitSession # NoSession /\ db.sess[k] = NoSession
        /\ InitSession.state = Down /\ InitSession.remoteState = Down
        /\ pkt.state = Down /\ Acceptable(pkt)
    BY <1>5, InitSessionOK, ConstantsAssumption DEF Admit, InitSession
  <2>4. CASE db' = r.db
    BY <1>1, <2>2, <2>3, <2>4 DEF SessExact, MovedBy, Created
  <2>5. CASE r.db.sess[k] # NoSession /\ Advance(r.db, k, pkt, r.ok)
    <3> DEFINE t == Updated(r.db.sess[k], pkt, Discr)
    <3>1. SessExact(r.db, k, t, db') /\ t \in Session
      BY <1>2, <2>2, <2>3, <2>5
    <3>2. r.db.sess[k] = InitSession
      BY <1>1, <2>2, <2>3, <2>5 DEF SessExact
    <3>3. t.state = Init_ /\ t.remoteState = Down /\ t # NoSession
      <4>1. NextState(Down, Down) = Init_
        BY DEF NextState, Down, Init_, Up, AdminDown
      <4>2. t.state = NextState(r.db.sess[k].state, pkt.state)
            /\ t.remoteState = pkt.state
        BY DEF Updated
      <4> QED BY <2>3, <3>1, <3>2, <4>1, <4>2, ConstantsAssumption
    <3>4. r.db.sess \in [Keys -> Session \cup {NoSession}]
      BY <2>2 DEF DbOK, Database
    <3>5. \A j \in Keys \ {k} : db'.sess[j] = db.sess[j]
      BY <1>1, <2>2, <3>1, <3>4 DEF SessExact
    <3>6. db'.sess[k] = InitSession \/ db'.sess[k] = t
      BY <3>1, <3>2, <3>4 DEF SessExact
    <3> HIDE DEF t
    <3>7. MovedBy(k, pkt.state)
      BY <2>3, <3>3, <3>6 DEF MovedBy, Created, Met
    <3> QED BY <3>5, <3>7 DEF MovedBy
  <2> QED BY <2>1, <2>4, <2>5
<1>6. CASE Known(k, pkt)
  <2> DEFINE t == Updated(db.sess[k], pkt, Discr)
  <2>1. db.sess[k] # NoSession /\ Acceptable(pkt) /\ Advance(db, k, pkt, TRUE)
    BY <1>6 DEF Known
  <2>2. SessExact(db, k, t, db') /\ t \in Session
    BY <1>1, <1>2, <2>1
  <2>3. /\ t.state = NextState(db.sess[k].state, pkt.state)
        /\ t.remoteState = pkt.state /\ pkt.state \in RemoteStates
        /\ t # NoSession
    BY <2>1, <2>2, InputFields, ConstantsAssumption DEF Updated
  <2> HIDE DEF t
  <2>4. \A j \in Keys \ {k} : db'.sess[j] = db.sess[j]
    BY <1>1, <2>2 DEF SessExact
  <2>5. db'.sess[k] = db.sess[k] \/ db'.sess[k] = t
    BY <1>1, <2>2 DEF SessExact
  <2>6. MovedBy(k, pkt.state)
    BY <2>1, <2>3, <2>5 DEF MovedBy, Heard
  <2> QED BY <2>4, <2>6 DEF MovedBy
<1> QED BY <1>3, <1>4, <1>5, <1>6 DEF RecvBfdEvent

(* Every session the daemon keeps is an abstract BFD session, when the      *)
(* database keeps what it stores (bfdd_event.c:38-117).                     *)
THEOREM SessionsAreBfd ==
    ASSUME StoreMayRevert = FALSE
    PROVE  Spec => ImplementsBfdFsm
<1>1. Init => \A k \in Keys : Fsm(k)!Start
  BY DEF Init, EmptyDatabase, Fsm!Start, StOf, HeardOf, Down, Fsm!Down
<1>2. ASSUME IInv, NEW k \in Keys, NEW pkt \in Receivable, RecvBfdEvent(k, pkt)
      PROVE  \A j \in Keys : Moved(j)
  BY <1>2, RecvMoves DEF Moved, MovedBy
<1>3. ASSUME IInv, Next
      PROVE  \A j \in Keys : Moved(j)
  <2>1. CASE SendBfdEvent
    BY <2>1 DEF SendBfdEvent, Moved
  <2>2. CASE Restart
    BY <2>2 DEF Restart, EmptyDatabase, Moved
  <2> QED BY <1>2, <1>3, <2>1, <2>2, NextIsLoopStep DEF LoopStep
<1>4. IInv /\ [Next]_vars =>
        [\A k \in Keys : [Fsm(k)!Step]_<<StOf(k), HeardOf(k)>>]_vars
  BY <1>3, MovedIsStep
<1> QED BY <1>1, <1>4, InductiveInvariant, PTL DEF Spec, ImplementsBfdFsm

-----------------------------------------------------------------------------
(* What a transmission pass reaches and what a neighbour is told, as long   *)
(* as no store has failed and the database answers with what it stored      *)
(* last.  The invariant behind both is that every key with a session is     *)
(* listed in its group, which a failed store may break and nothing else.    *)
AllListed(d) == \A k \in Keys : d.sess[k] # NoSession => Listed(d, k)

\* The directory of e is that of d with k entered.
Entered(d, k, e) ==
    LET g == Hash[k]
        n == d.incnt[g] + 1
    IN /\ e.incnt = [d.incnt EXCEPT ![g] = n]
       /\ e.list = [d.list EXCEPT ![g] = [@ EXCEPT ![n] = k]]

\* The stores of a handler, when all of them are completed.
LEMMA RegisterDone ==
    ASSUME StoreMayRevert = FALSE, NEW d, DbOK(d), NEW e, DbOK(e),
           NEW k \in Keys, NEW r \in Register(d, e, k), r.ok,
           SameDirectory(d, e)
    PROVE  r.db.sess = e.sess /\ Entered(d, k, r.db)
<1> DEFINE g == Hash[k]
           n == d.incnt[g] + 1
           c == [d.incnt EXCEPT ![g] = n]
           l == [d.list[g] EXCEPT ![n] = k]
           counted == [e EXCEPT !.incnt = c]
<1>1. PICK x \in PutCounts(e, c) : x.ok /\ r \in PutList(x.db, g, l)
  BY DEF Register
<1>2. x.db = counted
  BY <1>1, CommitDone DEF PutCounts
<1>3. r.db = [x.db EXCEPT !.list[g] = l]
  BY <1>1, CommitDone DEF PutList
<1>4. counted.sess = e.sess /\ counted.incnt = c /\ counted.list = d.list
  BY DEF DbOK, Database, SameDirectory
<1>5. LET x1 == [counted EXCEPT !.list[g] = l]
      IN /\ x1.sess = e.sess /\ x1.incnt = c
         /\ x1.list = [d.list EXCEPT ![g] = l]
  BY <1>4 DEF DbOK, Database
<1> QED BY <1>2, <1>3, <1>5 DEF Entered

LEMMA InsertSessionDone ==
    ASSUME StoreMayRevert = FALSE, NEW d, DbOK(d), NEW k \in Keys,
           NEW s \in Session, NEW r \in InsertSession(d, k, s), r.ok,
           AllListed(d)
    PROVE  r.db.sess = [d.sess EXCEPT ![k] = s] /\ AllListed(r.db)
<1> DEFINE g == Hash[k]
           n == d.incnt[g] + 1
<1>0. /\ d.sess \in [Keys -> Session \cup {NoSession}]
      /\ d.incnt \in [Groups -> 0 .. GroupMax]
      /\ d.list \in [Groups -> [Slots -> Keys \cup {NoKey}]]
      /\ g \in Groups /\ GroupMax \in Nat /\ Hash \in [Keys -> Groups]
  BY ConstantsAssumption DEF DbOK, Database, Counts, KeyList
<1>1. ~(d.incnt[g] >= GroupMax)
  BY DEF InsertSession
<1>2. PICK x \in PutSession(d, k, s) :
         \/ r = x /\ x.ok /\ Listed(d, k)
         \/ x.ok /\ ~Listed(d, k) /\ r \in Register(d, x.db, k)
  BY <1>1 DEF InsertSession
<1>3. x.db.sess = [d.sess EXCEPT ![k] = s] /\ SameDirectory(d, x.db)
  <2>1. x.db = Written(d, k, s)
    BY <1>2, CommitDone DEF PutSession, Written
  <2> QED BY <2>1 DEF Written, DbOK, Database, SameDirectory
<1>4. CASE r = x /\ x.ok /\ Listed(d, k)
  <2>1. \A j \in Keys : Listed(r.db, j) <=> Listed(d, j)
    BY <1>3, <1>4 DEF Listed, SameDirectory
  <2>2. \A j \in Keys \ {k} : r.db.sess[j] = d.sess[j]
    BY <1>0, <1>3, <1>4
  <2> QED BY <1>3, <1>4, <2>1, <2>2 DEF AllListed
<1>5. CASE x.ok /\ ~Listed(d, k) /\ r \in Register(d, x.db, k)
  <2>1. DbOK(x.db)
    BY PutSessionStores
  <2>2. /\ r.db.sess = [d.sess EXCEPT ![k] = s]
        /\ r.db.incnt = [d.incnt EXCEPT ![g] = n]
        /\ r.db.list = [d.list EXCEPT ![g] = [@ EXCEPT ![n] = k]]
    <3>1. r.db.sess = x.db.sess /\ Entered(d, k, r.db)
      BY <1>3, <1>5, <2>1, RegisterDone
    <3> QED BY <1>3, <3>1 DEF Entered
  <2>3. n \in Slots /\ n \in Int /\ r.db.incnt[g] = n
    BY <1>0, <1>1, <2>2 DEF Slots
  <2>4. Listed(r.db, k)
    <3>1. r.db.list[g][n] = k
      BY <1>0, <2>2, <2>3
    <3> QED BY <2>3, <3>1 DEF Listed, Slots
  <2>5. ASSUME NEW j \in Keys \ {k}, r.db.sess[j] # NoSession
        PROVE  Listed(r.db, j)
    <3>1. d.sess[j] # NoSession
      BY <1>0, <2>2, <2>5
    <3>2. PICK m \in 1 .. d.incnt[Hash[j]] : d.list[Hash[j]][m] = j
      BY <3>1 DEF AllListed, Listed
    <3>3. CASE Hash[j] = g
      <4>1. m \in 1 .. n /\ m # n /\ m \in Slots
        BY <1>0, <2>3, <3>2, <3>3 DEF Slots
      <4>2. r.db.list[g][m] = j
        BY <1>0, <2>2, <3>2, <3>3, <4>1
      <4> QED BY <2>3, <3>3, <4>1, <4>2 DEF Listed
    <3>4. CASE Hash[j] # g
      <4>1. /\ Hash[j] \in Groups
            /\ r.db.list[Hash[j]] = d.list[Hash[j]]
            /\ r.db.incnt[Hash[j]] = d.incnt[Hash[j]]
        BY <1>0, <2>2, <3>4
      <4> QED BY <3>2, <4>1 DEF Listed
    <3> QED BY <3>3, <3>4
  <2> QED BY <2>2, <2>4, <2>5 DEF AllListed
<1> QED BY <1>2, <1>4, <1>5

\* A packet in S is what Transmit makes of a stored session.
Told(S, d) ==
    \A p \in S : \E k \in Keys :
        d.sess[k] # NoSession /\ {p} = Transmit(k, d.sess[k])

LEMMA TransmitIsOne ==
    ASSUME NEW k, NEW s, NEW p \in Transmit(k, s)
    PROVE  {p} = Transmit(k, s)
  BY DEF Transmit

\* What a handler leaves when, from d, it stores all it has to.
Whole(d) == AllListed(d) /\ DbOK(d) /\ RecordsOK(d)

LEMMA AdvanceDone ==
    ASSUME StoreMayRevert = FALSE, IInv, NEW d, Whole(d), NEW k \in Keys,
           d.sess[k] # NoSession, NEW pkt \in Receivable, Acceptable(pkt),
           NEW stored, Advance(d, k, pkt, stored), ~failed'
    PROVE  AllListed(db') /\ Told(out', db') /\ ~failed /\ stored
<1> DEFINE t == Updated(d.sess[k], pkt, Discr)
<1>1. PICK r \in InsertSession(d, k, t) :
         db' = r.db /\ failed' = (failed \/ ~stored \/ ~r.ok)
  BY DEF Advance
<1>2. r.ok /\ stored /\ ~failed
  BY <1>1
<1>3. /\ d.sess[k] \in Session /\ Matches(d.sess[k])
      /\ Discr \in LocalDiscrs
  BY ConstantsAssumption
     DEF Whole, IInv, TypeOK, DbOK, Database, RecordsOK, Discr, LocalDiscrs
<1>4. t \in Session
  BY <1>3, UpdatedOK
<1>5. db'.sess = [d.sess EXCEPT ![k] = t] /\ AllListed(db')
  <2>1. r.db.sess = [d.sess EXCEPT ![k] = t] /\ AllListed(r.db)
    BY <1>1, <1>2, <1>4, InsertSessionDone DEF Whole
  <2> QED BY <1>1, <2>1
<1>6. db'.sess[k] = t /\ t # NoSession
  BY <1>4, <1>5, ConstantsAssumption DEF Whole, DbOK, Database
<1>7. out' = {} \/ out' = Transmit(k, t)
  BY DEF Advance, Answer
<1> HIDE DEF t
<1>8. Told(out', db')
  BY <1>6, <1>7, TransmitIsOne DEF Told
<1> QED BY <1>2, <1>5, <1>8

LEMMA RecvDone ==
    ASSUME StoreMayRevert = FALSE, IInv, ~failed => AllListed(db),
           NEW k \in Keys, NEW pkt \in Receivable, RecvBfdEvent(k, pkt), ~failed'
    PROVE  AllListed(db') /\ Told(out', db')
<1>1. DbOK(db) /\ RecordsOK(db)
  BY DEF IInv, Ready
<1>2. CASE Discard(k, pkt)
  BY <1>2 DEF Discard, Silent, Told
<1>3. CASE Adopt(k, pkt)
  <2>1. PICK r \in InsertSession(db, k, Adopted(pkt)) :
           db' = r.db /\ failed' = (failed \/ ~r.ok)
    BY <1>3 DEF Adopt
  <2>2. Adopted(pkt) \in Session /\ out' = {}
    BY <1>3, InitSessionOK DEF Adopt, Silent
  <2> QED BY <1>1, <2>1, <2>2, InsertSessionDone DEF Told
<1>4. CASE Admit(k, pkt)
  <2>1. PICK r \in InsertSession(db, k, InitSession) :
           \/ r.db.sess[k] # NoSession /\ Advance(r.db, k, pkt, r.ok)
           \/ db' = r.db /\ out' = {} /\ failed' = (failed \/ ~r.ok)
    BY <1>4 DEF Admit, Silent
  <2>2. DbOK(r.db) /\ RecordsOK(r.db)
    <3>1. Writable(db, k, InitSession)
      BY <1>4, InitSessionOK DEF Writable, Admit
    <3> QED BY <1>1, <3>1, InitSessionOK, InsertSessionKeeps
  <2>3. ~failed /\ r.ok => AllListed(r.db)
    BY <1>1, InitSessionOK, InsertSessionDone
  <2>4. CASE r.db.sess[k] # NoSession /\ Advance(r.db, k, pkt, r.ok)
    <3>1. ~failed /\ r.ok
      BY <2>4 DEF Advance
    <3> QED BY <1>4, <2>2, <2>3, <2>4, <3>1, AdvanceDone DEF Whole, Admit
  <2>5. CASE db' = r.db /\ out' = {} /\ failed' = (failed \/ ~r.ok)
    BY <2>3, <2>5 DEF Told
  <2> QED BY <2>1, <2>4, <2>5
<1>5. CASE Known(k, pkt)
  <2>1. ~failed
    BY <1>5 DEF Known, Advance
  <2> QED BY <1>1, <1>5, <2>1, AdvanceDone DEF Known, Whole
<1> QED BY <1>2, <1>3, <1>4, <1>5 DEF RecvBfdEvent

LEMMA SentIsStored ==
    ASSUME IInv, NEW p \in Visited(db)
    PROVE  Told(SentAt(db, p), db)
<1> DEFINE k == db.list[p[1]][p[2]]
<1>1. k = NoKey \/ k \in Keys
  BY DEF IInv, TypeOK, Database, KeyList, Visited
<1> HIDE DEF k
<1>2. SentAt(db, p) = IF k = NoKey THEN {}
                      ELSE IF db.sess[k] = NoSession THEN {}
                      ELSE Transmit(k, db.sess[k])
  BY DEF SentAt, k
<1> QED BY <1>1, <1>2, TransmitIsOne DEF Told

LEMMA SendTells ==
    ASSUME IInv, SendBfdEvent
    PROVE  Told(out', db')
<1>1. ASSUME NEW x \in out'
      PROVE  \E p \in Visited(db) : x \in SentAt(db, p)
  <2>1. CASE out' = UNION {SentAt(db, p) : p \in Visited(db)}
    BY <1>1, <2>1
  <2>2. CASE \E f \in Visited(db) :
               out' = UNION {SentAt(db, p) : p \in {q \in Visited(db) : Before(q, f)}}
    BY <1>1, <2>2
  <2> QED BY <2>1, <2>2 DEF SendBfdEvent
<1>2. db' = db
  BY DEF SendBfdEvent
<1> QED BY <1>1, <1>2, SentIsStored DEF Told

\* An attached session knows the discriminator of its neighbour.
RemotesKnown(d) == \A k \in Keys : Att(d, k) => d.sess[k].remote # NoDiscr

LEMMA StoresKeepRemotes ==
    ASSUME StoreMayRevert = FALSE, NEW d, DbOK(d), RemotesKnown(d), NEW k \in Keys,
           NEW s \in Session, s.attached => s.remote # NoDiscr,
           NEW r \in InsertSession(d, k, s)
    PROVE  RemotesKnown(r.db)
<1>1. SessExact(d, k, s, r.db)
  BY InsertSessionExact
<1>2. d.sess \in [Keys -> Session \cup {NoSession}]
  BY DEF DbOK, Database
<1> QED BY <1>1, <1>2 DEF SessExact, RemotesKnown, Att

LEMMA AdvanceKeepsRemotes ==
    ASSUME StoreMayRevert = FALSE, IInv, NEW d, DbOK(d), RecordsOK(d), RemotesKnown(d),
           NEW k \in Keys, d.sess[k] # NoSession, NEW pkt \in Receivable,
           Acceptable(pkt), NEW stored, Advance(d, k, pkt, stored)
    PROVE  RemotesKnown(db')
<1> DEFINE t == Updated(d.sess[k], pkt, Discr)
<1>1. PICK r \in InsertSession(d, k, t) : db' = r.db
  BY DEF Advance
<1>2. /\ d.sess[k] \in Session /\ Matches(d.sess[k])
      /\ Discr \in LocalDiscrs
  BY ConstantsAssumption
     DEF IInv, TypeOK, DbOK, Database, RecordsOK, Discr, LocalDiscrs
<1>3. t \in Session
  BY <1>2, UpdatedOK
<1>4. t.remote # NoDiscr
  BY DEF Updated, Acceptable
<1> HIDE DEF t
<1>5. RemotesKnown(r.db)
  BY <1>1, <1>3, <1>4, StoresKeepRemotes
<1> QED BY <1>1, <1>5

LEMMA RecvKeepsRemotes ==
    ASSUME StoreMayRevert = FALSE, IInv, RemotesKnown(db),
           NEW k \in Keys, NEW pkt \in Receivable, RecvBfdEvent(k, pkt)
    PROVE  RemotesKnown(db')
<1>1. DbOK(db) /\ RecordsOK(db)
  BY DEF IInv, Ready
<1>2. CASE Discard(k, pkt)
  BY <1>2 DEF Discard
<1>3. CASE Adopt(k, pkt)
  <2>1. PICK r \in InsertSession(db, k, Adopted(pkt)) : db' = r.db
    BY <1>3 DEF Adopt
  <2>2. Adopted(pkt) \in Session /\ ~Adopted(pkt).attached
    BY <1>3, InitSessionOK DEF Adopt
  <2>3. RemotesKnown(r.db)
    BY <1>1, <2>2, StoresKeepRemotes
  <2> QED BY <2>1, <2>3
<1>4. CASE Admit(k, pkt)
  <2>1. PICK r \in InsertSession(db, k, InitSession) :
           \/ r.db.sess[k] # NoSession /\ Advance(r.db, k, pkt, r.ok)
           \/ db' = r.db
    BY <1>4 DEF Admit
  <2>2. DbOK(r.db) /\ RecordsOK(r.db)
    <3>1. Writable(db, k, InitSession)
      BY <1>4, InitSessionOK DEF Writable, Admit
    <3> QED BY <1>1, <3>1, InitSessionOK, InsertSessionKeeps
  <2>3. RemotesKnown(r.db)
    BY <1>1, InitSessionOK, StoresKeepRemotes
  <2>4. CASE r.db.sess[k] # NoSession /\ Advance(r.db, k, pkt, r.ok)
    BY <1>4, <2>2, <2>3, <2>4, AdvanceKeepsRemotes DEF Admit
  <2> QED BY <2>1, <2>3, <2>4
<1>5. CASE Known(k, pkt)
  BY <1>1, <1>5, AdvanceKeepsRemotes DEF Known
<1> QED BY <1>2, <1>3, <1>4, <1>5 DEF RecvBfdEvent

\* A complete pass over a database that lists every session.
Reached(d, S) ==
    \A k \in Keys : Att(d, k) =>
        \E p \in S : /\ p.to = k[1]
                     /\ p.my = d.sess[k].local
                     /\ p.state = d.sess[k].state

LEMMA PassReaches ==
    ASSUME IInv, RemotesKnown(db), AllListed(db), SendBfdEvent, event' = "pass"
    PROVE  Reached(db, out')
<1>1. out' = UNION {SentAt(db, p) : p \in Visited(db)}
  BY DEF SendBfdEvent
<1>2. SUFFICES ASSUME NEW k \in Keys, Att(db, k)
               PROVE  \E p \in out' : /\ p.to = k[1]
                                       /\ p.my = db.sess[k].local
                                       /\ p.state = db.sess[k].state
  BY DEF Reached
<1> DEFINE s == db.sess[k]
           x == [to |-> k[1], state |-> AnnouncedState(s), final |-> s.pollbit,
                 my |-> s.local, your |-> s.remote]
<1>3. s \in Session /\ Matches(s) /\ s.attached /\ s # NoSession
  BY <1>2 DEF IInv, Ready, DbOK, Database, RecordsOK, Att
<1>4. AnnouncedState(s) = s.state /\ MayAnnounce(s)
  BY <1>2, <1>3 DEF Matches, AnnouncedState, MayAnnounce, RemotesKnown
<1>5. PICK n \in 1 .. db.incnt[Hash[k]] : db.list[Hash[k]][n] = k
  BY <1>3 DEF AllListed, Listed
<1>6. /\ Hash[k] \in Groups /\ GroupMax \in Nat
      /\ db.incnt[Hash[k]] \in 0 .. GroupMax
  BY ConstantsAssumption DEF IInv, TypeOK, Database, Counts
<1>7. <<Hash[k], n>> \in Visited(db)
  BY <1>5, <1>6 DEF Visited, Slots
<1>8. k # NoKey
  BY ConstantsAssumption
<1>9. SentAt(db, <<Hash[k], n>>) = Transmit(k, s)
  BY <1>3, <1>5, <1>8 DEF SentAt
<1>10. x \in Transmit(k, s)
  BY <1>3, <1>4 DEF Transmit
<1>11. x \in out'
  BY <1>1, <1>7, <1>9, <1>10
<1>12. x.to = k[1] /\ x.my = s.local /\ x.state = s.state
  BY <1>4
<1> QED BY <1>11, <1>12

-----------------------------------------------------------------------------
LInv == RemotesKnown(db) /\ (~failed => AllListed(db))

LEMMA LoopTells ==
    ASSUME StoreMayRevert = FALSE, IInv, LInv, [LoopStep]_vars
    PROVE  LInv' /\ (vars' # vars /\ ~failed' => Told(out', db'))
<1>1. CASE \E k \in Keys, pkt \in Receivable : RecvBfdEvent(k, pkt)
  BY <1>1, RecvDone, RecvKeepsRemotes DEF LInv
<1>2. CASE SendBfdEvent
  BY <1>2, SendTells DEF LInv, SendBfdEvent
<1>3. CASE Restart
  <2>1. db' = EmptyDatabase /\ out' = {}
    BY <1>3 DEF Restart
  <2>2. \A k \in Keys : db'.sess[k] = NoSession
    BY <2>1 DEF EmptyDatabase
  <2> QED BY <2>1, <2>2 DEF LInv, RemotesKnown, Att, AllListed, Told
<1>4. CASE UNCHANGED vars
  BY <1>4 DEF vars, LInv
<1> QED BY <1>1, <1>2, <1>3, <1>4 DEF LoopStep

LEMMA ListedWhileWhole ==
    ASSUME StoreMayRevert = FALSE
    PROVE  Spec => []LInv
<1>1. Init => LInv
  BY DEF Init, EmptyDatabase, LInv, RemotesKnown, Att, AllListed
<1>2. IInv /\ LInv /\ [Next]_vars => LInv'
  BY LoopTells, NextIsLoopStep
<1> QED BY <1>1, <1>2, InductiveInvariant, PTL DEF Spec

(* As long as no store has failed, a pass reaches every attached neighbour, *)
(* whatever the hash and the group size (bfdd_session.c:84-117).            *)
THEOREM PassesReachAll ==
    ASSUME StoreMayRevert = FALSE
    PROVE  Spec => PassReachesAll
<1>1. IInv /\ LInv /\ [Next]_vars =>
        [event' = "pass" /\ ~failed =>
           \A k \in Keys : Attached(k) =>
              \E p \in out' : /\ p.to = k[1]
                               /\ p.my = db.sess[k].local
                               /\ p.state = db.sess[k].state]_vars
  <2>1. SUFFICES ASSUME IInv, LInv, Next, event' = "pass", ~failed
                 PROVE  Reached(db, out')
    BY DEF Reached, Att, Attached
  <2>2. SendBfdEvent
    BY <2>1 DEF Next, RecvBfdEvent, Discard, Adopt, Admit, Known, Advance,
                Silent, Answer, Restart
  <2> QED BY <2>1, <2>2, PassReaches DEF LInv
<1> QED BY <1>1, InductiveInvariant, ListedWhileWhole, PTL DEF Spec, PassReachesAll

(* As long as no store has failed, a neighbour is told what is stored       *)
(* (bfdd_event.c:110-116).                                                  *)
THEOREM ToldWhatIsStored ==
    ASSUME StoreMayRevert = FALSE
    PROVE  Spec => SaysWhatIsStored
<1>1. IInv /\ LInv /\ [Next]_vars =>
        [~failed' => \A p \in out' : \E k \in Keys :
           db'.sess[k] # NoSession /\ {p} = Transmit(k, db'.sess[k])]_vars
  BY LoopTells, NextIsLoopStep DEF Told
<1> QED BY <1>1, InductiveInvariant, ListedWhileWhole, PTL DEF Spec, SaysWhatIsStored

-----------------------------------------------------------------------------
(* The daemon with a neighbour *)

(* The daemon takes steps of its own loop only, and hears the neighbour     *)
(* only, so that everything proved of the daemon alone carries over.        *)
LEMMA PeerStepIsLoopStep ==
    ASSUME PeerTypeOK, PeerStep
    PROVE  LoopStep \/ UNCHANGED vars
<1>1. toDaemon \subseteq Receivable
  BY ConstantsAssumption DEF PeerTypeOK, Receivable, Packets, Discrs
<1>2. Neighbour \in Keys
  BY PeerAssumption
<1>3. CASE DaemonSend \/ DaemonRestart
  BY <1>3 DEF DaemonSend, DaemonRestart, LoopStep
<1>4. CASE \E pkt \in toDaemon : DaemonReceive(pkt) \/ Duplicate(pkt)
  BY <1>1, <1>2, <1>4 DEF DaemonReceive, Duplicate, LoopStep
<1>5. CASE \/ PeerSend \/ PeerPolls \/ PeerTimesOut \/ PeerDisabled \/ PeerEnabled
           \/ PeerRestart \/ Lose \/ \E p \in toPeer : PeerReceive(p)
  BY <1>5 DEF PeerSend, PeerPolls, PeerTimesOut, PeerDisabled, PeerEnabled,
              PeerRestart, Lose, PeerReceive
<1> QED BY <1>3, <1>4, <1>5 DEF PeerStep

-----------------------------------------------------------------------------
(* Types.                                                                   *)
PInv == IInv /\ PeerTypeOK

LEMMA PeerNextType ==
    ASSUME NEW s \in RemoteStates, NEW r \in RemoteStates
    PROVE  PeerNext(s, r) \in RemoteStates
  BY DEF PeerNext, RemoteStates, AdminDown, Down, Init_, Up

LEMMA FreshType ==
    ASSUME NEW discr \in PeerDiscrs PROVE PeerFresh(discr) \in PeerSession
  BY DEF PeerFresh, PeerSession, RemoteStates, Discrs, Down

LEMMA PeerPacketType ==
    ASSUME peer \in PeerSession
    PROVE  PeerPacket \in Packets(PeerDiscrs, Discrs, BOOLEAN, {FALSE})
  BY DEF PeerPacket, PeerSession, Packets

LEMMA PeerKeepsTypes ==
    ASSUME PInv, [PeerStep]_allVars
    PROVE  PInv'
<1>1. IInv'
  <2>1. CASE PeerStep
    <3>1. LoopStep \/ UNCHANGED vars
      BY <2>1, PeerStepIsLoopStep DEF PInv
    <3> QED BY <3>1, LoopKeeps DEF PInv, vars, IInv, TypeOK, Ready
  <2>2. CASE UNCHANGED allVars
    BY <2>2 DEF PInv, allVars, vars, IInv, TypeOK, Ready
  <2> QED BY <2>1, <2>2
<1>2. /\ peer \in PeerSession
      /\ toDaemon \subseteq Packets(PeerDiscrs, Discrs, BOOLEAN, {FALSE})
      /\ toPeer \subseteq OutPackets /\ faults \in 0 .. MaxFaults
      /\ out' \subseteq OutPackets /\ MaxFaults \in Nat
  BY <1>1, PeerAssumption DEF PInv, PeerTypeOK, IInv, TypeOK
<1>3. ASSUME Fault PROVE faults' \in 0 .. MaxFaults
  BY <1>2, <1>3 DEF Fault
<1>4. ASSUME Timely PROVE faults' \in 0 .. MaxFaults
  BY <1>2, <1>4 DEF Timely
<1>5. /\ peer' \in PeerSession
      /\ toDaemon' \subseteq Packets(PeerDiscrs, Discrs, BOOLEAN, {FALSE})
      /\ toPeer' \subseteq OutPackets /\ faults' \in 0 .. MaxFaults
  <2>1. CASE DaemonSend
    BY <1>2, <1>4, <2>1 DEF DaemonSend
  <2>2. CASE DaemonRestart
    BY <1>2, <1>3, <2>2 DEF DaemonRestart
  <2>3. CASE \E pkt \in toDaemon : DaemonReceive(pkt)
    BY <1>2, <1>3, <2>3 DEF DaemonReceive
  <2>4. CASE \E pkt \in toDaemon : Duplicate(pkt)
    BY <1>2, <1>3, <2>4 DEF Duplicate
  <2>5. CASE PeerSend
    BY <1>2, <1>4, <2>5, PeerPacketType DEF PeerSend
  <2>6. CASE PeerPolls
    BY <1>2, <1>3, <2>6 DEF PeerPolls, PeerSession
  <2>7. CASE PeerTimesOut
    BY <1>2, <1>3, <2>7 DEF PeerTimesOut, PeerSession, RemoteStates, Discrs
  <2>8. CASE PeerDisabled
    BY <1>2, <1>3, <2>8 DEF PeerDisabled, PeerSession, RemoteStates
  <2>9. CASE PeerEnabled
    BY <1>2, <2>9 DEF PeerEnabled, PeerSession, RemoteStates
  <2>10. CASE PeerRestart
    BY <1>2, <1>3, <2>10, FreshType DEF PeerRestart
  <2>11. CASE \E p \in toPeer : PeerReceive(p)
    <3>1. PICK p \in toPeer : PeerReceive(p)
      BY <2>11
    <3>2. p.state \in RemoteStates /\ p.my \in Discrs /\ p.final \in BOOLEAN
      BY <1>2 DEF OutPackets, SessionStates, RemoteStates
    <3>3. PeerNext(peer.state, p.state) \in RemoteStates
      BY <1>2, <3>2, PeerNextType DEF PeerSession
    <3>4. peer' \in PeerSession
      BY <1>2, <3>1, <3>2, <3>3 DEF PeerReceive, PeerSession
    <3> QED BY <1>2, <3>1, <3>4 DEF PeerReceive
  <2>12. CASE Lose
    BY <1>2, <1>3, <2>12 DEF Lose
  <2>13. CASE UNCHANGED allVars
    BY <1>2, <2>13 DEF allVars, peerVars
  <2> QED BY <2>1, <2>2, <2>3, <2>4, <2>5, <2>6, <2>7, <2>8, <2>9, <2>10,
             <2>11, <2>12, <2>13 DEF PeerStep
<1> QED BY <1>1, <1>5 DEF PInv, PeerTypeOK, IInv

LEMMA PeerInvariant == PeerSpec => []PInv
<1>1. PeerInit => PInv
  <2>1. PeerInit => IInv
    BY EmptyOK DEF PeerInit, Init, IInv, Ready, TypeOK, Events, DbOK
  <2>2. PeerInit => PeerTypeOK
    BY <2>1, FreshType, PeerAssumption DEF PeerInit, PeerTypeOK, IInv
  <2> QED BY <2>1, <2>2 DEF PInv
<1>2. PInv /\ [PeerStep]_allVars => PInv'
  BY PeerKeepsTypes
<1> QED BY <1>1, <1>2, PTL DEF PeerSpec

(* Both ends and the packets between them keep their types, through every    *)
(* fault of the network and of the neighbour.                               *)
THEOREM PeerTypeCorrect == PeerSpec => []PeerTypeOK
<1>1. PInv => PeerTypeOK
  BY DEF PInv
<1> QED BY <1>1, PeerInvariant, PTL

-----------------------------------------------------------------------------
(* The hand-shake.                                                          *)

\* The pairs of states the two ends go through.
InStep ==
    /\ DaemonState = NoSession => peer.state = Down
    /\ DaemonState = Down => peer.state \in {Down, Init_}
    /\ DaemonState = Init_ => peer.state \in {Down, Up}
    /\ DaemonState = Up => peer.state \in {Init_, Up}

\* One packet at most is in flight, and its sender has not moved since.
InFlight ==
    /\ \A p \in toDaemon :
          /\ toPeer = {} /\ toDaemon = {p}
          /\ p.state = peer.state /\ ~p.poll
    /\ \A p \in toPeer : toPeer = {p} /\ p.state = DaemonState

Alone == \A k \in Keys \ {Neighbour} : db.sess[k] = NoSession

Calm == faults = 0 => InStep /\ InFlight /\ Alone /\ ~peer.polling

LEMMA StatesDiffer ==
    /\ AdminDown = 0 /\ Down = 1 /\ Init_ = 2 /\ Up = 3
    /\ NoSession \notin {Down, Init_, Up}
  BY ConstantsAssumption DEF AdminDown, Down, Init_, Up, SessionStates

\* What a pass says of the neighbour's session, and it says nothing else.
LEMMA PassSaysState ==
    ASSUME IInv, Alone, SendBfdEvent, event' = "pass", NEW p \in out'
    PROVE  /\ out' = {p} /\ p.state = DaemonState
           /\ DaemonState # NoSession
<1> DEFINE s == db.sess[Neighbour]
<1>1. out' = UNION {SentAt(db, q) : q \in Visited(db)}
  BY DEF SendBfdEvent
<1>2. Neighbour \in Keys
  BY PeerAssumption
<1>3. ASSUME NEW q \in Visited(db), NEW x \in SentAt(db, q)
      PROVE  s # NoSession /\ x \in Transmit(Neighbour, s)
  <2> DEFINE k == db.list[q[1]][q[2]]
  <2>1. k = NoKey \/ k \in Keys
    BY DEF IInv, TypeOK, Database, KeyList, Visited
  <2>2. k # NoKey /\ db.sess[k] # NoSession /\ x \in Transmit(k, db.sess[k])
    BY <1>3 DEF SentAt
  <2>3. k = Neighbour
    BY <2>1, <2>2 DEF Alone
  <2> QED BY <2>2, <2>3
<1>4. s # NoSession /\ p \in Transmit(Neighbour, s)
  BY <1>1, <1>3
<1>5. s \in Session /\ Matches(s)
  BY <1>2, <1>4 DEF IInv, Ready, DbOK, Database, RecordsOK
<1>6. /\ Transmit(Neighbour, s) = {p} /\ s.attached
      /\ p.state = AnnouncedState(s)
  BY <1>4 DEF Transmit
<1>7. p.state = s.state
  BY <1>5, <1>6 DEF AnnouncedState, Matches
<1>8. out' = {p}
  BY <1>1, <1>3, <1>6
<1>9. s.state # NoSession
  BY <1>5, StatesDiffer DEF Session, SessionStates
<1> QED BY <1>4, <1>7, <1>8, <1>9 DEF DaemonState, StOf

\* A packet that says what the neighbour is in brings the daemon no further
\* than the hand-shake allows, whether or not its stores succeed.
LEMMA HearingKeepsStep ==
    ASSUME StoreMayRevert = FALSE, IInv, InStep, NEW pkt \in Receivable,
           RecvBfdEvent(Neighbour, pkt), pkt.state = peer.state, peer' = peer
    PROVE  InStep'
<1>1. MovedBy(Neighbour, pkt.state)
  BY RecvMoves, PeerAssumption
<1>2. \/ DaemonState' = DaemonState
      \/ DaemonState = NoSession /\ DaemonState' = Down
      \/ DaemonState = NoSession /\ DaemonState' = Init_ /\ pkt.state = Down
      \/ /\ DaemonState \in SessionStates
         /\ DaemonState' = NextState(DaemonState, pkt.state)
  <2>1. db.sess[Neighbour] # NoSession => db.sess[Neighbour].state \in SessionStates
    BY PeerAssumption DEF IInv, TypeOK, Database, Session
  <2> QED BY <1>1, <2>1 DEF MovedBy, Created, Met, Heard, DaemonState, StOf
<1>3. CASE DaemonState' = DaemonState
  BY <1>3 DEF InStep
<1>4. CASE DaemonState = NoSession /\ DaemonState' \in {Down, Init_}
  BY <1>4, StatesDiffer DEF InStep
<1>5. CASE /\ DaemonState \in SessionStates
           /\ DaemonState' = NextState(DaemonState, pkt.state)
  BY <1>5, StatesDiffer DEF InStep, NextState, SessionStates
<1> QED BY <1>2, <1>3, <1>4, <1>5

\* The neighbour's answer to the daemon's state does not overtake it either.
LEMMA AnsweringKeepsStep ==
    ASSUME InStep, NEW r, r = DaemonState, r \in SessionStates,
           DaemonState' = DaemonState,
           peer'.state \in {peer.state, PeerNext(peer.state, r)}
    PROVE  InStep'
  BY StatesDiffer DEF InStep, PeerNext, SessionStates

LEMMA CalmKept ==
    ASSUME StoreMayRevert = FALSE, PInv, Calm, [PeerStep]_allVars
    PROVE  Calm'
<1>1. /\ faults \in Nat /\ peer \in PeerSession
      /\ toDaemon \subseteq Receivable /\ toPeer \subseteq OutPackets /\ IInv
  <2>1. toDaemon \subseteq Receivable
    BY ConstantsAssumption DEF PInv, PeerTypeOK, Receivable, Packets, Discrs
  <2> QED BY <2>1, PeerAssumption DEF PInv, PeerTypeOK
<1> SUFFICES ASSUME faults' = 0
             PROVE  (InStep /\ InFlight /\ Alone /\ ~peer.polling)'
  BY DEF Calm
<1>2. ~Fault
  BY <1>1 DEF Fault
<1>3. Timely => Quiet /\ faults = 0
  BY <1>1 DEF Timely
<1>4. CASE DaemonSend
  <2>1. Quiet /\ InStep /\ Alone /\ ~peer.polling
    BY <1>3, <1>4 DEF DaemonSend, Calm
  <2>2. db' = db /\ peer' = peer /\ toDaemon' = {} /\ toPeer' = out'
    BY <1>4, <2>1 DEF DaemonSend, SendBfdEvent, Quiet
  <2>3. \A p \in out' : out' = {p} /\ p.state = DaemonState
    BY <1>1, <1>4, <2>1, PassSaysState DEF DaemonSend
  <2> QED BY <2>1, <2>2, <2>3 DEF InStep, InFlight, Alone, DaemonState, StOf
<1>5. CASE \E pkt \in toDaemon : DaemonReceive(pkt)
  <2>1. PICK pkt \in toDaemon : DaemonReceive(pkt)
    BY <1>5
  <2>2. /\ InStep /\ InFlight /\ Alone /\ ~peer.polling
        /\ peer' = peer /\ RecvBfdEvent(Neighbour, pkt)
    BY <1>2, <2>1 DEF Calm, DaemonReceive
  <2>3. /\ toPeer = {} /\ toDaemon = {pkt}
        /\ pkt.state = peer.state /\ ~pkt.poll
    BY <2>2 DEF InFlight
  <2>4. out' = {}
    BY <2>2, <2>3 DEF RecvBfdEvent, Discard, Adopt, Admit, Known, Advance,
                      Silent, Answer
  <2>5. InStep'
    BY <1>1, <2>2, <2>3, HearingKeepsStep
  <2>6. Alone'
    BY <1>1, <2>2, RecvMoves, PeerAssumption DEF Alone
  <2> QED BY <2>1, <2>2, <2>3, <2>4, <2>5, <2>6 DEF DaemonReceive, InFlight
<1>6. CASE PeerSend
  <2>1. Quiet /\ InStep /\ Alone /\ ~peer.polling
    BY <1>3, <1>6 DEF PeerSend, Calm
  <2>2. /\ UNCHANGED <<db, peer>> /\ toPeer' = {} /\ toDaemon' = {PeerPacket}
    BY <1>6, <2>1 DEF PeerSend, Quiet, vars
  <2>3. PeerPacket.state = peer.state /\ ~PeerPacket.poll
    BY <2>1 DEF PeerPacket
  <2> QED BY <2>1, <2>2, <2>3 DEF InStep, InFlight, Alone, DaemonState, StOf
<1>7. CASE PeerEnabled
  <2>1. InStep /\ faults = 0
    BY <1>7 DEF PeerEnabled, Calm
  <2>2. DaemonState \in {NoSession, Down, Init_, Up}
    BY <1>1, PeerAssumption DEF IInv, TypeOK, Database, Session, SessionStates,
                                DaemonState, StOf
  <2>3. peer.state # AdminDown
    BY <2>1, <2>2, StatesDiffer DEF InStep
  <2> QED BY <1>7, <2>3 DEF PeerEnabled
<1>8. CASE \E p \in toPeer : PeerReceive(p)
  <2>1. PICK p \in toPeer : PeerReceive(p)
    BY <1>8
  <2>2. /\ InStep /\ InFlight /\ Alone /\ ~peer.polling
        /\ UNCHANGED <<db, toDaemon>>
    BY <2>1 DEF Calm, PeerReceive, vars
  <2>3. toPeer = {p} /\ p.state = DaemonState /\ toDaemon = {}
    BY <2>2 DEF InFlight
  <2>4. p.state \in SessionStates
    BY <1>1 DEF OutPackets
  <2>5. /\ peer'.state \in {peer.state, PeerNext(peer.state, p.state)}
        /\ ~peer'.polling
    BY <1>1, <2>1, <2>2 DEF PeerReceive, PeerSession
  <2>6. DaemonState' = DaemonState
    BY <2>2 DEF DaemonState, StOf
  <2>7. InStep'
    BY <2>2, <2>3, <2>4, <2>5, <2>6, AnsweringKeepsStep
  <2> QED BY <2>1, <2>2, <2>3, <2>5, <2>7 DEF PeerReceive, InFlight, Alone
<1>9. CASE \/ DaemonRestart \/ PeerPolls \/ PeerTimesOut \/ PeerDisabled
           \/ PeerRestart \/ Lose \/ \E pkt \in toDaemon : Duplicate(pkt)
  BY <1>2, <1>9 DEF DaemonRestart, PeerPolls, PeerTimesOut, PeerDisabled,
                    PeerRestart, Lose, Duplicate
<1>10. CASE UNCHANGED allVars
  BY <1>10 DEF allVars, vars, peerVars, Calm, InStep, InFlight, Alone,
               DaemonState, StOf
<1> QED BY <1>4, <1>5, <1>6, <1>7, <1>8, <1>9, <1>10 DEF PeerStep

(* Until something goes wrong neither end is Up while the other is still    *)
(* Down, whether or not the daemon's stores succeed (bfdd_event.c:85-109).  *)
(* The inductive part is that one packet at most is in flight, saying the   *)
(* state its sender is still in, so that the ends move in turns through the *)
(* pairs of InStep.  A database that may bring an older record back is      *)
(* excluded: there the daemon can fall behind a neighbour that is Up.       *)
THEOREM HandShakesHold ==
    ASSUME StoreMayRevert = FALSE
    PROVE  PeerSpec => []HandShake
<1>1. PeerInit => Calm
  <2>1. ASSUME PeerInit PROVE InStep /\ InFlight /\ Alone /\ ~peer.polling
    <3>1. \A k \in Keys : db.sess[k] = NoSession
      BY <2>1 DEF PeerInit, Init, EmptyDatabase
    <3>2. DaemonState = NoSession
      BY <3>1, PeerAssumption DEF DaemonState, StOf
    <3>3. peer.state = Down /\ ~peer.polling
      BY <2>1 DEF PeerInit, PeerFresh
    <3> QED BY <2>1, <3>1, <3>2, <3>3, StatesDiffer
            DEF PeerInit, InStep, InFlight, Alone
  <2> QED BY <2>1 DEF Calm
<1>2. PInv /\ Calm /\ [PeerStep]_allVars => Calm'
  BY CalmKept
<1>3. PInv /\ Calm => HandShake
  <2>1. IInv => DaemonState \in {NoSession, Down, Init_, Up}
    BY PeerAssumption DEF IInv, TypeOK, Database, Session, SessionStates,
                          DaemonState, StOf
  <2> QED BY <2>1, StatesDiffer DEF PInv, Calm, InStep, HandShake
<1> QED BY <1>1, <1>2, <1>3, PeerInvariant, PTL DEF PeerSpec
=============================================================================
