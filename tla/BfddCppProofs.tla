--------------------------- MODULE BfddCppProofs ---------------------------
(***************************************************************************)
(* Proofs about the C++ daemon, for any number of neighbours and packets.  *)
(*                                                                         *)
(* The argument: a session with a connection has a discriminator of ours   *)
(* that no later step changes, and only such a session writes; so whatever *)
(* two threads put into a buffer, whole or mixed, carries that one.        *)
(***************************************************************************)
EXTENDS BfddCpp, TLAPS

\* Until the counter restarts, it says how many it has handed out.
Counted == handed <= DiscrLimit => incr = handed

\* Sessions with a connection have a discriminator from the counter, and
\* during its first round one that the counter has passed.
Numbered ==
    \A k \in Keys : Attached(k) =>
        sess[k].local \in LocalDiscrs /\ (handed < MaxHanded => sess[k].local <= handed)

\* A send is queued only when something was written.
Backed == \A k \in Keys : pending[k] > 0 => buf[k] # NoPacket

ConnOK ==
    /\ buf \in [Keys -> OutPackets \cup {NoPacket}]
    /\ pending \in [Keys -> 0 .. MaxPending]
    /\ heard \in [Keys -> OutPackets \cup {NoPacket}]
    /\ Backed

\* Packet p speaks for session s.
SpeaksFor(s, p) ==
    p # NoPacket => s # NoSession /\ s.conn /\ p.my = s.local /\ p.my # NoDiscr

Speaking == \A k \in Keys : SpeaksFor(sess[k], buf[k]) /\ SpeaksFor(sess[k], heard[k])

\* A pass of the timer is about sessions that are there.
Waiting == \A k \in todo : sess[k] # NoSession

IInv == TypeOK /\ Counted /\ Numbered /\ DiscrUnique /\ Backed /\ Speaking /\ Waiting

-----------------------------------------------------------------------------
(* Sessions and packets *)

LEMMA InputFields ==
    ASSUME NEW pkt \in Inputs
    PROVE  /\ pkt.state \in RemoteStates /\ pkt.poll \in BOOLEAN
           /\ pkt.final \in BOOLEAN /\ pkt.paced \in BOOLEAN
           /\ pkt.my \in Discrs /\ pkt.your \in Discrs
  BY CppAssumption DEF Inputs, Discrs

LEMMA NextStateOK ==
    ASSUME NEW s \in SessionStates, NEW r \in RemoteStates
    PROVE  NextState(s, r) \in SessionStates
  BY DEF NextState, SessionStates, RemoteStates, AdminDown, Down, Init_, Up

LEMMA InitSessionOK == InitSession \in Session /\ ~InitSession.conn
  BY DEF InitSession, Session, SessionStates, RemoteStates, Discrs, Down, AdminDown, Init_, Up

LEMMA UpdatedOK ==
    ASSUME NEW s \in Session, NEW pkt \in Inputs, NEW d \in LocalDiscrs
    PROVE  /\ Updated(s, pkt, d) \in Session
           /\ Updated(s, pkt, d).conn
           /\ Updated(s, pkt, d).local = IF s.conn THEN s.local ELSE d
           /\ Updated(s, pkt, d).state = NextState(s.state, pkt.state)
           /\ Updated(s, pkt, d).remoteState = pkt.state
<1>1. s.state \in SessionStates /\ s.local \in Discrs /\ s.pollbit \in BOOLEAN
      /\ s.terminate \in BOOLEAN
  BY DEF Session
<1>2. NextState(s.state, pkt.state) \in SessionStates
  BY <1>1, InputFields, NextStateOK
<1>3. (IF s.conn THEN s.local ELSE d) \in Discrs
  BY <1>1 DEF Discrs
<1>4. (s.pollbit \/ pkt.poll) \in BOOLEAN /\ (s.terminate \/ pkt.final) \in BOOLEAN
  BY <1>1, InputFields
<1>5. /\ pkt.state \in RemoteStates /\ pkt.my \in Discrs /\ pkt.paced \in BOOLEAN
  BY InputFields
<1> QED BY <1>2, <1>3, <1>4, <1>5 DEF Updated, Session

LEMMA CounterOK ==
    ASSUME incr \in 0 .. DiscrLimit
    PROVE  Discr \in LocalDiscrs /\ \A s : CounterAfter(s) \in 0 .. DiscrLimit
  BY CppAssumption DEF Discr, LocalDiscrs, CounterAfter

LEMMA AnnouncedOK ==
    ASSUME NEW s \in Session
    PROVE  Announced(s) \in OutPackets /\ Announced(s).my = s.local
  BY DEF Announced, OutPackets, Session, AnnouncedState, SessionStates, Down, Init_, Up

-----------------------------------------------------------------------------
(* Sends *)

LEMMA WriteKeeps ==
    ASSUME ConnOK, NEW k \in Keys, NEW p \in OutPackets, NEW c \in BOOLEAN, Write(k, p, c)
    PROVE  /\ ConnOK'
           /\ buf' = [buf EXCEPT ![k] = p]
           /\ \A j \in Keys \ {k} : heard'[j] = heard[j]
           /\ \/ heard'[k] \in {heard[k], p}
              \/ buf[k] # NoPacket /\ heard'[k] \in Torn(buf[k], p)
<1>1. p # NoPacket /\ MaxPending \in Nat \ {0}
  BY CppAssumption
<1>2. buf' = [buf EXCEPT ![k] = p] /\ buf' \in [Keys -> OutPackets \cup {NoPacket}]
  BY DEF ConnOK, Write
<1>3. \A j \in Keys : j # k => buf'[j] = buf[j]
  BY <1>2 DEF ConnOK
<1>4. buf'[k] # NoPacket
  BY <1>1, <1>2 DEF ConnOK
<1>5. CASE pending[k] = 0 /\ heard' = [heard EXCEPT ![k] = p] /\ UNCHANGED pending
  BY <1>1, <1>2, <1>3, <1>4, <1>5 DEF ConnOK, Backed
<1>6. CASE pending' = [pending EXCEPT ![k] = Queued(@)] /\ UNCHANGED heard
  <2>1. pending[k] \in 0 .. MaxPending
    BY DEF ConnOK
  <2>2. Queued(pending[k]) \in 0 .. MaxPending
    BY <1>1, <2>1 DEF Queued
  <2>3. pending' \in [Keys -> 0 .. MaxPending] /\ \A j \in Keys : j # k => pending'[j] = pending[j]
    BY <1>6, <2>2 DEF ConnOK
  <2> QED BY <1>2, <1>3, <1>4, <1>6, <2>3 DEF ConnOK, Backed
<1>7. CASE /\ c /\ pending[k] > 0
           /\ \E p2 \in Torn(buf[k], p) : heard' = [heard EXCEPT ![k] = p2]
           /\ UNCHANGED pending
  <2>1. PICK p2 \in Torn(buf[k], p) : heard' = [heard EXCEPT ![k] = p2]
    BY <1>7
  <2>2. buf[k] \in OutPackets /\ buf[k] # NoPacket
    BY <1>7 DEF ConnOK, Backed
  <2>3. p2 \in OutPackets
    BY <2>2 DEF Torn, OutPackets
  <2> QED BY <1>2, <1>3, <1>4, <1>7, <2>1, <2>2, <2>3 DEF ConnOK, Backed
<1> QED BY <1>5, <1>6, <1>7 DEF Write

LEMMA TransmitKeeps ==
    ASSUME ConnOK, NEW k \in Keys, NEW s \in Session, NEW c \in BOOLEAN,
           s.conn => s.local \in LocalDiscrs,
           SpeaksFor(s, buf[k]), SpeaksFor(s, heard[k]), Transmit(k, s, c)
    PROVE  /\ ConnOK'
           /\ SpeaksFor(s, buf'[k]) /\ SpeaksFor(s, heard'[k])
           /\ \A j \in Keys \ {k} : buf'[j] = buf[j] /\ heard'[j] = heard[j]
<1>1. CASE MayAnnounce(s) /\ s.conn
  <2> DEFINE p == Announced(s)
  <2>1. p \in OutPackets /\ p.my = s.local
    BY AnnouncedOK
  <2>2. Write(k, p, c)
    BY <1>1 DEF Transmit
  <2>3. s # NoSession /\ s.conn /\ s.local # NoDiscr
    BY <1>1, CppAssumption DEF LocalDiscrs, NoDiscr
  <2> HIDE DEF p
  <2>4. SpeaksFor(s, p)
    BY <2>1, <2>3 DEF SpeaksFor
  <2>5. /\ ConnOK' /\ buf' = [buf EXCEPT ![k] = p]
        /\ \A j \in Keys \ {k} : heard'[j] = heard[j]
        /\ \/ heard'[k] \in {heard[k], p}
           \/ buf[k] # NoPacket /\ heard'[k] \in Torn(buf[k], p)
    BY <2>1, <2>2, WriteKeeps
  <2>6. buf'[k] = p /\ \A j \in Keys \ {k} : buf'[j] = buf[j]
    BY <2>5 DEF ConnOK
  <2>7. SpeaksFor(s, heard'[k])
    <3>1. CASE heard'[k] \in {heard[k], p}
      BY <2>4, <3>1
    <3>2. CASE buf[k] # NoPacket /\ heard'[k] \in Torn(buf[k], p)
      <4>1. heard'[k].my \in {buf[k].my, p.my}
        BY <3>2 DEF Torn
      <4>2. buf[k].my = s.local
        BY <3>2 DEF SpeaksFor
      <4> QED BY <2>1, <2>3, <4>1, <4>2 DEF SpeaksFor
    <3> QED BY <2>5, <3>1, <3>2
  <2> QED BY <2>4, <2>5, <2>6, <2>7
<1>2. CASE ~(MayAnnounce(s) /\ s.conn)
  BY <1>2 DEF Transmit, connVars, ConnOK, Backed
<1> QED BY <1>1, <1>2

LEMMA TransmitLast ==
    ASSUME ConnOK, LastWordLeaves, NEW k \in Keys, NEW s, NEW c, Transmit(k, s, c)
    PROVE  LastWordLeaves'
<1>1. MaxPending \in Nat \ {0} /\ pending[k] \in 0 .. MaxPending
  BY CppAssumption DEF ConnOK
<1>2. CASE Write(k, Announced(s), c)
  <2> DEFINE p == Announced(s)
  <2>1. Queued(pending[k]) # 0
    BY <1>1 DEF Queued
  <2> HIDE DEF p
  <2>2. /\ Write(k, p, c)
    BY <1>2 DEF p
  <2> QED BY <1>1, <2>1, <2>2 DEF Write, LastWordLeaves, ConnOK
<1>3. CASE UNCHANGED connVars
  BY <1>3 DEF connVars, LastWordLeaves
<1> QED BY <1>2, <1>3 DEF Transmit

-----------------------------------------------------------------------------
(* The actions *)

Sessions == [Keys -> Session \cup {NoSession}]

LEMMA FoundOK ==
    ASSUME TypeOK, NEW k \in Keys, sess[k] # NoSession
    PROVE  sess[k] \in Session
  BY DEF TypeOK

\* No session of a key: nothing was written for it.
LEMMA Unwritten ==
    ASSUME IInv, NEW k \in Keys, ~Attached(k)
    PROVE  \A s : SpeaksFor(s, buf[k]) /\ SpeaksFor(s, heard[k])
  BY DEF IInv, Speaking, SpeaksFor, Attached

\* Nothing was said, or a session said it that is still the same.
LEMMA AdoptKeeps ==
    ASSUME IInv, NEW k \in Keys, NEW pkt \in Inputs, Adopt(k, pkt)
    PROVE  IInv'
<1> DEFINE s == [InitSession EXCEPT !.remote = pkt.my, !.local = pkt.your]
<1>1. sess[k] = NoSession /\ sess' = [sess EXCEPT ![k] = s] /\ Transmit(k, s, FALSE)
      /\ UNCHANGED <<incr, handed, expired, held, timerVars>>
  BY DEF Adopt
<1>2. s \in Session /\ ~s.conn
  BY InputFields, InitSessionOK DEF InitSession, Session
<1> HIDE DEF s
<1>3. UNCHANGED connVars
  BY <1>1, <1>2 DEF Transmit
<1>4. TypeOK'
  BY <1>1, <1>2, <1>3 DEF IInv, TypeOK, connVars, timerVars
<1>5. \A j \in Keys : sess'[j] = IF j = k THEN s ELSE sess[j]
  BY <1>1 DEF IInv, TypeOK
<1>6. \A j \in Keys : Attached(j)' => Attached(j) /\ sess'[j] = sess[j]
  BY <1>2, <1>5, CppAssumption DEF Attached
<1>7. Counted' /\ Numbered' /\ DiscrUnique'
  BY <1>1, <1>6 DEF IInv, Counted, Numbered, DiscrUnique
<1>8. ~Attached(k)
  BY <1>1 DEF Attached
<1>9. \A j \in Keys : SpeaksFor(sess'[j], buf[j]) /\ SpeaksFor(sess'[j], heard[j])
  BY <1>5, <1>8, Unwritten DEF IInv, Speaking
<1>10. Backed' /\ Speaking'
  BY <1>3, <1>9 DEF IInv, Backed, Speaking, connVars
<1>11. Waiting'
  BY <1>1, <1>2, <1>5, CppAssumption DEF IInv, TypeOK, Waiting, timerVars
<1> QED BY <1>4, <1>7, <1>10, <1>11 DEF IInv

\* What Advance does to the map, and that it may transmit for the session.
LEMMA AdvanceIs ==
    ASSUME IInv, NEW k \in Keys, NEW pkt \in Inputs, Advance(k, pkt)
    PROVE  \E s, t \in Session :
              /\ IF sess[k] = NoSession THEN s = InitSession ELSE s = sess[k]
              /\ s.conn <=> Attached(k)
              /\ t.conn /\ t.state = NextState(s.state, pkt.state)
              /\ t.remoteState = pkt.state
              /\ t.local = IF s.conn THEN s.local ELSE Discr
              /\ sess' = [sess EXCEPT ![k] = t]
              /\ incr' = CounterAfter(s)
              /\ handed' = IF s.conn \/ handed = MaxHanded THEN handed ELSE handed + 1
              /\ expired' = expired \ {k} /\ late' = late \ {k}
              /\ Transmit(k, t, FALSE) \/ UNCHANGED connVars
<1> DEFINE s == IF sess[k] = NoSession THEN InitSession ELSE sess[k]
           t == Updated(s, pkt, Discr)
<1>1. s \in Session /\ (s.conn <=> Attached(k))
  BY InitSessionOK, FoundOK DEF IInv, Attached
<1>2. Discr \in LocalDiscrs
  BY CounterOK DEF IInv, TypeOK
<1>3. /\ t \in Session /\ t.conn /\ t.local = IF s.conn THEN s.local ELSE Discr
      /\ t.state = NextState(s.state, pkt.state) /\ t.remoteState = pkt.state
  BY <1>1, <1>2, UpdatedOK
<1>4. IF sess[k] = NoSession THEN s = InitSession ELSE s = sess[k]
  OBVIOUS
<1>5. /\ sess' = [sess EXCEPT ![k] = t]
      /\ incr' = CounterAfter(s)
      /\ handed' = IF s.conn \/ handed = MaxHanded THEN handed ELSE handed + 1
      /\ expired' = expired \ {k} /\ late' = late \ {k}
      /\ Transmit(k, t, FALSE) \/ UNCHANGED connVars
  BY DEF Advance
<1> HIDE DEF s, t
<1> QED BY <1>1, <1>3, <1>4, <1>5

LEMMA AdvanceKeeps ==
    ASSUME IInv, NEW k \in Keys, NEW pkt \in Inputs, Advance(k, pkt),
           held' = Nothing, UNCHANGED <<timer, todo>>
    PROVE  IInv'
<1>1. PICK s \in Session, t \in Session :
              /\ IF sess[k] = NoSession THEN s = InitSession ELSE s = sess[k]
              /\ s.conn <=> Attached(k)
              /\ t.conn
              /\ t.local = IF s.conn THEN s.local ELSE Discr
              /\ sess' = [sess EXCEPT ![k] = t]
              /\ incr' = CounterAfter(s)
              /\ handed' = IF s.conn \/ handed = MaxHanded THEN handed ELSE handed + 1
              /\ expired' = expired \ {k} /\ late' = late \ {k}
              /\ Transmit(k, t, FALSE) \/ UNCHANGED connVars
  BY AdvanceIs
<1>2. /\ incr \in 0 .. DiscrLimit /\ DiscrLimit \in Nat \ {0}
      /\ sess \in Sessions /\ handed \in 0 .. MaxHanded
  BY CppAssumption DEF IInv, TypeOK, Sessions
<1>3. Discr \in LocalDiscrs /\ incr' \in 0 .. DiscrLimit
  BY <1>1, <1>2, CounterOK
<1>4. \A j \in Keys : sess'[j] = IF j = k THEN t ELSE sess[j]
  BY <1>1, <1>2 DEF Sessions
<1>5. t # NoSession /\ Attached(k)' /\ \A j \in Keys \ {k} : Attached(j)' <=> Attached(j)
  BY <1>1, <1>4, CppAssumption DEF Attached
<1>6. Attached(k) => t.local = sess[k].local
  BY <1>1 DEF Attached
<1>7. t.local \in LocalDiscrs
  BY <1>1, <1>3, <1>6 DEF IInv, Numbered
<1>8. /\ handed' \in 0 .. MaxHanded /\ handed <= handed'
      /\ ~s.conn /\ handed' < MaxHanded =>
            Discr = handed' /\ handed' = handed + 1 /\ handed <= DiscrLimit
  BY <1>1, <1>2 DEF IInv, Counted, Discr, MaxHanded
<1>8a. Counted'
  <2>1. CASE s.conn
    BY <1>1, <2>1 DEF IInv, Counted, CounterAfter
  <2>2. CASE ~s.conn
    <3>1. incr' = IF Discr > DiscrLimit THEN 0 ELSE Discr
      BY <1>1, <2>2 DEF CounterAfter
    <3> QED BY <1>2, <1>8, <2>2, <3>1 DEF Counted, MaxHanded
  <2> QED BY <2>1, <2>2
<1>8b. ASSUME NEW j \in Keys, j # k, Attached(j)'
       PROVE  /\ sess'[j] = sess[j] /\ Attached(j) /\ sess[j].local \in LocalDiscrs
              /\ handed < MaxHanded => sess[j].local <= handed
  BY <1>4, <1>5, <1>8b DEF IInv, Numbered
<1>8c. Numbered'
  <2>1. handed' < MaxHanded => t.local <= handed'
    <3>1. CASE s.conn
      BY <1>1, <1>6, <3>1 DEF IInv, Numbered
    <3>2. CASE ~s.conn
      BY <1>1, <1>2, <1>8, <3>2
    <3> QED BY <3>1, <3>2
  <2>2. ASSUME NEW j \in Keys, j # k, Attached(j)'
        PROVE  sess'[j].local \in LocalDiscrs /\ (handed' < MaxHanded => sess'[j].local <= handed')
    <3>1. sess[j].local \in Int
      BY <1>2, <1>8b, <2>2 DEF LocalDiscrs
    <3> QED BY <1>2, <1>8, <1>8b, <2>2, <3>1 DEF MaxHanded
  <2>3. sess'[k] = t
    BY <1>4
  <2> QED BY <1>7, <2>1, <2>2, <2>3 DEF Numbered
<1>9. DiscrUnique'
  <2>1. SUFFICES ASSUME handed' < MaxHanded, NEW i \in Keys, i # k, Attached(i)'
                 PROVE  sess[i].local # t.local
    <3>1. ASSUME handed' < MaxHanded, NEW i \in Keys, NEW j \in Keys, i # j,
                 Attached(i)', Attached(j)'
          PROVE  sess'[i].local # sess'[j].local
      <4>1. CASE i = k
        BY <1>4, <2>1, <3>1, <4>1
      <4>2. CASE j = k
        BY <1>4, <2>1, <3>1, <4>2
      <4>3. CASE i # k /\ j # k
        <5>1. Attached(i) /\ Attached(j) /\ handed < MaxHanded
          BY <1>2, <1>5, <1>8, <3>1, <4>3 DEF MaxHanded
        <5>2. sess'[i] = sess[i] /\ sess'[j] = sess[j]
          BY <1>4, <4>3
        <5> QED BY <3>1, <5>1, <5>2 DEF IInv, DiscrUnique
      <4> QED BY <4>1, <4>2, <4>3
    <3> QED BY <3>1 DEF DiscrUnique
  <2>2. handed < MaxHanded /\ Attached(i)
    BY <1>2, <1>8, <1>8b, <2>1 DEF MaxHanded
  <2>3. CASE Attached(k)
    BY <1>6, <2>1, <2>2, <2>3 DEF IInv, DiscrUnique
  <2>4. CASE ~Attached(k)
    <3>1. sess[i].local \in Int /\ sess[i].local <= handed
      BY <1>2, <1>8b, <2>1, <2>2 DEF LocalDiscrs
    <3>2. t.local = handed + 1
      BY <1>1, <1>8, <2>1, <2>4
    <3> QED BY <1>2, <3>1, <3>2
  <2> QED BY <2>3, <2>4
<1>10. SpeaksFor(t, buf[k]) /\ SpeaksFor(t, heard[k])
  <2>1. CASE Attached(k)
    BY <1>1, <1>5, <1>6, <2>1 DEF IInv, Speaking, SpeaksFor
  <2>2. CASE ~Attached(k)
    BY <2>2, Unwritten
  <2> QED BY <2>1, <2>2
<1>11. ConnOK
  BY DEF IInv, TypeOK, ConnOK
<1>12. /\ ConnOK'
       /\ SpeaksFor(t, buf'[k]) /\ SpeaksFor(t, heard'[k])
       /\ \A j \in Keys \ {k} : buf'[j] = buf[j] /\ heard'[j] = heard[j]
  <2>1. CASE Transmit(k, t, FALSE)
    BY <1>7, <1>10, <1>11, <2>1, TransmitKeeps
  <2>2. CASE UNCHANGED connVars
    BY <1>10, <1>11, <2>2 DEF connVars, ConnOK, Backed
  <2> QED BY <1>1, <2>1, <2>2
<1>13. Speaking'
  BY <1>4, <1>12 DEF Speaking, IInv
<1>14. TypeOK'
  <2>1. sess' \in Sessions
    BY <1>1, <1>2 DEF Sessions
  <2>2. expired' \subseteq Keys /\ late' \subseteq Keys /\ handed' \in 0 .. MaxHanded
    BY <1>1, <1>2, <1>8 DEF IInv, TypeOK
  <2> QED BY <1>3, <1>12, <2>1, <2>2 DEF IInv, TypeOK, ConnOK, Sessions
<1>15. Waiting'
  BY <1>4, <1>5 DEF IInv, TypeOK, Waiting
<1> QED BY <1>9, <1>12, <1>13, <1>14, <1>15, <1>8a, <1>8c DEF IInv, ConnOK

\* Steps that change no session and no connection.
LEMMA StillKeeps ==
    ASSUME IInv, TypeOK', Waiting', UNCHANGED <<sess, incr, handed, connVars>>
    PROVE  IInv'
  BY DEF IInv, Counted, Numbered, DiscrUnique, Attached, Backed, Speaking, connVars

LEMMA NextKeeps ==
    ASSUME IInv, [Next]_vars
    PROVE  IInv'
<1>1. ASSUME NEW k \in Keys, NEW pkt \in Says[k], Receive(k, pkt)
      PROVE  IInv'
  <2>1. pkt \in Inputs
    BY <1>1, CppAssumption
  <2>2. CASE Adopt(k, pkt)
    BY <2>1, <2>2, AdoptKeeps
  <2>3. CASE Enter(k, pkt)
    <3>1. TypeOK'
      BY <2>1, <2>3 DEF Enter, IInv, TypeOK, sessVars, timerVars, connVars
    <3> QED BY <2>3, <3>1, StillKeeps DEF Enter, sessVars, timerVars, IInv, Waiting
  <2> QED BY <1>1, <2>2, <2>3 DEF Receive
<1>2. ASSUME NEW k \in Keys, held # Nothing, Process(k, held[2])
      PROVE  IInv'
  <2> DEFINE pkt == held[2]
  <2>1. pkt \in Inputs
    BY <1>2 DEF IInv, TypeOK
  <2>2. /\ held' = Nothing /\ UNCHANGED <<timer, todo>>
        /\ (UNCHANGED <<sessVars, late, connVars>>) \/ Advance(k, pkt)
    BY <1>2 DEF Process
  <2> HIDE DEF pkt
  <2>3. CASE UNCHANGED <<sessVars, late, connVars>>
    <3>1. TypeOK'
      BY <2>2, <2>3 DEF IInv, TypeOK, sessVars, connVars
    <3> QED BY <2>2, <2>3, <3>1, StillKeeps DEF sessVars, IInv, Waiting
  <2>4. CASE Advance(k, pkt)
    BY <2>1, <2>2, <2>4, AdvanceKeeps
  <2> QED BY <2>2, <2>3, <2>4
<1>3. ASSUME NEW k \in Keys, Flush(k)
      PROVE  IInv'
  <2>1. /\ pending[k] > 0 /\ pending' = [pending EXCEPT ![k] = @ - 1]
        /\ heard' = [heard EXCEPT ![k] = buf[k]]
        /\ UNCHANGED <<sess, incr, handed, expired, held, timer, late, todo, buf>>
    BY <1>3 DEF Flush, sessVars, timerVars
  <2>2. MaxPending \in Nat /\ pending[k] \in 0 .. MaxPending
    BY CppAssumption DEF IInv, TypeOK
  <2>3. pending' \in [Keys -> 0 .. MaxPending] /\ \A j \in Keys : pending'[j] <= pending[j]
    BY <2>1, <2>2, CppAssumption DEF IInv, TypeOK
  <2>4. TypeOK'
    BY <2>1, <2>3 DEF IInv, TypeOK
  <2>5. Backed'
    <3>1. SUFFICES ASSUME NEW j \in Keys, pending'[j] > 0 PROVE buf[j] # NoPacket
      BY <2>1 DEF Backed
    <3>2. pending[j] \in 0 .. MaxPending /\ pending'[j] \in 0 .. MaxPending
      BY <2>3 DEF IInv, TypeOK
    <3> QED BY <2>2, <2>3, <3>1, <3>2 DEF IInv, Backed
  <2>6. Speaking'
    BY <2>1 DEF IInv, TypeOK, Speaking
  <2>7. Counted' /\ Numbered' /\ DiscrUnique'
    BY <2>1 DEF IInv, Counted, Numbered, DiscrUnique, Attached
  <2> QED BY <2>1, <2>4, <2>5, <2>6, <2>7 DEF IInv, Waiting
<1>4. ASSUME NEW k \in Keys, TimerTransmit(k)
      PROVE  IInv'
  <2>1. /\ k \in todo /\ Transmit(k, sess[k], held = Nothing)
        /\ todo' = todo \ {k} /\ timer' = IF todo' = {} THEN "asleep" ELSE "pass"
        /\ UNCHANGED <<sess, incr, handed, expired, held, late>>
    BY <1>4 DEF TimerTransmit, sessVars
  <2>2. sess[k] \in Session
    BY <2>1, FoundOK DEF IInv, TypeOK, Waiting
  <2> QED
    <3>1. ConnOK /\ (sess[k].conn => sess[k].local \in LocalDiscrs)
          /\ SpeaksFor(sess[k], buf[k]) /\ SpeaksFor(sess[k], heard[k])
      BY <2>2, CppAssumption DEF IInv, TypeOK, ConnOK, Numbered, Attached, Speaking
    <3>2. /\ ConnOK'
          /\ SpeaksFor(sess[k], buf'[k]) /\ SpeaksFor(sess[k], heard'[k])
          /\ \A j \in Keys \ {k} : buf'[j] = buf[j] /\ heard'[j] = heard[j]
      BY <2>1, <2>2, <3>1, TransmitKeeps
    <3>3. Speaking'
      BY <2>1, <3>2 DEF IInv, Speaking
    <3>4. TypeOK'
      BY <2>1, <3>2 DEF IInv, TypeOK, ConnOK
    <3>5. Counted' /\ Numbered' /\ DiscrUnique'
      BY <2>1 DEF IInv, Counted, Numbered, DiscrUnique, Attached
    <3> QED BY <2>1, <3>2, <3>3, <3>4, <3>5 DEF IInv, ConnOK, Waiting
<1>5. ASSUME NEW k \in Keys, Expire(k)
      PROVE  IInv'
  <2>1. TypeOK'
    BY <1>5 DEF Expire, IInv, TypeOK, timerVars, connVars
  <2> QED BY <1>5, <2>1, StillKeeps DEF Expire, timerVars, IInv, Waiting
<1>6. ASSUME Wake
      PROVE  IInv'
  <2>1. TypeOK'
    BY <1>6 DEF Wake, IInv, TypeOK, sessVars, connVars
  <2> QED BY <1>6, <2>1, StillKeeps DEF Wake, sessVars, IInv, Waiting
<1>7. ASSUME Lock
      PROVE  IInv'
  <2>1. TypeOK'
    BY <1>7 DEF Lock, IInv, TypeOK, sessVars, connVars
  <2> QED BY <1>7, <2>1, StillKeeps DEF Lock, sessVars, Eligible, Waiting
<1>8. ASSUME Restart
      PROVE  IInv'
  <2>1. /\ sess' = [k \in Keys |-> NoSession] /\ incr' = 0 /\ handed' = 0
        /\ held' = Nothing /\ expired' = Keys /\ timer' = "asleep"
        /\ late' = {} /\ todo' = {}
        /\ buf' = [k \in Keys |-> NoPacket] /\ pending' = [k \in Keys |-> 0]
        /\ heard' = [k \in Keys |-> NoPacket]
    BY <1>8 DEF Restart
  <2>2. TypeOK'
    <3>1. MaxPending \in Nat /\ DiscrLimit \in Nat
      BY CppAssumption
    <3>2. sess' \in [Keys -> Session \cup {NoSession}]
      BY <2>1
    <3>3. /\ buf' \in [Keys -> OutPackets \cup {NoPacket}]
          /\ heard' \in [Keys -> OutPackets \cup {NoPacket}]
      BY <2>1
    <3>4. pending' \in [Keys -> 0 .. MaxPending] /\ incr' \in 0 .. DiscrLimit
      BY <2>1, <3>1
    <3>5. /\ handed' \in 0 .. MaxHanded /\ held' \in (Keys \X Inputs) \cup {Nothing}
          /\ expired' \subseteq Keys /\ late' \subseteq Keys
          /\ timer' \in {"asleep", "awake", "pass"}
          /\ todo' \subseteq Keys /\ (todo' # {} <=> timer' = "pass")
      BY <2>1, <3>1 DEF MaxHanded
    <3> QED BY <3>2, <3>3, <3>4, <3>5 DEF TypeOK
  <2>3. \A k \in Keys : ~Attached(k)'
    BY <2>1 DEF Attached
  <2>4. Counted' /\ Numbered' /\ DiscrUnique'
    BY <2>1, <2>3 DEF Counted, Numbered, DiscrUnique
  <2>5. Backed' /\ Speaking' /\ Waiting'
    BY <2>1 DEF Backed, Speaking, SpeaksFor, Waiting
  <2> QED BY <2>2, <2>4, <2>5 DEF IInv
<1>9. CASE UNCHANGED vars
  <2>1. TypeOK'
    BY <1>9 DEF vars, sessVars, timerVars, connVars, IInv, TypeOK
  <2> QED BY <1>9, <2>1, StillKeeps DEF vars, sessVars, timerVars, IInv, Waiting
<1> QED BY <1>1, <1>2, <1>3, <1>4, <1>5, <1>6, <1>7, <1>8, <1>9 DEF Next

LEMMA InitHolds ==
    ASSUME Init
    PROVE  IInv /\ LastWordLeaves
<1>1. TypeOK
  <2>1. MaxPending \in Nat /\ DiscrLimit \in Nat
    BY CppAssumption
  <2>2. sess \in [Keys -> Session \cup {NoSession}]
    BY DEF Init
  <2>3. /\ buf \in [Keys -> OutPackets \cup {NoPacket}]
        /\ heard \in [Keys -> OutPackets \cup {NoPacket}]
    BY DEF Init
  <2>4. pending \in [Keys -> 0 .. MaxPending] /\ incr \in 0 .. DiscrLimit
    BY <2>1 DEF Init
  <2>5. /\ handed \in 0 .. MaxHanded /\ held \in (Keys \X Inputs) \cup {Nothing}
        /\ expired \subseteq Keys /\ late \subseteq Keys
        /\ timer \in {"asleep", "awake", "pass"}
        /\ todo \subseteq Keys /\ (todo # {} <=> timer = "pass")
    BY <2>1 DEF Init, MaxHanded
  <2> QED BY <2>2, <2>3, <2>4, <2>5 DEF TypeOK
<1>2. \A k \in Keys : ~Attached(k)
  BY DEF Init, Attached
<1>3. Counted /\ Numbered /\ DiscrUnique
  BY <1>2 DEF Init, Counted, Numbered, DiscrUnique
<1>4. Backed /\ Speaking /\ Waiting /\ LastWordLeaves
  BY DEF Init, Backed, Speaking, SpeaksFor, Waiting, LastWordLeaves
<1> QED BY <1>1, <1>3, <1>4 DEF IInv

-----------------------------------------------------------------------------
(* Theorems *)

(* What both threads keep true of the map of sessions and of the write      *)
(* buffers (bfdd_cpp_session_manager.hpp:97-214, bfdd_cpp_conn.hpp:30-39).  *)
THEOREM InductiveInvariant == Spec => []IInv
<1>1. Init => IInv
  BY InitHolds
<1>2. IInv /\ [Next]_vars => IInv'
  BY NextKeeps
<1> QED BY <1>1, <1>2, PTL DEF Spec

(* The sessions, the counter, the queues and the timer's work list stay     *)
(* well formed (bfdd_cpp_session_manager.hpp:97-214).                       *)
THEOREM TypeCorrect == Spec => []TypeOK
<1>1. IInv => TypeOK
  BY DEF IInv
<1> QED BY <1>1, InductiveInvariant, PTL

(* No two sessions announce one discriminator before the counter has run    *)
(* through its range, however the packets' two critical sections interleave *)
(* (bfdd_cpp_session_manager.hpp:134-140).                                  *)
THEOREM DiscriminatorsUnique == Spec => []DiscrUnique
<1>1. IInv => DiscrUnique
  BY DEF IInv
<1> QED BY <1>1, InductiveInvariant, PTL

(* Whatever the two threads did to a write buffer, a neighbour hears only   *)
(* our discriminator for its session (bfdd_cpp_conn.hpp:30-39).             *)
THEOREM SpeaksOnlyOwn == Spec => []SpeaksOwnDiscr
<1>1. IInv => SpeaksOwnDiscr
  <2>1. SUFFICES ASSUME IInv, NEW k \in Keys, NEW p \in {buf[k], heard[k]} \ {NoPacket}
                 PROVE  Attached(k) /\ p.my = sess[k].local /\ p.my # NoDiscr
    BY DEF SpeaksOwnDiscr
  <2> QED BY <2>1 DEF IInv, Speaking, SpeaksFor, Attached
<1> QED BY <1>1, InductiveInvariant, PTL

(* Overwriting the buffer of a queued send delays no word for good: when    *)
(* the queue is empty the last word written is the last that left           *)
(* (bfdd_cpp_conn.hpp:30-39).                                               *)
THEOREM LastWordsLeave == Spec => []LastWordLeaves
<1>1. Init => LastWordLeaves
  BY InitHolds
<1>2. ASSUME IInv, LastWordLeaves, [Next]_vars
      PROVE  LastWordLeaves'
  <2>1. ConnOK
    BY <1>2 DEF IInv, TypeOK, ConnOK
  <2>2. ASSUME UNCHANGED connVars
        PROVE  LastWordLeaves'
    BY <1>2, <2>2 DEF connVars, LastWordLeaves
  <2>3. ASSUME NEW k \in Keys, NEW pkt \in Says[k], Receive(k, pkt)
        PROVE  LastWordLeaves'
    <3>1. CASE Adopt(k, pkt)
      <4>1. \E s : Transmit(k, s, FALSE)
        BY <3>1 DEF Adopt
      <4> QED BY <1>2, <2>1, <4>1, TransmitLast
    <3>2. CASE Enter(k, pkt)
      BY <2>2, <3>2 DEF Enter
    <3> QED BY <2>3, <3>1, <3>2 DEF Receive
  <2>4. ASSUME NEW k \in Keys, held # Nothing, Process(k, held[2])
        PROVE  LastWordLeaves'
    <3>1. UNCHANGED connVars \/ \E s : Transmit(k, s, FALSE)
      BY <2>4 DEF Process, Advance
    <3> QED BY <1>2, <2>1, <2>2, <3>1, TransmitLast
  <2>5. ASSUME NEW k \in Keys, Flush(k)
        PROVE  LastWordLeaves'
    <3>1. /\ pending[k] > 0 /\ pending' = [pending EXCEPT ![k] = @ - 1]
          /\ heard' = [heard EXCEPT ![k] = buf[k]] /\ buf' = buf
      BY <2>5 DEF Flush
    <3> QED BY <1>2, <2>1, <3>1 DEF LastWordLeaves, ConnOK
  <2>6. ASSUME NEW k \in Keys, TimerTransmit(k)
        PROVE  LastWordLeaves'
    <3>1. Transmit(k, sess[k], held = Nothing)
      BY <2>6 DEF TimerTransmit
    <3> QED BY <1>2, <2>1, <3>1, TransmitLast
  <2>7. ASSUME NEW k \in Keys, Expire(k)
        PROVE  LastWordLeaves'
    BY <2>2, <2>7 DEF Expire
  <2>8. CASE Wake \/ Lock
    BY <2>2, <2>8 DEF Wake, Lock
  <2>9. CASE Restart
    BY <2>9 DEF Restart, LastWordLeaves
  <2>10. CASE UNCHANGED vars
    BY <2>2, <2>10 DEF vars
  <2> QED BY <1>2, <2>3, <2>4, <2>5, <2>6, <2>7, <2>8, <2>9, <2>10 DEF Next
<1>3. IInv /\ LastWordLeaves /\ [Next]_vars => LastWordLeaves'
  BY <1>2
<1> QED BY <1>1, <1>3, InductiveInvariant, PTL DEF Spec

(* A clock reading from before the wait for the mutex judges no session     *)
(* worse than a fresh one would: handlers that renew a session in between   *)
(* are seen, and the pass leaves out none that is alive when it begins      *)
(* (bfdd_cpp_session_manager.hpp:191-207).                                  *)
THEOREM PassesServeAlive == Spec => PassServesAlive
<1> DEFINE Past == late \subseteq expired
<1>1. Init => Past
  BY DEF Init
<1>2. ASSUME Past, [Next]_vars
      PROVE  Past'
  <2>1. ASSUME UNCHANGED <<expired, late>> \/ (late' = expired /\ expired' = expired)
        PROVE  Past'
    BY <1>2, <2>1
  <2>2. ASSUME NEW k \in Keys, NEW pkt \in Says[k], Receive(k, pkt)
        PROVE  Past'
    BY <2>1, <2>2 DEF Receive, Adopt, Enter, sessVars, timerVars
  <2>3. ASSUME NEW k \in Keys, held # Nothing, Process(k, held[2])
        PROVE  Past'
    <3>1. \/ UNCHANGED <<expired, late>>
          \/ expired' = expired \ {k} /\ late' = late \ {k}
      BY <2>3 DEF Process, Advance, sessVars
    <3> QED BY <1>2, <3>1
  <2>4. ASSUME NEW k \in Keys, Flush(k) \/ TimerTransmit(k)
        PROVE  Past'
    BY <2>1, <2>4 DEF Flush, TimerTransmit, sessVars, timerVars
  <2>5. ASSUME NEW k \in Keys, Expire(k)
        PROVE  Past'
    BY <1>2, <2>5 DEF Expire, timerVars
  <2>6. CASE Wake \/ UNCHANGED vars
    BY <2>1, <2>6 DEF Wake, vars, sessVars, timerVars
  <2>7. CASE Lock \/ Restart
    BY <2>7 DEF Lock, Restart
  <2> QED BY <1>2, <2>2, <2>3, <2>4, <2>5, <2>6, <2>7 DEF Next
<1>3. ASSUME Past, Lock, NEW k \in Keys, Alive(k)
      PROVE  k \in todo'
  BY <1>3 DEF Lock, Eligible, MayPeriodically, Alive
<1>4. Past /\ [Next]_vars => Past'
  BY <1>2
<1>5. Past => [Lock => \A k \in Keys : Alive(k) => k \in todo']_vars
  BY <1>3
<1> HIDE DEF Past
<1> QED BY <1>1, <1>4, <1>5, PTL DEF Spec, PassServesAlive

-----------------------------------------------------------------------------
(* The refinement *)

(* What one step can do to the session of k.                                *)
Created(k) ==
    /\ sess[k] = NoSession /\ sess'[k] # NoSession
    /\ sess'[k].state = Down /\ sess'[k].remoteState = Down

Met(k) ==
    /\ sess[k] = NoSession /\ sess'[k] # NoSession
    /\ sess'[k].state = Init_ /\ sess'[k].remoteState = Down

Heard(k, r) ==
    /\ sess[k] # NoSession /\ sess'[k] # NoSession
    /\ sess'[k].remoteState = r
    /\ sess'[k].state = NextState(sess[k].state, r)

Moved(k) ==
    \/ sess'[k] = sess[k]
    \/ sess'[k] = NoSession
    \/ Created(k) \/ Met(k) \/ \E r \in RemoteStates : Heard(k, r)

LEMMA NextStateFollows ==
    ASSUME NEW k \in Keys, NEW s \in SessionStates, NEW r \in RemoteStates
    PROVE  NextState(s, r) \in Fsm(k)!Follows(s, r)
  BY DEF NextState, Fsm!Follows, SessionStates, RemoteStates, AdminDown, Down,
         Init_, Up, Fsm!AdminDown, Fsm!Down, Fsm!Init_, Fsm!Up

LEMMA MovedIsStep ==
    ASSUME IInv, NEW k \in Keys, Moved(k)
    PROVE  [Fsm(k)!Step]_<<StOf(k), HeardOf(k)>>
<1>1. CASE sess'[k] = sess[k]
  BY <1>1 DEF StOf, HeardOf
<1>2. CASE sess'[k] = NoSession
  BY <1>2 DEF StOf, HeardOf, Fsm!Step, Fsm!Forget, Down, Fsm!Down
<1>3. CASE Created(k)
  BY <1>3 DEF Created, StOf, HeardOf, Fsm!Step, Fsm!Create, Down, Fsm!Down
<1>4. CASE Met(k)
  <2>1. NextState(Down, Down) = Init_
    BY DEF NextState, Down, Init_, Up, AdminDown
  <2>2. Init_ \in Fsm(k)!Follows(Down, Down) /\ Fsm(k)!Down = Down
    BY <2>1, NextStateFollows DEF SessionStates, RemoteStates, Down, Fsm!Down
  <2>3. StOf(k) = NoSession /\ StOf(k)' = Init_ /\ HeardOf(k)' = Down
    BY <1>4 DEF Met, StOf, HeardOf
  <2>4. Fsm(k)!Meet
    BY <2>2, <2>3 DEF Fsm!Meet
  <2> QED BY <2>4 DEF Fsm!Step
<1>5. CASE \E r \in RemoteStates : Heard(k, r)
  <2>1. PICK r \in RemoteStates : Heard(k, r)
    BY <1>5
  <2>2. sess[k].state \in SessionStates /\ sess[k].state # NoSession
    BY <2>1, FoundOK, CppAssumption DEF Heard, IInv, Session
  <2>3. /\ StOf(k) = sess[k].state /\ StOf(k) # NoSession
        /\ StOf(k)' = NextState(sess[k].state, r) /\ HeardOf(k)' = r
    BY <2>1, <2>2 DEF Heard, StOf, HeardOf
  <2>4. Fsm(k)!Hear(r)
    BY <2>2, <2>3, NextStateFollows DEF Fsm!Hear
  <2>5. r \in Fsm(k)!RemoteStates
    BY DEF RemoteStates, Fsm!RemoteStates, AdminDown, Down, Init_, Up,
           Fsm!AdminDown, Fsm!Down, Fsm!Init_, Fsm!Up
  <2> QED BY <2>4, <2>5 DEF Fsm!Step
<1> QED BY <1>1, <1>2, <1>3, <1>4, <1>5 DEF Moved

(* Whichever thread takes the mutex between the two critical sections of a  *)
(* handler, each session in the map is an abstract BFD session              *)
(* (bfdd_cpp_session_manager.hpp:97-171, 216-297).                          *)
THEOREM SessionsAreBfd == Spec => ImplementsBfdFsm
<1>1. Init => \A k \in Keys : Fsm(k)!Start
  BY DEF Init, Fsm!Start, StOf, HeardOf, Down, Fsm!Down
<1>2. ASSUME IInv, Next
      PROVE  \A j \in Keys : Moved(j)
  <2>1. sess \in [Keys -> Session \cup {NoSession}]
    BY <1>2 DEF IInv, TypeOK
  <2>2. CASE UNCHANGED sess
    BY <2>2 DEF Moved
  <2>3. ASSUME NEW k \in Keys, NEW pkt \in Inputs, Adopt(k, pkt)
        PROVE  \A j \in Keys : Moved(j)
    <3> DEFINE s == [InitSession EXCEPT !.remote = pkt.my, !.local = pkt.your]
    <3>1. sess[k] = NoSession /\ sess' = [sess EXCEPT ![k] = s]
      BY <2>3 DEF Adopt
    <3>2. s \in Session /\ s.state = Down /\ s.remoteState = Down
      BY InputFields, InitSessionOK DEF InitSession, Session
    <3> HIDE DEF s
    <3>3. s # NoSession
      BY <3>2, CppAssumption
    <3>4. \A j \in Keys \ {k} : sess'[j] = sess[j]
      BY <2>1, <3>1
    <3>5. Created(k)
      BY <2>1, <3>1, <3>2, <3>3 DEF Created
    <3> QED BY <3>4, <3>5 DEF Moved
  <2>4. ASSUME NEW k \in Keys, NEW pkt \in Inputs, Advance(k, pkt),
               sess[k] = NoSession => pkt.state = Down
        PROVE  \A j \in Keys : Moved(j)
    <3>1. PICK s \in Session, t \in Session :
             /\ IF sess[k] = NoSession THEN s = InitSession ELSE s = sess[k]
             /\ s.conn <=> Attached(k)
             /\ t.conn /\ t.state = NextState(s.state, pkt.state)
             /\ t.remoteState = pkt.state
             /\ t.local = IF s.conn THEN s.local ELSE Discr
             /\ sess' = [sess EXCEPT ![k] = t]
             /\ incr' = CounterAfter(s)
             /\ handed' = IF s.conn \/ handed = MaxHanded THEN handed ELSE handed + 1
             /\ expired' = expired \ {k} /\ late' = late \ {k}
             /\ Transmit(k, t, FALSE) \/ UNCHANGED connVars
      BY <1>2, <2>4, AdvanceIs, Zenon
    <3>2. t # NoSession /\ pkt.state \in RemoteStates
      BY InputFields, CppAssumption
    <3>3. sess'[k] = t /\ \A j \in Keys \ {k} : sess'[j] = sess[j]
      BY <2>1, <3>1
    <3>4. CASE sess[k] = NoSession
      <4>1. t.state = NextState(Down, Down) /\ t.remoteState = Down
        BY <2>4, <3>1, <3>4 DEF InitSession
      <4>2. NextState(Down, Down) = Init_
        BY DEF NextState, Down, Init_, Up, AdminDown
      <4>3. Met(k)
        BY <3>2, <3>3, <3>4, <4>1, <4>2 DEF Met
      <4> QED BY <3>3, <4>3 DEF Moved
    <3>5. CASE sess[k] # NoSession
      <4>1. Heard(k, pkt.state)
        BY <3>1, <3>2, <3>3, <3>5 DEF Heard
      <4> QED BY <3>2, <3>3, <4>1 DEF Moved
    <3> QED BY <3>4, <3>5
  <2>5. ASSUME NEW k \in Keys, NEW pkt \in Says[k], Receive(k, pkt)
        PROVE  \A j \in Keys : Moved(j)
    <3>1. pkt \in Inputs
      BY <2>5, CppAssumption
    <3> QED BY <2>2, <2>3, <2>5, <3>1 DEF Receive, Enter, sessVars
  <2>6. ASSUME NEW k \in Keys, held # Nothing, Process(k, held[2])
        PROVE  \A j \in Keys : Moved(j)
    <3>1. held[2] \in Inputs
      BY <1>2, <2>6 DEF IInv, TypeOK
    <3>2. \/ UNCHANGED sess
          \/ Advance(k, held[2]) /\ (sess[k] = NoSession => held[2].state = Down)
      BY <2>6 DEF Process, sessVars
    <3> QED BY <2>2, <2>4, <3>1, <3>2
  <2>7. ASSUME NEW k \in Keys, Flush(k) \/ TimerTransmit(k) \/ Expire(k)
        PROVE  \A j \in Keys : Moved(j)
    BY <2>2, <2>7 DEF Flush, TimerTransmit, Expire, sessVars
  <2>8. CASE Wake \/ Lock
    BY <2>2, <2>8 DEF Wake, Lock, sessVars
  <2>9. CASE Restart
    BY <2>9 DEF Restart, Moved
  <2> QED BY <1>2, <2>5, <2>6, <2>7, <2>8, <2>9 DEF Next
<1>3. IInv /\ [Next]_vars =>
        [\A k \in Keys : [Fsm(k)!Step]_<<StOf(k), HeardOf(k)>>]_vars
  BY <1>2, MovedIsStep
<1> QED BY <1>1, <1>3, InductiveInvariant, PTL DEF Spec, ImplementsBfdFsm
=============================================================================
