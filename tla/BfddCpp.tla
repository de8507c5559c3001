------------------------------ MODULE BfddCpp ------------------------------
(***************************************************************************)
(* The C++ daemon, bfdd_cpp/: two threads around one map of sessions.  The *)
(* io thread runs the io_service: it handles received packets, taking the  *)
(* manager's mutex twice in one handler, and finishes the sends that could *)
(* not be made at once.  The timer thread wakes every `delay' us, reads    *)
(* the clock, and only then takes the mutex and transmits for every        *)
(* session that is still alive by that clock.                              *)
(*                                                                         *)
(* A send goes through the one write buffer of the session's connection:   *)
(* when the socket does not take the packet at once, the operation stays   *)
(* queued with a pointer to that buffer, and later writes change what it   *)
(* will send.                                                              *)
(***************************************************************************)
EXTENDS BfdDefs

CONSTANTS
    Keys,           \* remote address and port, the key of the map
    DiscrLimit,     \* 0x7fffffff: past it the discriminator counter restarts
    PeerDiscrs,     \* discriminators that occur in received packets
    Polls, Finals,  \* values of those packet bits that occur
    Says,           \* the packets each neighbour may send, [Keys -> SUBSET Inputs]
    MaxPending,     \* bound on the queued sends of a connection that are told apart
    NoSession, NoPacket, Nothing

LocalDiscrs == 1 .. DiscrLimit + 1
\* The counter has handed out all of these, and one again.
MaxHanded == DiscrLimit + 2
Discrs == {NoDiscr} \cup LocalDiscrs \cup PeerDiscrs

\* A packet as this daemon looks at it: `paced' is "its Required Min RX
\* Interval is not zero", without which nothing is sent periodically.
Inputs == [wellFormed : {TRUE}, state : RemoteStates, poll : Polls,
           final : Finals, paced : BOOLEAN, my : {NoDiscr} \cup PeerDiscrs,
           your : {NoDiscr} \cup PeerDiscrs]

Session == [state : SessionStates, remoteState : RemoteStates,
            local : Discrs, remote : Discrs, pollbit : BOOLEAN,
            terminate : BOOLEAN, paced : BOOLEAN, conn : BOOLEAN]

OutPackets == [state : SessionStates, final : BOOLEAN, my : Discrs, your : Discrs]

ASSUME CppAssumption ==
    /\ DiscrLimit \in Nat \ {0}
    /\ MaxPending \in Nat \ {0}
    /\ PeerDiscrs \subseteq Nat \ {0}
    /\ Polls \subseteq BOOLEAN /\ Finals \subseteq BOOLEAN
    /\ Says \in [Keys -> SUBSET Inputs]
    /\ NoSession \notin Session \cup SessionStates
    /\ NoPacket \notin OutPackets
    /\ Nothing \notin Keys \X Inputs

VARIABLES
    sess,       \* bfd_sessions_
    incr,       \* local_discriminator_incr_
    handed,     \* history: discriminators handed out since the start, up to MaxHanded
    held,       \* the packet whose handler is between its two critical sections
    expired,    \* keys whose detect_time_ the clock has passed
    timer,      \* the timer thread: "asleep", "awake" with a clock reading, "pass"
    late,       \* keys whose detect_time_ is not after the timer's clock reading
    todo,       \* sessions the running pass still has to transmit for
    buf,        \* writebuf_ of each session's connection
    pending,    \* sends queued on it
    heard       \* history: the last packet that left for each neighbour

sessVars == <<sess, incr, handed, expired>>
timerVars == <<timer, late, todo>>
connVars == <<buf, pending, heard>>
vars == <<sessVars, held, timerVars, connVars>>

TypeOK ==
    /\ sess \in [Keys -> Session \cup {NoSession}]
    /\ incr \in 0 .. DiscrLimit
    /\ handed \in 0 .. MaxHanded
    /\ held \in (Keys \X Inputs) \cup {Nothing}
    /\ expired \subseteq Keys
    /\ timer \in {"asleep", "awake", "pass"}
    /\ late \subseteq Keys
    /\ todo \subseteq Keys /\ (todo # {} <=> timer = "pass")
    /\ buf \in [Keys -> OutPackets \cup {NoPacket}]
    /\ pending \in [Keys -> 0 .. MaxPending]
    /\ heard \in [Keys -> OutPackets \cup {NoPacket}]

Init ==
    /\ sess = [k \in Keys |-> NoSession]
    /\ incr = 0
    /\ handed = 0
    /\ held = Nothing
    /\ expired = Keys
    /\ timer = "asleep"
    /\ late = {}
    /\ todo = {}
    /\ buf = [k \in Keys |-> NoPacket]
    /\ pending = [k \in Keys |-> 0]
    /\ heard = [k \in Keys |-> NoPacket]

-----------------------------------------------------------------------------
(* Sessions *)

InitSession ==
    [state |-> Down, remoteState |-> Down, local |-> NoDiscr,
     remote |-> NoDiscr, pollbit |-> FALSE, terminate |-> FALSE,
     paced |-> FALSE, conn |-> FALSE]

\* Slip: Init is kept against a neighbour that went down administratively.
NextStateKeepsInit(s, r) ==
    IF s = Down THEN (CASE r = Down -> Init_ [] r = Init_ -> Up [] OTHER -> Down)
    ELSE IF s = Init_ THEN (IF r \in {Init_, Up} THEN Up ELSE Init_)
    ELSE IF r \in {Down, AdminDown} THEN Down ELSE Up

(* The state machine; unlike the C daemon's it keeps Init while the         *)
(* neighbour is Down.                                                       *)
NextState(s, r) ==
    CASE r = AdminDown                    -> Down
      [] s = Down /\ r = Down             -> Init_
      [] s = Down /\ r = Init_            -> Up
      [] s = Init_ /\ r \in {Init_, Up}   -> Up
      [] s = Up /\ r = Down               -> Down
      [] OTHER                            -> s

Updated(s, pkt, discr) ==
    [state |-> NextState(s.state, pkt.state),
     remoteState |-> pkt.state,
     local |-> IF s.conn THEN s.local ELSE discr,
     remote |-> pkt.my,
     pollbit |-> s.pollbit \/ pkt.poll,
     terminate |-> s.terminate \/ pkt.final,
     paced |-> pkt.paced,
     conn |-> TRUE]

Discr == incr + 1
\* Slip: the counter is never advanced, or restarts one too late.
CounterAfterStuck(s) == incr
CounterAfterLate(s) == IF s.conn THEN incr ELSE IF Discr > DiscrLimit + 1 THEN 0 ELSE Discr
CounterAfter(s) == IF s.conn THEN incr ELSE IF Discr > DiscrLimit THEN 0 ELSE Discr

Announced(s) == [state |-> AnnouncedState(s), final |-> s.pollbit,
                 my |-> s.local, your |-> s.remote]

-----------------------------------------------------------------------------
(* Sends *)

\* A queued send that runs while the buffer is rewritten takes each field
\* from the old contents or from the new.
Torn(a, b) == [state : {a.state, b.state}, final : {a.final, b.final},
               my : {a.my, b.my}, your : {a.your, b.your}]

\* A queue longer than the bound counts as one of the bound's length.
Queued(n) == IF n = MaxPending THEN n ELSE n + 1

\* Slip: a write while a send is queued starts no send of its own.
WriteCoalesced(k, p, concurrent) ==
    /\ buf' = [buf EXCEPT ![k] = p]
    /\ \/ pending[k] = 0 /\ heard' = [heard EXCEPT ![k] = p] /\ UNCHANGED pending
       \/ pending' = [pending EXCEPT ![k] = Queued(@)] /\ UNCHANGED heard
       \/ /\ concurrent /\ pending[k] > 0
          /\ \E p2 \in Torn(buf[k], p) : heard' = [heard EXCEPT ![k] = p2]
          /\ pending' = [pending EXCEPT ![k] = @ - 1]

(* Conn::write: the packet is copied into the buffer and the send started.  *)
(* It leaves at once, or is queued behind the others; and when another      *)
(* thread writes (concurrent), the io thread may be busy with a queued send *)
(* of the same buffer.                                                      *)
Write(k, p, concurrent) ==
    /\ buf' = [buf EXCEPT ![k] = p]
    /\ \/ /\ pending[k] = 0
          /\ heard' = [heard EXCEPT ![k] = p]
          /\ UNCHANGED pending
       \/ pending' = [pending EXCEPT ![k] = Queued(@)] /\ UNCHANGED heard
       \/ /\ concurrent /\ pending[k] > 0
          /\ \E p2 \in Torn(buf[k], p) : heard' = [heard EXCEPT ![k] = p2]
          /\ UNCHANGED pending

\* Slip: a session is announced before it has a discriminator of ours.
TransmitEarly(k, s, concurrent) ==
    IF MayAnnounce(s) THEN Write(k, Announced(s), concurrent) ELSE UNCHANGED connVars

(* transmit_unsafe *)
Transmit(k, s, concurrent) ==
    IF MayAnnounce(s) /\ s.conn THEN Write(k, Announced(s), concurrent)
    ELSE UNCHANGED connVars

(* The io thread carries out the oldest queued send of a connection; what   *)
(* leaves is what the buffer holds by now.                                  *)
Flush(k) ==
    /\ held = Nothing
    /\ pending[k] > 0
    /\ pending' = [pending EXCEPT ![k] = @ - 1]
    /\ heard' = [heard EXCEPT ![k] = buf[k]]
    /\ UNCHANGED <<sessVars, held, timerVars, buf>>

-----------------------------------------------------------------------------
(* The io thread.  The timer holds the mutex during a pass.                 *)
Unlocked == timer # "pass"

(* on_bfd_recieved, up to the end of its first critical section: a sender   *)
(* that knows a discriminator of ours and that we do not know is stored     *)
(* Down under it, and that is all.                                          *)
Adopt(k, pkt) ==
    /\ held = Nothing
    /\ Unlocked
    /\ pkt.your # NoDiscr
    /\ sess[k] = NoSession
    /\ LET s == [InitSession EXCEPT !.remote = pkt.my, !.local = pkt.your]
       IN sess' = [sess EXCEPT ![k] = s] /\ Transmit(k, s, FALSE)
    /\ UNCHANGED <<incr, handed, expired, held, timerVars>>

Enter(k, pkt) ==
    /\ held = Nothing
    /\ pkt.your # NoDiscr => Unlocked /\ sess[k] # NoSession
    /\ held' = <<k, pkt>>
    /\ UNCHANGED <<sessVars, timerVars, connVars>>

Receive(k, pkt) == Acceptable(pkt) /\ (Adopt(k, pkt) \/ Enter(k, pkt))

\* Slip: the Poll waits for the next pass of the timer.
AdvanceDefers(k, pkt) ==
    LET s == IF sess[k] = NoSession THEN InitSession ELSE sess[k]
        t == Updated(s, pkt, Discr)
    IN /\ sess' = [sess EXCEPT ![k] = t]
       /\ incr' = CounterAfter(s)
       /\ handed' = IF s.conn \/ handed = MaxHanded THEN handed ELSE handed + 1
       /\ expired' = expired \ {k}
       /\ late' = late \ {k}
       /\ UNCHANGED connVars

\* Slip: the sessions to skip are chosen when the clock is read.
AdvanceKeepsLate(k, pkt) ==
    LET s == IF sess[k] = NoSession THEN InitSession ELSE sess[k]
        t == Updated(s, pkt, Discr)
    IN /\ sess' = [sess EXCEPT ![k] = t]
       /\ incr' = CounterAfter(s)
       /\ handed' = IF s.conn \/ handed = MaxHanded THEN handed ELSE handed + 1
       /\ expired' = expired \ {k}
       /\ UNCHANGED late
       /\ IF pkt.poll THEN Transmit(k, t, FALSE) ELSE UNCHANGED connVars

(* The second critical section, for a session found or just subscribed: it  *)
(* gets its connection and discriminator with its first packet, and a Poll  *)
(* is answered before the mutex is released.                                *)
Advance(k, pkt) ==
    LET s == IF sess[k] = NoSession THEN InitSession ELSE sess[k]
        t == Updated(s, pkt, Discr)
    IN /\ sess' = [sess EXCEPT ![k] = t]
       /\ incr' = CounterAfter(s)
       /\ handed' = IF s.conn \/ handed = MaxHanded THEN handed ELSE handed + 1
       /\ expired' = expired \ {k}
       /\ late' = late \ {k}
       /\ IF pkt.poll THEN Transmit(k, t, FALSE) ELSE UNCHANGED connVars

Process(k, pkt) ==
    /\ held = <<k, pkt>>
    /\ Unlocked
    /\ held' = Nothing
    /\ IF sess[k] = NoSession /\ pkt.state # Down
       THEN UNCHANGED <<sessVars, late, connVars>>
       ELSE Advance(k, pkt)
    /\ UNCHANGED <<timer, todo>>

-----------------------------------------------------------------------------
(* The timer thread, on_bfd_thread *)

Wake ==
    /\ timer = "asleep"
    /\ timer' = "awake"
    /\ late' = expired
    /\ UNCHANGED <<sessVars, held, todo, connVars>>

MayPeriodically(s) == ~s.terminate /\ s.remote # NoDiscr /\ s.paced

Eligible(k) == k \notin late /\ sess[k] # NoSession /\ MayPeriodically(sess[k])

Lock ==
    /\ timer = "awake"
    /\ todo' = {k \in Keys : Eligible(k)}
    /\ timer' = IF todo' = {} THEN "asleep" ELSE "pass"
    /\ late' = {}
    /\ UNCHANGED <<sessVars, held, connVars>>

TimerTransmit(k) ==
    /\ k \in todo
    /\ Transmit(k, sess[k], held = Nothing)
    /\ todo' = todo \ {k}
    /\ timer' = IF todo' = {} THEN "asleep" ELSE "pass"
    /\ UNCHANGED <<sessVars, held, late>>

-----------------------------------------------------------------------------
(* Time passes the deadline of a session.                                   *)
Expire(k) ==
    /\ sess[k] # NoSession
    /\ k \notin expired
    /\ expired' = expired \cup {k}
    /\ UNCHANGED <<sess, incr, handed, held, timerVars, connVars>>

(* The process ends, as it does when the socket of a new connection cannot  *)
(* be opened or bound, and is started again.                                *)
Restart ==
    /\ sess' = [k \in Keys |-> NoSession]
    /\ incr' = 0
    /\ handed' = 0
    /\ held' = Nothing
    /\ expired' = Keys
    /\ timer' = "asleep"
    /\ late' = {}
    /\ todo' = {}
    /\ buf' = [k \in Keys |-> NoPacket]
    /\ pending' = [k \in Keys |-> 0]
    /\ heard' = [k \in Keys |-> NoPacket]

Next ==
    \/ \E k \in Keys : \E pkt \in Says[k] : Receive(k, pkt)
    \/ \E k \in Keys : held # Nothing /\ held[1] = k /\ Process(k, held[2])
    \/ \E k \in Keys : Flush(k) \/ TimerTransmit(k) \/ Expire(k)
    \/ Wake
    \/ Lock
    \/ Restart

(* The io_service gets back to a socket that takes the queued packets, the  *)
(* timer ends its pass, and a handler waiting for the mutex gets it, since  *)
(* the timer leaves it alone for `delay' us between passes.                 *)
Fairness ==
    /\ \A k \in Keys : SF_vars(Flush(k))
    /\ WF_vars(\E k \in Keys : TimerTransmit(k))
    /\ SF_vars(held # Nothing /\ Process(held[1], held[2]))

Spec == Init /\ [][Next]_vars /\ Fairness

-----------------------------------------------------------------------------
(* Properties *)

Attached(k) == IF sess[k] = NoSession THEN FALSE ELSE sess[k].conn

(* Sessions announce different discriminators until the counter has run     *)
(* through its range once: also the session that restarts it has one of its *)
(* own (bfdd_cpp_session_manager.hpp:134-140).                              *)
DiscrUnique ==
    handed < MaxHanded => \A j, k \in Keys : Attached(j) /\ Attached(k) /\ j # k
                             => sess[j].local # sess[k].local

(* Whatever was queued, overwritten or torn, what reached a neighbour names *)
(* the session by our discriminator, never by the one its own packet put    *)
(* into the record (bfdd_cpp_session_manager.hpp:112-119, 134-135).         *)
SpeaksOwnDiscr ==
    \A k \in Keys : \A p \in {buf[k], heard[k]} \ {NoPacket} :
        Attached(k) /\ p.my = sess[k].local /\ p.my # NoDiscr

(* Once nothing is queued for a neighbour, the last packet that left is the *)
(* last one written, unmixed: overwriting the buffer of a queued send       *)
(* delays no word for good (bfdd_cpp_conn.hpp:30-39).                       *)
LastWordLeaves == \A k \in Keys : pending[k] = 0 => heard[k] = buf[k]

(* Every Poll is answered with Final in the end, so that again and again    *)
(* none waits for its answer: also when a Final of the neighbour's has      *)
(* silenced the session for the timer, when its deadline has passed, or     *)
(* when the send was queued and its buffer written again                    *)
(* (bfdd_cpp_session_manager.hpp:183-188, 201-206).                         *)
Polled(k) == IF sess[k] = NoSession THEN FALSE ELSE sess[k].pollbit
Told(k) == IF heard[k] = NoPacket THEN FALSE ELSE heard[k].final
PollAnswered == []<>(\A k \in Keys : Polled(k) => Told(k))

\* Nothing of what the timer looks at speaks against transmitting for k.
Alive(k) ==
    IF sess[k] = NoSession THEN FALSE
    ELSE k \notin expired /\ Attached(k) /\ ~sess[k].terminate
         /\ sess[k].remote # NoDiscr /\ sess[k].paced

(* The timer judges deadlines by a clock reading from before it waited for  *)
(* the mutex, and handlers renew sessions in between: no session whose      *)
(* deadline has not passed when the pass begins is left out of it, however  *)
(* old the reading is (bfdd_cpp_session_manager.hpp:191-207).               *)
PassServesAlive == [][Lock => \A k \in Keys : Alive(k) => k \in todo']_vars

(* Each session is a BFD session for either thread: what the map holds      *)
(* moves only as the abstract session allows.                               *)
StOf(k) == IF sess[k] = NoSession THEN NoSession ELSE sess[k].state
HeardOf(k) == IF sess[k] = NoSession THEN Down ELSE sess[k].remoteState

Fsm(k) == INSTANCE BfdFsm WITH NoState <- NoSession,
                               st <- StOf(k), heard <- HeardOf(k)

ImplementsBfdFsm ==
    /\ \A k \in Keys : Fsm(k)!Start
    /\ [][\A k \in Keys : [Fsm(k)!Step]_<<StOf(k), HeardOf(k)>>]_vars
=============================================================================
