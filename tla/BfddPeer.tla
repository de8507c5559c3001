------------------------------ MODULE BfddPeer ------------------------------
(***************************************************************************)
(* The C daemon with one neighbour and the network between them.           *)
(*                                                                         *)
(* The daemon is module Bfdd, with a database that works.  The neighbour   *)
(* is not part of the repository: it is a router that starts the session   *)
(* (the daemon answers, it never speaks first) and follows RFC 5880,       *)
(* section 6.8.6.  Each end transmits when a timer of a second fires, and  *)
(* a packet takes far less than that, so normally nothing is in flight     *)
(* when an end transmits.  Everything that is not normal - a packet lost,  *)
(* duplicated, or crossing another; the daemon's send failing; an end      *)
(* restarting; the neighbour's detection timer firing or its operator      *)
(* taking the session down - is counted as a fault, and there are at most  *)
(* MaxFaults of them.                                                      *)
(***************************************************************************)
EXTENDS Bfdd

CONSTANT
    Neighbour,      \* the key under which the daemon knows the neighbour
    MaxFaults       \* bound on the faults of a behaviour

ASSUME PeerAssumption == Neighbour \in Keys /\ MaxFaults \in Nat

VARIABLES
    peer,           \* the neighbour's end of the session
    toDaemon,       \* packets in flight to the daemon
    toPeer,         \* packets in flight to the neighbour
    faults          \* faults so far

peerVars == <<peer, toDaemon, toPeer, faults>>
allVars == <<vars, peerVars>>

\* The neighbour's session: its state, its own discriminator, the one it
\* learned from the daemon, and whether it has a Poll sequence in progress.
PeerSession == [state : RemoteStates, my : PeerDiscrs, your : Discrs, polling : BOOLEAN]

PeerFresh(discr) == [state |-> Down, my |-> discr, your |-> NoDiscr, polling |-> FALSE]

Quiet == toDaemon = {} /\ toPeer = {}

\* An end may transmit into a quiet network; anything else is a fault.
Timely == IF Quiet THEN faults' = faults
          ELSE faults < MaxFaults /\ faults' = faults + 1

Fault == faults < MaxFaults /\ faults' = faults + 1

PeerTypeOK ==
    /\ TypeOK
    /\ peer \in PeerSession
    /\ toDaemon \subseteq Packets(PeerDiscrs, Discrs, BOOLEAN, {FALSE})
    /\ toPeer \subseteq OutPackets
    /\ faults \in 0 .. MaxFaults

PeerInit ==
    /\ Init
    /\ \E discr \in PeerDiscrs : peer = PeerFresh(discr)
    /\ toDaemon = {}
    /\ toPeer = {}
    /\ faults = 0

-----------------------------------------------------------------------------
(* The daemon's steps, its packets entering the network.                    *)
DaemonReceive(pkt) ==
    /\ pkt \in toDaemon
    /\ RecvBfdEvent(Neighbour, pkt)
    /\ toDaemon' = toDaemon \ {pkt}
    /\ toPeer' = toPeer \cup out'
    /\ IF event' = "mute" THEN Fault ELSE faults' = faults
    /\ UNCHANGED peer

DaemonSend ==
    /\ SendBfdEvent
    /\ event' = "pass"
    /\ out' # {}
    /\ Timely
    /\ toPeer' = toPeer \cup out'
    /\ UNCHANGED <<peer, toDaemon>>

DaemonRestart ==
    /\ Fault
    /\ Restart
    /\ UNCHANGED <<peer, toDaemon, toPeer>>

-----------------------------------------------------------------------------
(* The neighbour.                                                           *)
PeerPacket ==
    [wellFormed |-> TRUE, state |-> peer.state, poll |-> peer.polling,
     final |-> FALSE, my |-> peer.my, your |-> peer.your]

PeerSend ==
    /\ Timely
    /\ toDaemon' = toDaemon \cup {PeerPacket}
    /\ UNCHANGED <<vars, peer, toPeer>>

PeerNext(s, r) ==
    CASE s = AdminDown                      -> AdminDown
      [] s = Down /\ r = Down               -> Init_
      [] s = Down /\ r = Init_              -> Up
      [] s = Init_ /\ r \in {Init_, Up}     -> Up
      [] s = Up /\ r = Down                 -> Down
      [] OTHER                              -> s

PeerReceive(p) ==
    /\ p \in toPeer
    /\ toPeer' = toPeer \ {p}
    /\ peer' = IF p.your # peer.my THEN peer
               ELSE [peer EXCEPT !.state = PeerNext(@, p.state), !.your = p.my,
                                 !.polling = @ /\ ~p.final]
    /\ UNCHANGED <<vars, toDaemon, faults>>

PeerPolls ==
    /\ peer.state = Up
    /\ ~peer.polling
    /\ peer' = [peer EXCEPT !.polling = TRUE]
    /\ Fault
    /\ UNCHANGED <<vars, toDaemon, toPeer>>

PeerTimesOut ==
    /\ peer.state \in {Init_, Up}
    /\ peer' = [peer EXCEPT !.state = Down, !.your = NoDiscr]
    /\ Fault
    /\ UNCHANGED <<vars, toDaemon, toPeer>>

PeerDisabled ==
    /\ peer.state # AdminDown
    /\ peer' = [peer EXCEPT !.state = AdminDown]
    /\ Fault
    /\ UNCHANGED <<vars, toDaemon, toPeer>>

PeerEnabled ==
    /\ peer.state = AdminDown
    /\ peer' = [peer EXCEPT !.state = Down]
    /\ UNCHANGED <<vars, toDaemon, toPeer, faults>>

PeerRestart ==
    /\ \E discr \in PeerDiscrs : peer' = PeerFresh(discr)
    /\ Fault
    /\ UNCHANGED <<vars, toDaemon, toPeer>>

-----------------------------------------------------------------------------
(* The network.                                                             *)
Lose ==
    /\ \/ \E p \in toDaemon : toDaemon' = toDaemon \ {p} /\ toPeer' = toPeer
       \/ \E p \in toPeer : toPeer' = toPeer \ {p} /\ toDaemon' = toDaemon
    /\ Fault
    /\ UNCHANGED <<vars, peer>>

\* A packet delivered to the daemon while a copy of it stays in flight.
Duplicate(pkt) ==
    /\ pkt \in toDaemon
    /\ Fault
    /\ RecvBfdEvent(Neighbour, pkt)
    /\ toPeer' = toPeer \cup out'
    /\ UNCHANGED <<peer, toDaemon>>

PeerStep ==
    \/ DaemonSend \/ DaemonRestart
    \/ \E pkt \in toDaemon : DaemonReceive(pkt) \/ Duplicate(pkt)
    \/ PeerSend \/ PeerPolls \/ PeerTimesOut \/ PeerDisabled \/ PeerEnabled
    \/ PeerRestart
    \/ \E p \in toPeer : PeerReceive(p)
    \/ Lose

(* Packets in flight arrive; each end's transmission timer keeps firing,    *)
(* now and then into a quiet network; the operator enables the session      *)
(* again.  The daemon transmits only in a turn of its loop in which no      *)
(* packet came for 100ms, which one neighbour leaves it every second.       *)
Fairness ==
    /\ WF_allVars(\E pkt \in toDaemon : DaemonReceive(pkt))
    /\ WF_allVars(\E p \in toPeer : PeerReceive(p))
    /\ SF_allVars(Quiet /\ DaemonSend)
    /\ SF_allVars(Quiet /\ PeerSend)
    /\ WF_allVars(PeerEnabled)

PeerSpec == PeerInit /\ [][PeerStep]_allVars /\ Fairness

-----------------------------------------------------------------------------
(* Properties *)

DaemonState == StOf(Neighbour)

(* However the faults fall, the session is Up at both ends in the end and   *)
(* stays so, and each end names it by the discriminator the other has given *)
(* it: the hand-shake of bfdd_event.c:85-109 with its Init + Down -> Down   *)
(* cannot be kept from converging, and the discriminators a restart of      *)
(* either end leaves at the other are replaced (bfdd_event.c:63-73).        *)
Converges ==
    <>[](/\ peer.state = Up /\ DaemonState = Up
         /\ peer.your = db.sess[Neighbour].local
         /\ peer.my = db.sess[Neighbour].remote)

(* A Poll sequence of the neighbour ends, if the session stays up           *)
(* (bfdd_event.c:110-115).                                                  *)
PollEnds == peer.polling ~> ~peer.polling

(* Until something goes wrong, neither end is Up while the other is still   *)
(* Down: the hand-shake has three ways (bfdd_event.c:85-109).               *)
HandShake ==
    faults = 0 =>
        /\ peer.state = Up => DaemonState \in {Init_, Up}
        /\ DaemonState = Up => peer.state \in {Init_, Up}
=============================================================================
