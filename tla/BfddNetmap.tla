---------------------------- MODULE BfddNetmap ----------------------------
(***************************************************************************)
(* The netmap daemon, bfdd_netmap/: it keeps no session.  It turns every   *)
(* BFD frame it finds in a receive ring into the answer to it, in place,   *)
(* and sends it by exchanging the buffers of the receive slot and of the   *)
(* next transmit slot.                                                     *)
(*                                                                         *)
(* The network card and the kernel's side of the rings are external: they  *)
(* fill receive slots, send the transmit slots the daemon released and     *)
(* hand them back.  Their progress shows only at the daemon's system       *)
(* calls, so they stand still during a pass over the rings.                *)
(***************************************************************************)
EXTENDS BfdDefs, Functions

CONSTANTS
    NRings,         \* receive rings, and as many transmit rings
    NSlots,         \* slots of a ring
    Arrivals,       \* what may arrive, [kind, state, my, your]
    MaxFrames       \* bound on the frames that arrive

Rings == 1 .. NRings
Slots == 0 .. NSlots - 1
Bufs == 1 .. 2 * NRings * NSlots
MyDscr == 10000

Kinds == {"bfd", "other", "answer"}
PeerFrame == [kind : {"bfd", "other"}, state : RemoteStates, my : Nat, your : Nat]
Frame == [id : 0 .. MaxFrames, kind : Kinds, state : RemoteStates, my : Nat, your : Nat]

\* Where the daemon is while it waits for frames.
InPoll == <<0, 0>>

\* What a buffer holds before any frame came to it.
Blank == [id |-> 0, kind |-> "other", state |-> Down, my |-> NoDiscr, your |-> NoDiscr]

ASSUME NetmapAssumption ==
    /\ NRings \in Nat \ {0}
    /\ NSlots \in Nat \ {0, 1}
    /\ Arrivals \subseteq PeerFrame
    /\ MaxFrames \in Nat

VARIABLES
    at,             \* the rings the loop of move is at, or InPoll
    mem,            \* the packet buffers
    rx,             \* receive rings: slots, cur (= head), tail
    tx,             \* transmit rings: slots, cur (= head), first slot not sent yet
    arrived,        \* number of frames that arrived
    asked,          \* history: those of them that were BFD
    sent            \* history: how often each frame was sent (0: a blank one)

vars == <<at, mem, rx, tx, arrived, asked, sent>>

NextSlot(i) == (i + 1) % NSlots

(* nm_ring_space: slots the daemon may use.  Of a transmit ring all but one *)
(* of those not waiting to be sent.                                         *)
RxSpace(r) == (r.tail - r.cur) % NSlots
TxSpace(t) == (t.done - 1 - t.cur) % NSlots

TypeOK ==
    /\ at \in (Rings \X Rings) \cup {InPoll}
    /\ mem \in [Bufs -> Frame]
    /\ rx \in [Rings -> [slot : [Slots -> Bufs], cur : Slots, tail : Slots]]
    /\ tx \in [Rings -> [slot : [Slots -> Bufs], cur : Slots, done : Slots]]
    /\ arrived \in 0 .. MaxFrames
    /\ asked \subseteq 1 .. arrived
    /\ sent \in [0 .. MaxFrames -> Nat]

Init ==
    /\ at = InPoll
    /\ mem = [b \in Bufs |-> Blank]
    /\ rx = [r \in Rings |-> [slot |-> [i \in Slots |-> (r - 1) * NSlots + i + 1],
                              cur |-> 0, tail |-> 0]]
    /\ tx = [r \in Rings |-> [slot |-> [i \in Slots |-> (NRings + r - 1) * NSlots + i + 1],
                              cur |-> 0, done |-> 0]]
    /\ arrived = 0
    /\ asked = {}
    /\ sent = [id \in 0 .. MaxFrames |-> 0]

-----------------------------------------------------------------------------
(* The daemon *)

IsBfdPacket(f) == f.kind = "bfd"

\* Slip: a neighbour that went back to Down is not told to begin again.
AnsweredStateUp(f) ==
    IF f.state = AdminDown THEN Down
    ELSE IF f.state = Down /\ f.your = NoDiscr THEN Init_ ELSE Up

AnsweredState(f) ==
    CASE f.state = Down      -> IF f.your = NoDiscr THEN Init_ ELSE Down
      [] f.state = AdminDown -> Down
      [] OTHER               -> Up

(* recv_packet: the frame is turned around.  The answer to AdminDown gives  *)
(* back the discriminator it was sent to, any other one names MYDSCR.       *)
Answer(f) ==
    [f EXCEPT !.kind = "answer", !.state = AnsweredState(f), !.your = f.my,
              !.my = IF f.state = AdminDown THEN f.your ELSE MyDscr]

\* The n slots of a ring from its cur on, and how far slot i is among them.
Window(r, n) == {(r.cur + s) % NSlots : s \in 0 .. n - 1}
Offset(r, i) == (i - r.cur) % NSlots

\* Does a pass over n slots of receive ring r answer the frame in slot i?
Turned(r, n, i) == i \in Window(r, n) /\ IsBfdPacket(mem[r.slot[i]])

\* Slip: the transmit slot gets the buffer, and the receive slot keeps it.
RxExchangedNot(r, t, n) == r.slot

(* swap_index, for each slot a pass over n slots answers: the receive slot  *)
(* and the transmit slot at the same distance exchange their buffers.       *)
RxExchanged(r, t, n) ==
    [i \in Slots |-> IF Turned(r, n, i)
                     THEN t.slot[(t.cur + Offset(r, i)) % NSlots] ELSE r.slot[i]]
TxExchanged(r, t, n) ==
    [j \in Slots |-> LET i == (r.cur + Offset(t, j)) % NSlots
                     IN IF Turned(r, n, i) THEN r.slot[i] ELSE t.slot[j]]

AtMost(a, b) == IF a < b THEN a ELSE b

\* Slip: the room in the transmit ring does not limit the pass.
LimitOfRxOnly(r, t) == RxSpace(r)
Limit(r, t) == AtMost(RxSpace(r), TxSpace(t))

(* process_rings: as many slots as both rings allow, then both rings are    *)
(* advanced by that number - the transmit ring too by every slot, also      *)
(* where nothing was put into it.                                           *)
ProcessRings(p, q) ==
    LET r == rx[p]
        t == tx[q]
        n == Limit(r, t)
    IN /\ mem' = [b \in Bufs |-> IF \E i \in Slots : Turned(r, n, i) /\ r.slot[i] = b
                                 THEN Answer(mem[b]) ELSE mem[b]]
       /\ rx' = [rx EXCEPT ![p] = [r EXCEPT !.slot = RxExchanged(r, t, n),
                                            !.cur = (@ + n) % NSlots]]
       /\ tx' = [tx EXCEPT ![q] = [t EXCEPT !.slot = TxExchanged(r, t, n),
                                            !.cur = (@ + n) % NSlots]]

(* The main loop: poll reports frames, and move begins with the first rings *)
Poll ==
    /\ at = InPoll
    /\ \E r \in Rings : RxSpace(rx[r]) # 0
    /\ at' = <<1, 1>>
    /\ UNCHANGED <<mem, rx, tx, arrived, asked, sent>>

\* Slip: the loop has no end, or ends before the last ring.
LeaveNever(p, q) == <<p, q>>
LeaveEarly(p, q) == IF p >= NRings \/ q > NRings THEN InPoll ELSE <<p, q>>
Leave(p, q) == IF p > NRings \/ q > NRings THEN InPoll ELSE <<p, q>>

(* A turn of the loop of move: an empty receive ring or a full transmit     *)
(* ring is left for the next one; a pair with frames and room is processed. *)
Turn(p, q) ==
    /\ at = <<p, q>>
    /\ \/ /\ RxSpace(rx[p]) = 0
          /\ at' = Leave(p + 1, q)
          /\ UNCHANGED <<mem, rx, tx>>
       \/ /\ RxSpace(rx[p]) # 0
          /\ TxSpace(tx[q]) = 0
          /\ at' = Leave(p, q + 1)
          /\ UNCHANGED <<mem, rx, tx>>
       \/ /\ RxSpace(rx[p]) # 0
          /\ TxSpace(tx[q]) # 0
          /\ ProcessRings(p, q)
          /\ UNCHANGED at
    /\ UNCHANGED <<arrived, asked, sent>>

-----------------------------------------------------------------------------
(* The card *)

NicReceive(r, f) ==
    /\ at = InPoll
    /\ arrived < MaxFrames
    /\ NextSlot(rx[r].tail) # rx[r].cur
    /\ mem' = [mem EXCEPT ![rx[r].slot[rx[r].tail]] =
                 [id |-> arrived + 1, kind |-> f.kind, state |-> f.state,
                  my |-> f.my, your |-> f.your]]
    /\ rx' = [rx EXCEPT ![r].tail = NextSlot(@)]
    /\ arrived' = arrived + 1
    /\ asked' = IF f.kind = "bfd" THEN asked \cup {arrived'} ELSE asked
    /\ UNCHANGED <<at, tx, sent>>

NicTransmit(r) ==
    /\ at = InPoll
    /\ tx[r].done # tx[r].cur
    /\ sent' = [sent EXCEPT ![mem[tx[r].slot[tx[r].done]].id] = @ + 1]
    /\ tx' = [tx EXCEPT ![r].done = NextSlot(@)]
    /\ UNCHANGED <<at, mem, rx, arrived, asked>>

Next ==
    \/ Poll
    \/ \E p, q \in Rings : Turn(p, q)
    \/ \E r \in Rings, f \in Arrivals : NicReceive(r, f)
    \/ \E r \in Rings : NicTransmit(r)

(* The daemon polls again after every pass; the card sends what it is given *)
(* even though it does so only between the passes.                          *)
Fairness ==
    /\ WF_vars(Poll)
    /\ WF_vars(\E p, q \in Rings : Turn(p, q))
    /\ \A r \in Rings : SF_vars(NicTransmit(r))

Spec == Init /\ [][Next]_vars /\ Fairness

-----------------------------------------------------------------------------
(* Properties *)

\* The buffers of all slots, by ring and slot.
Held == [x \in {"rx", "tx"} \X Rings \X Slots |->
            IF x[1] = "rx" THEN rx[x[2]].slot[x[3]] ELSE tx[x[2]].slot[x[3]]]

(* The exchanges only permute the buffers: no buffer is ever in two slots,  *)
(* so the card never writes into a frame that waits to be sent              *)
(* (bfdd_netmap_func.c:111-119).                                            *)
BuffersApart == IsInjective(Held)

\* Slots the card has yet to send, and slots the daemon has yet to look at.
ToSend(r) == {tx[r].slot[(tx[r].done + n) % NSlots] :
                n \in 0 .. ((tx[r].cur - tx[r].done) % NSlots) - 1}
ToRead(r) == {rx[r].slot[(rx[r].cur + n) % NSlots] : n \in 0 .. RxSpace(rx[r]) - 1}

Sent(id) == sent[id] > 0

(* No BFD frame is lost between the rings, however full they are: it waits  *)
(* to be read, its answer waits to be sent, or that was sent                *)
(* (bfdd_netmap_func.c:13-20, 35-66).                                       *)
NothingLost ==
    \A id \in asked :
        \/ Sent(id)
        \/ \E r \in Rings : \E b \in ToRead(r) : mem[b].id = id /\ mem[b].kind = "bfd"
        \/ \E r \in Rings : \E b \in ToSend(r) : mem[b].id = id /\ mem[b].kind = "answer"

(* Every BFD frame is answered in the end: a pass that fills one transmit   *)
(* ring, or runs out of them, leaves nothing behind for good                *)
(* (bfdd_netmap_func.c:8-22).                                               *)
AllAnswered == \A id \in 1 .. MaxFrames : id \in asked ~> Sent(id)

\* A neighbour after RFC 5880, 6.8.6, that hears the answer to what it sent.
Exchanged(peer) ==
    LET a == Answer([id |-> 0, kind |-> "bfd", state |-> peer.state,
                     my |-> peer.my, your |-> peer.your])
        next == CASE peer.state = Down /\ a.state = Down          -> Init_
                  [] peer.state = Down /\ a.state = Init_         -> Up
                  [] peer.state = Init_ /\ a.state \in {Init_, Up} -> Up
                  [] peer.state = Up /\ a.state = Down            -> Down
                  [] OTHER                                        -> peer.state
    IN [state |-> next, my |-> peer.my, your |-> a.my]

(* Answers made without a memory bring a neighbour Up: whether it begins,   *)
(* or fell back to Down and still names the daemon's discriminator, two     *)
(* exchanges are enough, and the next keeps it there (bfdd_netmap.c:94-114). *)
HandShakeCompletes ==
    \A b \in Bufs, s \in {Down, Init_, Up}, y \in {NoDiscr, MyDscr} :
        mem[b].kind = "bfd" /\ (y = NoDiscr => s = Down) =>
            LET twice == Exchanged(Exchanged([state |-> s, my |-> mem[b].my, your |-> y]))
            IN twice.state = Up /\ Exchanged(twice).state = Up

(* README.md:13-14 has this daemon redirect, and nothing else: what a       *)
(* received frame was turned into is sent no more often than it came in,    *)
(* whatever other frames the card delivers (bfdd_netmap_func.c:61-66).      *)
RedirectOnly == \A id \in 1 .. MaxFrames : sent[id] <= 1
=============================================================================
