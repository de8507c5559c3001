------------------------------ MODULE BfdDefs ------------------------------
(***************************************************************************)
(* What the daemons of this repository share: the BFD session states, the  *)
(* control packet as far as the state machines look at it, and the checks  *)
(* a packet passes before a session sees it.                               *)
(*                                                                         *)
(* A packet is abstracted to the fields the handlers branch on or store:   *)
(* the sender's state, its Poll and Final bits and the two discriminators. *)
(* Length, version, Multipoint, Auth and Detect Mult only decide whether   *)
(* the packet is dropped; `wellFormed' stands for all of them together.    *)
(***************************************************************************)
EXTENDS Integers

AdminDown == 0
Down == 1
Init_ == 2
Up == 3

RemoteStates == {AdminDown, Down, Init_, Up}

\* No handler ever gives a session the state AdminDown.
SessionStates == {Down, Init_, Up}

\* Zero in a discriminator field means "not known (yet)".
NoDiscr == 0

(* The packets a remote system can send, over given sets of discriminators  *)
(* and of values of the Poll bit and, for the daemon that looks at it, of   *)
(* the Final bit; and one that is not a control packet we understand.       *)
Packets(Mine, Yours, Polls, Finals) ==
    [wellFormed : {TRUE}, state : RemoteStates, poll : Polls,
     final : Finals, my : Mine, your : Yours]
    \cup {[wellFormed |-> FALSE, state |-> Up, poll |-> FALSE,
           final |-> FALSE, my |-> NoDiscr, your |-> NoDiscr]}

(* The tests both daemons apply before they look for a session. *)
Acceptable(pkt) ==
    /\ pkt.wellFormed
    /\ pkt.my # NoDiscr
    /\ pkt.your = NoDiscr => pkt.state \in {Down, AdminDown}

(* The state a transmitted packet carries: a session that has no local      *)
(* discriminator yet announces Down, whatever its state.                    *)
AnnouncedState(s) == IF s.local # NoDiscr THEN s.state ELSE Down

(* Neither daemon sends a state other than Down with a zero discriminator.  *)
MayAnnounce(s) ==
    AnnouncedState(s) # Down => s.local # NoDiscr /\ s.remote # NoDiscr
=============================================================================
