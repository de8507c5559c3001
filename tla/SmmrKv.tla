------------------------------- MODULE SmmrKv -------------------------------
(***************************************************************************)
(* What the database promises of one key whose entries do not expire, and  *)
(* all that the daemon's model relies on (Bfdd!Commit): a search answers   *)
(* with a value that was stored, and once something has been stored it     *)
(* always finds something, but not always the value stored last.           *)
(***************************************************************************)
CONSTANTS Values, NoValue

VARIABLES
    copies,     \* the values of the key that are in the database
    visible     \* the one a search answers with

KvInit == copies = {} /\ visible = NoValue

\* Copies take the value v, perhaps the visible one, and no other comes to light.
Overwrite(v) ==
    /\ v \in copies'
    /\ copies' \subseteq copies \cup {v}
    /\ visible' \in {v, visible}

\* One more copy; any of them may be the visible one now.
Insert(v) ==
    /\ copies' = copies \cup {v}
    /\ visible' \in copies'

\* Other keys' entries come and go, which moves those of this key about.
Rearrange ==
    /\ UNCHANGED copies
    /\ visible' \in copies

KvStep == Rearrange \/ \E v \in Values : Insert(v) \/ Overwrite(v)

KvSpec == KvInit /\ [][KvStep]_<<copies, visible>>
=============================================================================
