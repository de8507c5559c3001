------------------------------- MODULE BfdFsm -------------------------------
(***************************************************************************)
(* What one BFD session promises, whatever stores it and whoever runs it:  *)
(* the state moves only on the neighbour's word, one hand-shake stage at a *)
(* time, and it is never better than what the neighbour last said.         *)
(***************************************************************************)
EXTENDS BfdDefs

CONSTANT NoState      \* the daemon has no session for this neighbour

VARIABLES
    st,               \* the local session state, or NoState
    heard             \* the state the neighbour last announced

fsmVars == <<st, heard>>

(* The states that hearing r may lead to. Init is left for Down or kept     *)
(* when the neighbour is still Down: the two daemons differ there.          *)
Follows(s, r) ==
    CASE r = AdminDown                   -> {Down}
      [] s = Down /\ r = Down            -> {Init_}
      [] s = Down /\ r = Init_           -> {Up}
      [] s = Down /\ r = Up              -> {Down}
      [] s = Init_ /\ r = Down           -> {Init_, Down}
      [] s = Init_ /\ r \in {Init_, Up}  -> {Up}
      [] s = Up /\ r = Down              -> {Down}
      [] s = Up /\ r \in {Init_, Up}     -> {Up}

Start == st = NoState /\ heard = Down

\* A session is created Down, before anything was heard in it.
Create == st = NoState /\ st' = Down /\ heard' = Down

\* The first word heard can create the session and move it in one step, but
\* only a neighbour that is Down gets that far.
Meet == st = NoState /\ heard' = Down /\ st' \in Follows(Down, Down)

Hear(r) == st # NoState /\ heard' = r /\ st' \in Follows(st, r)

\* The daemon stops; what it knew is gone.
Forget == st' = NoState /\ heard' = Down

Step == Create \/ Meet \/ Forget \/ \E r \in RemoteStates : Hear(r)

FsmSpec == Start /\ [][Step]_fsmVars
=============================================================================
