-------------------------- MODULE BfddNetmapProofs --------------------------
(***************************************************************************)
(* Proofs about the netmap daemon, for any number of rings and of slots.   *)
(*                                                                         *)
(* The argument: where a pass over a pair of rings exchanges buffers, it   *)
(* exchanges those at equal distance from the two cursors, so each slot    *)
(* has one partner and the buffers are only permuted; and it moves both    *)
(* cursors by no more than either ring has room, so a frame stays in the   *)
(* part of the ring that is still to be read or still to be sent.          *)
(***************************************************************************)
EXTENDS BfddNetmap, TLAPS

\* What a slot, a ring and a history may hold; `at' has no part in it.
Shape ==
    /\ mem \in [Bufs -> Frame]
    /\ rx \in [Rings -> [slot : [Slots -> Bufs], cur : Slots, tail : Slots]]
    /\ tx \in [Rings -> [slot : [Slots -> Bufs], cur : Slots, done : Slots]]
    /\ arrived \in 0 .. MaxFrames
    /\ asked \subseteq 1 .. arrived
    /\ sent \in [0 .. MaxFrames -> Nat]

IInv == TypeOK /\ BuffersApart /\ NothingLost

-----------------------------------------------------------------------------
(* Distances in a ring *)

LEMMA ModIs ==
    ASSUME NEW x \in Int, -NSlots <= x, x < 2 * NSlots
    PROVE  x % NSlots = IF x < 0 THEN x + NSlots
                        ELSE IF x < NSlots THEN x ELSE x - NSlots
<1>1. NSlots \in Nat \ {0}
  BY NetmapAssumption
<1>2. CASE x < 0
  BY <1>1, <1>2
<1>3. CASE 0 <= x /\ x < NSlots
  BY <1>1, <1>3
<1>4. CASE NSlots <= x
  BY <1>1, <1>4
<1> QED BY <1>1, <1>2, <1>3, <1>4

LEMMA Ahead ==
    ASSUME NEW c \in 0 .. NSlots - 1, NEW m \in 0 .. NSlots - 1
    PROVE  (c + m) % NSlots = IF c + m < NSlots THEN c + m ELSE c + m - NSlots
<1>1. NSlots \in Nat \ {0}
  BY NetmapAssumption
<1>2. c + m \in Int /\ 0 <= c + m /\ c + m < 2 * NSlots
  BY <1>1
<1> QED BY <1>1, <1>2, ModIs

LEMMA Behind ==
    ASSUME NEW a \in 0 .. NSlots - 1, NEW b \in 0 .. NSlots - 1
    PROVE  (a - b) % NSlots = IF a - b < 0 THEN a - b + NSlots ELSE a - b
<1>1. NSlots \in Nat \ {0}
  BY NetmapAssumption
<1>2. a - b \in Int /\ -NSlots <= a - b /\ a - b < NSlots
  BY <1>1
<1> QED BY <1>1, <1>2, ModIs

LEMMA FarBehind ==
    ASSUME NEW a \in 0 .. NSlots - 1, NEW b \in 0 .. NSlots - 1
    PROVE  (a - 1 - b) % NSlots = IF a - 1 - b < 0 THEN a - 1 - b + NSlots ELSE a - 1 - b
<1>1. NSlots \in Nat \ {0}
  BY NetmapAssumption
<1>2. a - 1 - b \in Int /\ -NSlots <= a - 1 - b /\ a - 1 - b < NSlots
  BY <1>1
<1> QED BY <1>1, <1>2, ModIs

\* A slot at distance m from c, and the distance of a slot from c.
LEMMA ForthAndBack ==
    ASSUME NEW c \in Slots, NEW m \in Slots
    PROVE  /\ (c + m) % NSlots \in Slots
           /\ (((c + m) % NSlots) - c) % NSlots = m
<1>1. NSlots \in Nat \ {0} /\ c \in 0 .. NSlots - 1 /\ m \in 0 .. NSlots - 1
  BY NetmapAssumption DEF Slots
<1>2. (c + m) % NSlots = IF c + m < NSlots THEN c + m ELSE c + m - NSlots
  BY <1>1, Ahead
<1> DEFINE i == (c + m) % NSlots
<1>3. i \in 0 .. NSlots - 1
  BY <1>1, <1>2
<1> HIDE DEF i
<1>4. (i - c) % NSlots = IF i - c < 0 THEN i - c + NSlots ELSE i - c
  BY <1>1, <1>3, Behind
<1> QED BY <1>1, <1>2, <1>3, <1>4 DEF i, Slots

LEMMA BackAndForth ==
    ASSUME NEW c \in Slots, NEW i \in Slots
    PROVE  /\ (i - c) % NSlots \in Slots
           /\ (c + ((i - c) % NSlots)) % NSlots = i
<1>1. NSlots \in Nat \ {0} /\ c \in 0 .. NSlots - 1 /\ i \in 0 .. NSlots - 1
  BY NetmapAssumption DEF Slots
<1> DEFINE m == (i - c) % NSlots
<1>2. m = IF i - c < 0 THEN i - c + NSlots ELSE i - c
  BY <1>1, Behind
<1>3. m \in 0 .. NSlots - 1
  BY <1>1, <1>2
<1> HIDE DEF m
<1>4. (c + m) % NSlots = IF c + m < NSlots THEN c + m ELSE c + m - NSlots
  BY <1>1, <1>3, Ahead
<1> QED BY <1>1, <1>2, <1>3, <1>4 DEF m, Slots

\* Two distances one after the other.
LEMMA TwoSteps ==
    ASSUME NEW c \in Slots, NEW m \in Slots, NEW n \in Nat, m + n < NSlots
    PROVE  (((c + m) % NSlots) + n) % NSlots = (c + (m + n)) % NSlots
<1>1. NSlots \in Nat \ {0} /\ c \in 0 .. NSlots - 1 /\ m \in 0 .. NSlots - 1
  BY NetmapAssumption DEF Slots
<1> DEFINE i == (c + m) % NSlots
<1>2. i = IF c + m < NSlots THEN c + m ELSE c + m - NSlots
  BY <1>1, Ahead
<1>3. i \in 0 .. NSlots - 1
  BY <1>1, <1>2
<1> HIDE DEF i
<1>4. (i + n) % NSlots = IF i + n < NSlots THEN i + n ELSE i + n - NSlots
  BY <1>1, <1>3, n \in 0 .. NSlots - 1, Ahead
<1> DEFINE w == m + n
<1>5. w \in 0 .. NSlots - 1
  BY <1>1
<1> HIDE DEF w
<1>6. (c + w) % NSlots = IF c + w < NSlots THEN c + w ELSE c + w - NSlots
  BY <1>1, <1>5, Ahead
<1> QED BY <1>1, <1>2, <1>3, <1>4, <1>6 DEF i, w

\* What is left when the cursor c moves n slots towards t.
LEMMA Consumed ==
    ASSUME NEW c \in Slots, NEW t \in Slots, NEW n \in Slots, n <= (t - c) % NSlots
    PROVE  (t - ((c + n) % NSlots)) % NSlots = ((t - c) % NSlots) - n
<1>1. /\ NSlots \in Nat \ {0} /\ c \in 0 .. NSlots - 1 /\ t \in 0 .. NSlots - 1
      /\ n \in 0 .. NSlots - 1
  BY NetmapAssumption DEF Slots
<1>2. (t - c) % NSlots = IF t - c < 0 THEN t - c + NSlots ELSE t - c
  BY <1>1, Behind
<1> DEFINE i == (c + n) % NSlots
<1>3. i = IF c + n < NSlots THEN c + n ELSE c + n - NSlots
  BY <1>1, Ahead
<1>4. i \in 0 .. NSlots - 1
  BY <1>1, <1>3
<1> HIDE DEF i
<1>5. (t - i) % NSlots = IF t - i < 0 THEN t - i + NSlots ELSE t - i
  BY <1>1, <1>4, Behind
<1> QED BY <1>1, <1>2, <1>3, <1>4, <1>5 DEF i

\* What is waiting when the cursor c moves n slots away from e, as far as
\* the slot before e.
LEMMA Released ==
    ASSUME NEW c \in Slots, NEW e \in Slots, NEW n \in Slots, n <= (e - 1 - c) % NSlots
    PROVE  /\ (((c + n) % NSlots) - e) % NSlots = ((c - e) % NSlots) + n
           /\ ((c - e) % NSlots) + n < NSlots
<1>1. /\ NSlots \in Nat \ {0} /\ c \in 0 .. NSlots - 1 /\ e \in 0 .. NSlots - 1
      /\ n \in 0 .. NSlots - 1
  BY NetmapAssumption DEF Slots
<1>2. (e - 1 - c) % NSlots = IF e - 1 - c < 0 THEN e - 1 - c + NSlots ELSE e - 1 - c
  BY <1>1, FarBehind
<1>3. (c - e) % NSlots = IF c - e < 0 THEN c - e + NSlots ELSE c - e
  BY <1>1, Behind
<1> DEFINE i == (c + n) % NSlots
<1>4. i = IF c + n < NSlots THEN c + n ELSE c + n - NSlots
  BY <1>1, Ahead
<1>5. i \in 0 .. NSlots - 1
  BY <1>1, <1>4
<1> HIDE DEF i
<1>6. (i - e) % NSlots = IF i - e < 0 THEN i - e + NSlots ELSE i - e
  BY <1>1, <1>5, Behind
<1> QED BY <1>1, <1>2, <1>3, <1>4, <1>5, <1>6 DEF i

\* A slot that waits to be sent is out of reach of a pass.
LEMMA OutOfReach ==
    ASSUME NEW c \in Slots, NEW e \in Slots, NEW m \in Slots, m < (c - e) % NSlots
    PROVE  (e - 1 - c) % NSlots < (((e + m) % NSlots) - c) % NSlots
<1>1. /\ NSlots \in Nat \ {0} /\ c \in 0 .. NSlots - 1 /\ e \in 0 .. NSlots - 1
      /\ m \in 0 .. NSlots - 1
  BY NetmapAssumption DEF Slots
<1>2. (e - 1 - c) % NSlots = IF e - 1 - c < 0 THEN e - 1 - c + NSlots ELSE e - 1 - c
  BY <1>1, FarBehind
<1>3. (c - e) % NSlots = IF c - e < 0 THEN c - e + NSlots ELSE c - e
  BY <1>1, Behind
<1> DEFINE i == (e + m) % NSlots
<1>4. i = IF e + m < NSlots THEN e + m ELSE e + m - NSlots
  BY <1>1, Ahead
<1>5. i \in 0 .. NSlots - 1
  BY <1>1, <1>4
<1> HIDE DEF i
<1>6. (i - c) % NSlots = IF i - c < 0 THEN i - c + NSlots ELSE i - c
  BY <1>1, <1>5, Behind
<1> QED BY <1>1, <1>2, <1>3, <1>4, <1>5, <1>6 DEF i

-----------------------------------------------------------------------------
(* A pass over a pair of rings *)

LEMMA LimitOK ==
    ASSUME Shape, NEW p \in Rings, NEW q \in Rings
    PROVE  /\ RxSpace(rx[p]) \in Slots /\ TxSpace(tx[q]) \in Slots
           /\ Limit(rx[p], tx[q]) \in Slots
           /\ Limit(rx[p], tx[q]) <= RxSpace(rx[p])
           /\ Limit(rx[p], tx[q]) <= TxSpace(tx[q])
<1>1. NSlots \in Nat \ {0} /\ Slots = 0 .. NSlots - 1
  BY NetmapAssumption DEF Slots
<1>2. rx[p].cur \in Slots /\ rx[p].tail \in Slots /\ tx[q].cur \in Slots /\ tx[q].done \in Slots
  BY DEF Shape
<1>3. RxSpace(rx[p]) \in Slots
  BY <1>2, BackAndForth DEF RxSpace
<1>4. TxSpace(tx[q]) \in Slots
  <2> DEFINE e == tx[q].done
             d == tx[q].cur
  <2>1. e \in 0 .. NSlots - 1 /\ d \in 0 .. NSlots - 1
    BY <1>1, <1>2
  <2>2. TxSpace(tx[q]) = (e - 1 - d) % NSlots
    BY DEF TxSpace
  <2> HIDE DEF e, d
  <2>3. (e - 1 - d) % NSlots = IF e - 1 - d < 0 THEN e - 1 - d + NSlots ELSE e - 1 - d
    BY <2>1, FarBehind
  <2> QED BY <1>1, <2>1, <2>2, <2>3
<1> QED BY <1>1, <1>3, <1>4 DEF Limit, AtMost

LEMMA InWindow ==
    ASSUME NEW r, r.cur \in Slots, NEW n \in Slots, NEW i \in Slots
    PROVE  i \in Window(r, n) <=> Offset(r, i) < n
<1>1. NSlots \in Nat \ {0} /\ Slots = 0 .. NSlots - 1
  BY NetmapAssumption DEF Slots
<1>2. Offset(r, i) \in Slots /\ (r.cur + Offset(r, i)) % NSlots = i
  <2> DEFINE c == r.cur
  <2>1. c \in Slots /\ Offset(r, i) = (i - c) % NSlots
    BY DEF Offset
  <2> HIDE DEF c
  <2>2. (i - c) % NSlots \in Slots /\ (c + ((i - c) % NSlots)) % NSlots = i
    BY <2>1, BackAndForth
  <2> QED BY <2>2 DEF c, Offset
<1>3. ASSUME Offset(r, i) < n PROVE i \in Window(r, n)
  BY <1>1, <1>2, <1>3 DEF Window
<1>4. ASSUME i \in Window(r, n) PROVE Offset(r, i) < n
  <2>1. PICK s \in 0 .. n - 1 : i = (r.cur + s) % NSlots
    BY <1>4 DEF Window
  <2>2. s \in Slots /\ s < n
    BY <1>1, <2>1
  <2>3. Offset(r, i) = s
    BY <2>1, <2>2, ForthAndBack DEF Offset
  <2> QED BY <2>2, <2>3
<1> QED BY <1>3, <1>4

\* The slot of ring t at the distance that i has in ring r.
Across(r, t, i) == (t.cur + Offset(r, i)) % NSlots

LEMMA AcrossAndBack ==
    ASSUME NEW r, NEW t, r.cur \in Slots, t.cur \in Slots, NEW i \in Slots
    PROVE  /\ Across(r, t, i) \in Slots
           /\ Across(t, r, Across(r, t, i)) = i
           /\ Offset(t, Across(r, t, i)) = Offset(r, i)
<1> DEFINE c == r.cur
           d == t.cur
           m == Offset(r, i)
           j == Across(r, t, i)
<1>1. c \in Slots /\ d \in Slots /\ m = (i - c) % NSlots /\ j = (d + m) % NSlots
  BY DEF Across, Offset
<1>2. Offset(t, j) = (j - d) % NSlots /\ Across(t, r, j) = (c + Offset(t, j)) % NSlots
  BY DEF Across, Offset
<1> HIDE DEF c, d, m, j
<1>3. m \in Slots /\ (c + m) % NSlots = i
  <2>1. (i - c) % NSlots \in Slots /\ (c + ((i - c) % NSlots)) % NSlots = i
    BY <1>1, BackAndForth
  <2> QED BY <2>1 DEF m, c, Offset
<1>4. j \in Slots /\ (j - d) % NSlots = m
  BY <1>1, <1>3, ForthAndBack
<1>5. Offset(t, j) = m /\ Across(t, r, j) = i
  BY <1>2, <1>3, <1>4, Zenon
<1> QED BY <1>4, <1>5, Zenon DEF m, j

Places == {"rx", "tx"} \X Rings \X Slots

LEMMA PermutedStaysApart ==
    ASSUME NEW S, NEW f, NEW g, DOMAIN f = S, DOMAIN g = S, IsInjective(f),
           NEW sigma \in [S -> S], \A x \in S : sigma[sigma[x]] = x,
           \A x \in S : g[x] = f[sigma[x]]
    PROVE  IsInjective(g)
  BY DEF IsInjective

LEMMA HeldIs ==
    /\ DOMAIN Held = Places
    /\ \A r \in Rings, i \in Slots : /\ Held[<<"rx", r, i>>] = rx[r].slot[i]
                                     /\ Held[<<"tx", r, i>>] = tx[r].slot[i]
  BY DEF Held, Places

\* The same for the state after a step.
LEMMA HeldIsNext ==
    /\ DOMAIN Held' = Places
    /\ \A r \in Rings, i \in Slots : /\ Held'[<<"rx", r, i>>] = rx'[r].slot[i]
                                     /\ Held'[<<"tx", r, i>>] = tx'[r].slot[i]
  BY DEF Held, Places

LEMMA Apart ==
    ASSUME BuffersApart, NEW r \in Rings, NEW s \in Rings, NEW i \in Slots, NEW j \in Slots
    PROVE  /\ rx[r].slot[i] = rx[s].slot[j] => r = s /\ i = j
           /\ rx[r].slot[i] # tx[s].slot[j]
<1>1. /\ <<"rx", r, i>> \in DOMAIN Held /\ <<"rx", s, j>> \in DOMAIN Held
      /\ <<"tx", s, j>> \in DOMAIN Held
  BY HeldIs DEF Places
<1>2. /\ Held[<<"rx", r, i>>] = Held[<<"rx", s, j>>] => <<"rx", r, i>> = <<"rx", s, j>>
      /\ Held[<<"rx", r, i>>] = Held[<<"tx", s, j>>] => <<"rx", r, i>> = <<"tx", s, j>>
  BY <1>1 DEF BuffersApart, IsInjective
<1>3. <<"rx", r, i>> # <<"tx", s, j>>
  OBVIOUS
<1> QED BY <1>2, <1>3, HeldIs

\* What a pass over n slots does to the slots of its two rings.
LEMMA ExchangedSlots ==
    ASSUME Shape, NEW p \in Rings, NEW q \in Rings, ProcessRings(p, q),
           NEW n, n = Limit(rx[p], tx[q])
    PROVE  /\ \A i \in Slots :
                 /\ rx'[p].slot[i] = IF Turned(rx[p], n, i)
                                     THEN tx[q].slot[Across(rx[p], tx[q], i)]
                                     ELSE rx[p].slot[i]
                 /\ tx'[q].slot[i] = IF Turned(rx[p], n, Across(tx[q], rx[p], i))
                                     THEN rx[p].slot[Across(tx[q], rx[p], i)]
                                     ELSE tx[q].slot[i]
           /\ \A r \in Rings \ {p} : rx'[r] = rx[r]
           /\ \A r \in Rings \ {q} : tx'[r] = tx[r]
           /\ rx'[p].cur = (rx[p].cur + n) % NSlots /\ rx'[p].tail = rx[p].tail
           /\ tx'[q].cur = (tx[q].cur + n) % NSlots /\ tx'[q].done = tx[q].done
<1> DEFINE r == rx[p]
           t == tx[q]
<1>1. /\ rx' = [rx EXCEPT ![p] = [r EXCEPT !.slot = RxExchanged(r, t, n),
                                           !.cur = (@ + n) % NSlots]]
      /\ tx' = [tx EXCEPT ![q] = [t EXCEPT !.slot = TxExchanged(r, t, n),
                                           !.cur = (@ + n) % NSlots]]
  BY DEF ProcessRings
<1>2. /\ rx \in [Rings -> [slot : [Slots -> Bufs], cur : Slots, tail : Slots]]
      /\ tx \in [Rings -> [slot : [Slots -> Bufs], cur : Slots, done : Slots]]
  BY DEF Shape
<1>3. /\ r \in [slot : [Slots -> Bufs], cur : Slots, tail : Slots]
      /\ t \in [slot : [Slots -> Bufs], cur : Slots, done : Slots]
  BY <1>2
<1>4. \A i \in Slots :
        /\ RxExchanged(r, t, n)[i] = IF Turned(r, n, i) THEN t.slot[Across(r, t, i)]
                                     ELSE r.slot[i]
        /\ TxExchanged(r, t, n)[i] = IF Turned(r, n, Across(t, r, i))
                                     THEN r.slot[Across(t, r, i)] ELSE t.slot[i]
  BY DEF RxExchanged, TxExchanged, Across
<1> HIDE DEF r, t
<1>5. rx'[p] = [r EXCEPT !.slot = RxExchanged(r, t, n), !.cur = (@ + n) % NSlots]
  BY <1>1, <1>2
<1>6. tx'[q] = [t EXCEPT !.slot = TxExchanged(r, t, n), !.cur = (@ + n) % NSlots]
  BY <1>1, <1>2
<1>7. /\ rx'[p].slot = RxExchanged(r, t, n) /\ tx'[q].slot = TxExchanged(r, t, n)
      /\ rx'[p].cur = (r.cur + n) % NSlots /\ rx'[p].tail = r.tail
      /\ tx'[q].cur = (t.cur + n) % NSlots /\ tx'[q].done = t.done
  BY <1>3, <1>5, <1>6
<1>8. /\ \A s \in Rings \ {p} : rx'[s] = rx[s]
      /\ \A s \in Rings \ {q} : tx'[s] = tx[s]
  BY <1>1, <1>2
<1> QED BY <1>4, <1>7, <1>8 DEF r, t

\* The exchange permutes the buffers.
LEMMA ExchangeKeepsApart ==
    ASSUME Shape, BuffersApart, NEW p \in Rings, NEW q \in Rings, ProcessRings(p, q)
    PROVE  BuffersApart'
<1> DEFINE r == rx[p]
           t == tx[q]
           n == Limit(r, t)
           Goes(i) == Turned(r, n, i)
           sigma == [x \in Places |->
                       IF x[1] = "rx" /\ x[2] = p /\ Goes(x[3])
                       THEN <<"tx", q, Across(r, t, x[3])>>
                       ELSE IF x[1] = "tx" /\ x[2] = q /\ Goes(Across(t, r, x[3]))
                       THEN <<"rx", p, Across(t, r, x[3])>>
                       ELSE x]
<1>1. r.cur \in Slots /\ t.cur \in Slots
  BY DEF Shape
<1>2. /\ \A i \in Slots :
            /\ rx'[p].slot[i] = IF Goes(i) THEN tx[q].slot[Across(r, t, i)] ELSE rx[p].slot[i]
            /\ tx'[q].slot[i] = IF Goes(Across(t, r, i)) THEN rx[p].slot[Across(t, r, i)]
                                ELSE tx[q].slot[i]
      /\ \A s \in Rings \ {p} : rx'[s] = rx[s]
      /\ \A s \in Rings \ {q} : tx'[s] = tx[s]
  BY ExchangedSlots
<1> HIDE DEF r, t, n, Goes
<1>3. \A i \in Slots : /\ Across(r, t, i) \in Slots /\ Across(t, r, i) \in Slots
                       /\ Across(t, r, Across(r, t, i)) = i
                       /\ Across(r, t, Across(t, r, i)) = i
  BY <1>1, AcrossAndBack
<1>4. \A x \in Places : \E s \in Rings, i \in Slots : x = <<"rx", s, i>> \/ x = <<"tx", s, i>>
  BY DEF Places
<1>5. ASSUME NEW s \in Rings, NEW i \in Slots
      PROVE  /\ <<"rx", s, i>> \in Places /\ <<"tx", s, i>> \in Places
             /\ sigma[<<"rx", s, i>>] = IF s = p /\ Goes(i) THEN <<"tx", q, Across(r, t, i)>>
                                        ELSE <<"rx", s, i>>
             /\ sigma[<<"tx", s, i>>] = IF s = q /\ Goes(Across(t, r, i))
                                        THEN <<"rx", p, Across(t, r, i)>>
                                        ELSE <<"tx", s, i>>
  BY DEF Places
<1> HIDE DEF sigma
<1>6. ASSUME NEW x \in Places
      PROVE  sigma[x] \in Places /\ sigma[sigma[x]] = x /\ Held'[x] = Held[sigma[x]]
  <2>1. PICK s \in Rings, i \in Slots : x = <<"rx", s, i>> \/ x = <<"tx", s, i>>
    BY <1>4
  <2>2. CASE x = <<"rx", s, i>>
    <3>1. CASE s = p /\ Goes(i)
      <4>1. sigma[x] = <<"tx", q, Across(r, t, i)>> /\ Across(r, t, i) \in Slots
        BY <1>3, <1>5, <2>2, <3>1
      <4>2. sigma[sigma[x]] = <<"rx", p, i>>
        BY <1>3, <1>5, <3>1, <4>1
      <4>3. sigma[x] \in Places
        BY <1>5, <4>1
      <4>4. Held'[x] = rx'[p].slot[i]
        BY <2>2, <3>1, HeldIsNext
      <4>5. Held[sigma[x]] = tx[q].slot[Across(r, t, i)]
        BY <4>1, HeldIs
      <4>6. rx'[p].slot[i] = tx[q].slot[Across(r, t, i)]
        BY <1>2, <3>1
      <4> QED BY <2>2, <3>1, <4>2, <4>3, <4>4, <4>5, <4>6
    <3>2. CASE ~(s = p /\ Goes(i))
      <4>1. sigma[x] = x
        BY <1>5, <2>2, <3>2
      <4>2. rx'[s].slot[i] = rx[s].slot[i]
        BY <1>2, <3>2
      <4>3. Held'[x] = rx'[s].slot[i] /\ Held[x] = rx[s].slot[i]
        BY <2>2, HeldIs, HeldIsNext
      <4> QED BY <4>1, <4>2, <4>3
    <3> QED BY <3>1, <3>2
  <2>3. CASE x = <<"tx", s, i>>
    <3>1. CASE s = q /\ Goes(Across(t, r, i))
      <4>1. sigma[x] = <<"rx", p, Across(t, r, i)>> /\ Across(t, r, i) \in Slots
        BY <1>3, <1>5, <2>3, <3>1
      <4>2. sigma[sigma[x]] = <<"tx", q, i>>
        BY <1>3, <1>5, <3>1, <4>1
      <4>3. sigma[x] \in Places
        BY <1>5, <4>1
      <4>4. Held'[x] = tx'[q].slot[i]
        BY <2>3, <3>1, HeldIsNext
      <4>5. Held[sigma[x]] = rx[p].slot[Across(t, r, i)]
        BY <4>1, HeldIs
      <4>6. tx'[q].slot[i] = rx[p].slot[Across(t, r, i)]
        BY <1>2, <3>1
      <4> QED BY <2>3, <3>1, <4>2, <4>3, <4>4, <4>5, <4>6
    <3>2. CASE ~(s = q /\ Goes(Across(t, r, i)))
      <4>1. sigma[x] = x
        BY <1>5, <2>3, <3>2
      <4>2. tx'[s].slot[i] = tx[s].slot[i]
        BY <1>2, <3>2
      <4>3. Held'[x] = tx'[s].slot[i] /\ Held[x] = tx[s].slot[i]
        BY <2>3, HeldIs, HeldIsNext
      <4> QED BY <4>1, <4>2, <4>3
    <3> QED BY <3>1, <3>2
  <2> QED BY <2>1, <2>2, <2>3
<1>7. sigma \in [Places -> Places]
  BY <1>6 DEF sigma
<1> QED BY <1>6, <1>7, HeldIs, HeldIsNext, PermutedStaysApart DEF BuffersApart

LEMMA AnswerOK ==
    ASSUME NEW f \in Frame
    PROVE  Answer(f) \in Frame /\ Answer(f).id = f.id /\ Answer(f).kind = "answer"
<1>1. AnsweredState(f) \in RemoteStates
  BY DEF AnsweredState, RemoteStates, AdminDown, Down, Init_, Up
<1>2. /\ f = [id |-> f.id, kind |-> f.kind, state |-> f.state, my |-> f.my, your |-> f.your]
      /\ f.id \in 0 .. MaxFrames /\ f.my \in Nat /\ f.your \in Nat
  BY DEF Frame
<1> DEFINE d == IF f.state = AdminDown THEN f.your ELSE MyDscr
<1>3. d \in Nat /\ "answer" \in Kinds
  BY <1>2 DEF MyDscr, Kinds
<1>4. Answer(f) = [f EXCEPT !.kind = "answer", !.state = AnsweredState(f),
                            !.your = f.my, !.my = d]
  BY DEF Answer
<1> HIDE DEF d
<1> QED BY <1>1, <1>2, <1>3, <1>4 DEF Frame

LEMMA ProcessKeepsShape ==
    ASSUME Shape, NEW p \in Rings, NEW q \in Rings, ProcessRings(p, q)
    PROVE  /\ mem' \in [Bufs -> Frame]
           /\ rx' \in [Rings -> [slot : [Slots -> Bufs], cur : Slots, tail : Slots]]
           /\ tx' \in [Rings -> [slot : [Slots -> Bufs], cur : Slots, done : Slots]]
<1> DEFINE r == rx[p]
           t == tx[q]
           n == Limit(r, t)
<1>1. /\ r \in [slot : [Slots -> Bufs], cur : Slots, tail : Slots]
      /\ t \in [slot : [Slots -> Bufs], cur : Slots, done : Slots]
      /\ n \in Slots
  BY LimitOK DEF Shape
<1>2. /\ mem' = [b \in Bufs |-> IF \E i \in Slots : Turned(r, n, i) /\ r.slot[i] = b
                                 THEN Answer(mem[b]) ELSE mem[b]]
      /\ rx' = [rx EXCEPT ![p] = [r EXCEPT !.slot = RxExchanged(r, t, n),
                                           !.cur = (@ + n) % NSlots]]
      /\ tx' = [tx EXCEPT ![q] = [t EXCEPT !.slot = TxExchanged(r, t, n),
                                           !.cur = (@ + n) % NSlots]]
  BY DEF ProcessRings
<1>3. \A i \in Slots : Across(r, t, i) \in Slots /\ Across(t, r, i) \in Slots
  BY <1>1, AcrossAndBack
<1>4. \A i \in Slots : (t.cur + Offset(r, i)) % NSlots \in Slots
                       /\ (r.cur + Offset(t, i)) % NSlots \in Slots
  BY <1>3 DEF Across
<1> HIDE DEF r, t, n
<1>5. RxExchanged(r, t, n) \in [Slots -> Bufs] /\ TxExchanged(r, t, n) \in [Slots -> Bufs]
  BY <1>1, <1>4 DEF RxExchanged, TxExchanged
<1>6. (r.cur + n) % NSlots \in Slots /\ (t.cur + n) % NSlots \in Slots
  BY <1>1, ForthAndBack
<1>7. mem' \in [Bufs -> Frame]
  BY <1>2, AnswerOK DEF Shape
<1> QED BY <1>1, <1>2, <1>5, <1>6, <1>7 DEF Shape

\* Where frame id is, if it is not lost.
Kept(id) ==
    \/ Sent(id)
    \/ \E r \in Rings : \E b \in ToRead(r) : mem[b].id = id /\ mem[b].kind = "bfd"
    \/ \E r \in Rings : \E b \in ToSend(r) : mem[b].id = id /\ mem[b].kind = "answer"

LEMMA ReadSlot ==
    ASSUME Shape, NEW r \in Rings, NEW b \in ToRead(r)
    PROVE  \E m \in Slots : /\ m < RxSpace(rx[r])
                            /\ (rx[r].cur + m) % NSlots \in Slots
                            /\ b = rx[r].slot[(rx[r].cur + m) % NSlots]
                            /\ b \in Bufs
<1>1. rx[r].cur \in Slots /\ rx[r].slot \in [Slots -> Bufs] /\ RxSpace(rx[r]) \in Slots
  BY LimitOK DEF Shape
<1>2. PICK m \in 0 .. RxSpace(rx[r]) - 1 : b = rx[r].slot[(rx[r].cur + m) % NSlots]
  BY DEF ToRead
<1>3. m \in Slots /\ m < RxSpace(rx[r])
  BY <1>1, <1>2, NetmapAssumption DEF Slots
<1>4. (rx[r].cur + m) % NSlots \in Slots
  BY <1>1, <1>3, ForthAndBack
<1> QED BY <1>1, <1>2, <1>3, <1>4

LEMMA SendSlot ==
    ASSUME Shape, NEW r \in Rings, NEW b \in ToSend(r)
    PROVE  \E m \in Slots : /\ m < (tx[r].cur - tx[r].done) % NSlots
                            /\ (tx[r].done + m) % NSlots \in Slots
                            /\ b = tx[r].slot[(tx[r].done + m) % NSlots]
                            /\ b \in Bufs
<1>1. tx[r].cur \in Slots /\ tx[r].done \in Slots /\ tx[r].slot \in [Slots -> Bufs]
  BY DEF Shape
<1>2. (tx[r].cur - tx[r].done) % NSlots \in Slots
  BY <1>1, BackAndForth
<1>3. PICK m \in 0 .. ((tx[r].cur - tx[r].done) % NSlots) - 1 :
           b = tx[r].slot[(tx[r].done + m) % NSlots]
  BY DEF ToSend
<1>4. m \in Slots /\ m < (tx[r].cur - tx[r].done) % NSlots
  BY <1>2, <1>3, NetmapAssumption DEF Slots
<1>5. (tx[r].done + m) % NSlots \in Slots
  BY <1>1, <1>4, ForthAndBack
<1> QED BY <1>1, <1>3, <1>4, <1>5

\* The same two for the state after a step, the other way round.
LEMMA ReadSlotNext ==
    ASSUME NEW r, NEW m \in Nat, m < RxSpace(rx'[r]), RxSpace(rx'[r]) \in Nat
    PROVE  rx'[r].slot[(rx'[r].cur + m) % NSlots] \in ToRead(r)'
<1>1. m \in 0 .. RxSpace(rx'[r]) - 1
  OBVIOUS
<1> QED BY <1>1 DEF ToRead

LEMMA SendSlotNext ==
    ASSUME NEW r, NEW m \in Nat, m < (tx'[r].cur - tx'[r].done) % NSlots,
           (tx'[r].cur - tx'[r].done) % NSlots \in Nat
    PROVE  tx'[r].slot[(tx'[r].done + m) % NSlots] \in ToSend(r)'
<1>1. m \in 0 .. ((tx'[r].cur - tx'[r].done) % NSlots) - 1
  OBVIOUS
<1> QED BY <1>1 DEF ToSend

\* A pass over a pair of rings loses no frame.
LEMMA ProcessLosesNone ==
    ASSUME Shape, BuffersApart, NEW p \in Rings, NEW q \in Rings, ProcessRings(p, q),
           sent' = sent, NEW id, Kept(id)
    PROVE  Kept(id)'
<1> DEFINE r == rx[p]
           t == tx[q]
           n == Limit(r, t)
           c == r.cur
           d == t.cur
           e == t.done
<1>1. /\ n \in Slots /\ n <= RxSpace(r) /\ n <= TxSpace(t)
      /\ RxSpace(r) \in Slots /\ TxSpace(t) \in Slots
  BY LimitOK
<1>2. c \in Slots /\ d \in Slots /\ e \in Slots /\ r.tail \in Slots
  BY DEF Shape
<1>3. RxSpace(r) = (r.tail - c) % NSlots /\ TxSpace(t) = (e - 1 - d) % NSlots
  BY DEF RxSpace, TxSpace
<1>4. /\ \A i \in Slots :
            /\ rx'[p].slot[i] = IF Turned(r, n, i) THEN t.slot[Across(r, t, i)] ELSE r.slot[i]
            /\ tx'[q].slot[i] = IF Turned(r, n, Across(t, r, i)) THEN r.slot[Across(t, r, i)]
                                ELSE t.slot[i]
      /\ \A s \in Rings \ {p} : rx'[s] = rx[s]
      /\ \A s \in Rings \ {q} : tx'[s] = tx[s]
      /\ rx'[p].cur = (c + n) % NSlots /\ rx'[p].tail = r.tail
      /\ tx'[q].cur = (d + n) % NSlots /\ tx'[q].done = e
  BY ExchangedSlots
<1>5. \A b \in Bufs : mem'[b] = IF \E i \in Slots : Turned(r, n, i) /\ r.slot[i] = b
                                THEN Answer(mem[b]) ELSE mem[b]
  BY DEF ProcessRings
<1>6. \A i \in Slots : Turned(r, n, i) <=> Offset(r, i) < n /\ mem[r.slot[i]].kind = "bfd"
  BY <1>1, <1>2, InWindow DEF Turned, IsBfdPacket
<1>7. NSlots \in Nat \ {0} /\ Slots = 0 .. NSlots - 1
  BY NetmapAssumption DEF Slots
<1>8. \A i, j \in Slots : r.slot[i] = r.slot[j] => i = j
  BY Apart
<1>9. RxSpace(rx'[p]) = RxSpace(r) - n
  BY <1>1, <1>2, <1>3, <1>4, Consumed DEF RxSpace
<1>10. /\ (tx'[q].cur - tx'[q].done) % NSlots = ((d - e) % NSlots) + n
       /\ ((d - e) % NSlots) + n < NSlots /\ (d - e) % NSlots \in Slots
  BY <1>1, <1>2, <1>3, <1>4, Released, BackAndForth
<1>12. CASE Sent(id)
  BY <1>12 DEF Kept, Sent
<1>13. ASSUME NEW s \in Rings, NEW b \in ToRead(s), mem[b].id = id, mem[b].kind = "bfd"
       PROVE  Kept(id)'
  <2>1. PICK m \in Slots : /\ m < RxSpace(rx[s])
                           /\ (rx[s].cur + m) % NSlots \in Slots
                           /\ b = rx[s].slot[(rx[s].cur + m) % NSlots]
                           /\ b \in Bufs
    BY ReadSlot
  <2> DEFINE i == (rx[s].cur + m) % NSlots
  <2>2. CASE s = p /\ m < n
    <3>1. Offset(r, i) = m
      BY <1>2, <2>2, ForthAndBack DEF Offset
    <3>2. Turned(r, n, i) /\ r.slot[i] = b
      BY <1>6, <1>13, <2>1, <2>2, <3>1
    <3>3. mem'[b] = Answer(mem[b]) /\ mem[b] \in Frame
      BY <1>5, <2>1, <3>2 DEF Shape
    <3>4. mem'[b].id = id /\ mem'[b].kind = "answer"
      BY <1>13, <3>3, AnswerOK
    <3>5. Across(r, t, i) = (d + m) % NSlots
      BY <3>1 DEF Across
    <3>6. Across(r, t, i) \in Slots /\ Across(t, r, Across(r, t, i)) = i
      BY <1>2, <2>1, AcrossAndBack
    <3>7. tx'[q].slot[(d + m) % NSlots] = b
      BY <1>4, <3>2, <3>5, <3>6
    <3> DEFINE k == (d - e) % NSlots
    <3>8. k \in Slots /\ (e + k) % NSlots = d
      BY <1>2, BackAndForth
    <3>9. k + m \in Nat /\ k + m < (tx'[q].cur - tx'[q].done) % NSlots
      BY <1>1, <1>7, <1>10, <2>1, <2>2
    <3> HIDE DEF k
    <3>10. (d + m) % NSlots = (e + (k + m)) % NSlots
      <4>1. m \in Nat /\ k + m < NSlots
        BY <1>1, <1>7, <1>10, <2>2, <3>8 DEF k
      <4>2. (((e + k) % NSlots) + m) % NSlots = (e + (k + m)) % NSlots
        BY <1>2, <3>8, <4>1, TwoSteps
      <4> QED BY <3>8, <4>2
    <3>11. b \in ToSend(q)'
      <4>1. (tx'[q].cur - tx'[q].done) % NSlots \in Nat
        BY <1>1, <1>7, <1>10
      <4>2. tx'[q].slot[(tx'[q].done + (k + m)) % NSlots] \in ToSend(q)'
        BY <3>9, <4>1, SendSlotNext
      <4> QED BY <1>4, <3>7, <3>10, <4>2
    <3> QED BY <3>4, <3>11 DEF Kept
  <2>3. CASE s = p /\ ~(m < n)
    <3>1. Offset(r, i) = m
      BY <1>2, <2>3, ForthAndBack DEF Offset
    <3>2. ~Turned(r, n, i) /\ r.slot[i] = b
      BY <1>6, <2>1, <2>3, <3>1
    <3>3. mem'[b] = mem[b]
      BY <1>5, <1>8, <2>1, <2>3, <3>2
    <3>4. rx'[p].slot[i] = b
      BY <1>4, <2>1, <3>2
    <3> DEFINE k == m - n
    <3>5. k \in Nat /\ k < RxSpace(rx'[p]) /\ n + k = m /\ RxSpace(rx'[p]) \in Nat
      BY <1>1, <1>7, <1>9, <2>1, <2>3
    <3> HIDE DEF k
    <3>6. (((c + n) % NSlots) + k) % NSlots = i
      <4>1. n + k < NSlots /\ n + k = m
        BY <1>7, <3>5
      <4>2. (((c + n) % NSlots) + k) % NSlots = (c + (n + k)) % NSlots
        BY <1>1, <1>2, <3>5, <4>1, TwoSteps
      <4> QED BY <2>3, <4>1, <4>2
    <3>7. b \in ToRead(p)'
      BY <1>4, <3>4, <3>5, <3>6, ReadSlotNext
    <3> QED BY <1>13, <3>3, <3>7 DEF Kept
  <2>4. CASE s # p
    <3>1. rx'[s] = rx[s]
      BY <1>4, <2>4
    <3>2. \A j \in Slots : r.slot[j] # b
      BY <2>1, <2>4, Apart
    <3>3. mem'[b] = mem[b]
      BY <1>5, <2>1, <3>2
    <3>4. b \in ToRead(s)'
      BY <3>1 DEF ToRead
    <3> QED BY <1>13, <3>3, <3>4 DEF Kept
  <2> QED BY <2>2, <2>3, <2>4
<1>14. ASSUME NEW s \in Rings, NEW b \in ToSend(s), mem[b].id = id, mem[b].kind = "answer"
       PROVE  Kept(id)'
  <2>1. PICK m \in Slots : /\ m < (tx[s].cur - tx[s].done) % NSlots
                           /\ (tx[s].done + m) % NSlots \in Slots
                           /\ b = tx[s].slot[(tx[s].done + m) % NSlots]
                           /\ b \in Bufs
    BY SendSlot
  <2> DEFINE i == (tx[s].done + m) % NSlots
  <2>2. \A j \in Slots : r.slot[j] # b
    BY <2>1, Apart
  <2>3. mem'[b] = mem[b]
    BY <1>5, <2>1, <2>2
  <2>4. b \in ToSend(s)'
    <3>1. CASE s = q
      <4>1. TxSpace(t) < Offset(t, i)
        BY <1>2, <1>3, <2>1, <3>1, OutOfReach DEF Offset
      <4>2. Offset(r, Across(t, r, i)) = Offset(t, i) /\ Across(t, r, i) \in Slots
        BY <1>2, <2>1, AcrossAndBack
      <4>3. Offset(t, i) \in Slots
        BY <1>2, <2>1, BackAndForth DEF Offset
      <4>4. ~Turned(r, n, Across(t, r, i))
        BY <1>1, <1>6, <1>7, <4>1, <4>2, <4>3
      <4>5. tx'[q].slot[i] = b
        BY <1>4, <2>1, <3>1, <4>4
      <4>6. m \in Nat /\ m < (tx'[q].cur - tx'[q].done) % NSlots
        BY <1>1, <1>7, <1>10, <2>1, <3>1
      <4>7. (tx'[q].cur - tx'[q].done) % NSlots \in Nat
        BY <1>1, <1>7, <1>10
      <4>8. tx'[q].slot[(tx'[q].done + m) % NSlots] \in ToSend(q)'
        BY <4>6, <4>7, SendSlotNext
      <4> QED BY <1>4, <3>1, <4>5, <4>8
    <3>2. CASE s # q
      BY <1>4, <3>2 DEF ToSend
    <3> QED BY <3>1, <3>2
  <2> QED BY <1>14, <2>3, <2>4 DEF Kept
<1> QED BY <1>12, <1>13, <1>14 DEF Kept

-----------------------------------------------------------------------------
(* The card *)

LEMMA OneMore ==
    ASSUME NEW c \in Slots, NEW t \in Slots, NextSlot(t) # c
    PROVE  NextSlot(t) \in Slots /\ (NextSlot(t) - c) % NSlots = ((t - c) % NSlots) + 1
<1>1. NSlots \in Nat \ {0, 1} /\ c \in 0 .. NSlots - 1 /\ t \in 0 .. NSlots - 1
      /\ 1 \in 0 .. NSlots - 1
  BY NetmapAssumption DEF Slots
<1> DEFINE i == NextSlot(t)
<1>2. i = IF t + 1 < NSlots THEN t + 1 ELSE t + 1 - NSlots
  BY <1>1, Ahead DEF NextSlot
<1>3. i \in 0 .. NSlots - 1 /\ i # c
  BY <1>1, <1>2
<1> HIDE DEF i
<1>4. (i - c) % NSlots = IF i - c < 0 THEN i - c + NSlots ELSE i - c
  BY <1>1, <1>3, Behind
<1>5. (t - c) % NSlots = IF t - c < 0 THEN t - c + NSlots ELSE t - c
  BY <1>1, Behind
<1> QED BY <1>1, <1>2, <1>3, <1>4, <1>5 DEF i, Slots

LEMMA OneLess ==
    ASSUME NEW c \in Slots, NEW e \in Slots, e # c
    PROVE  /\ NextSlot(e) \in Slots
           /\ (c - NextSlot(e)) % NSlots = ((c - e) % NSlots) - 1
<1>1. NSlots \in Nat \ {0, 1} /\ c \in 0 .. NSlots - 1 /\ e \in 0 .. NSlots - 1
      /\ 1 \in 0 .. NSlots - 1
  BY NetmapAssumption DEF Slots
<1> DEFINE i == NextSlot(e)
<1>2. i = IF e + 1 < NSlots THEN e + 1 ELSE e + 1 - NSlots
  BY <1>1, Ahead DEF NextSlot
<1>3. i \in 0 .. NSlots - 1
  BY <1>1, <1>2
<1> HIDE DEF i
<1>4. (c - i) % NSlots = IF c - i < 0 THEN c - i + NSlots ELSE c - i
  BY <1>1, <1>3, Behind
<1>5. (c - e) % NSlots = IF c - e < 0 THEN c - e + NSlots ELSE c - e
  BY <1>1, Behind
<1> QED BY <1>1, <1>2, <1>3, <1>4, <1>5 DEF i, Slots

LEMMA NoStep ==
    ASSUME NEW c \in Slots
    PROVE  (c + 0) % NSlots = c
<1>1. NSlots \in Nat \ {0} /\ c \in 0 .. NSlots - 1
  BY NetmapAssumption DEF Slots
<1>2. c % NSlots = c /\ c + 0 = c
  BY <1>1
<1> QED BY <1>2

\* Steps that move no buffer between slots.
LEMMA SameSlotsSameHeld ==
    ASSUME BuffersApart,
           \A r \in Rings : rx'[r].slot = rx[r].slot /\ tx'[r].slot = tx[r].slot
    PROVE  BuffersApart'
<1>1. Held' = Held
  BY DEF Held
<1> QED BY <1>1 DEF BuffersApart

LEMMA TypeIsShape ==
    ASSUME TypeOK
    PROVE  Shape
  BY DEF TypeOK, Shape

LEMMA NicReceiveKeeps ==
    ASSUME IInv, NEW p \in Rings, NEW f \in Arrivals, NicReceive(p, f)
    PROVE  IInv'
<1> DEFINE r == rx[p]
           new == [id |-> arrived + 1, kind |-> f.kind, state |-> f.state,
                   my |-> f.my, your |-> f.your]
           b0 == r.slot[r.tail]
<1>1. /\ arrived < MaxFrames /\ NextSlot(r.tail) # r.cur
      /\ mem' = [mem EXCEPT ![b0] = new]
      /\ rx' = [rx EXCEPT ![p].tail = NextSlot(@)]
      /\ arrived' = arrived + 1
      /\ asked' = IF f.kind = "bfd" THEN asked \cup {arrived'} ELSE asked
      /\ UNCHANGED <<at, tx, sent>>
  BY DEF NicReceive
<1>2. Shape /\ BuffersApart /\ MaxFrames \in Nat /\ NSlots \in Nat \ {0}
      /\ Slots = 0 .. NSlots - 1
  BY TypeIsShape, NetmapAssumption DEF IInv, Slots
<1>3. /\ r \in [slot : [Slots -> Bufs], cur : Slots, tail : Slots]
      /\ b0 \in Bufs
  BY <1>2 DEF Shape
<1>4. /\ NextSlot(r.tail) \in Slots
      /\ (NextSlot(r.tail) - r.cur) % NSlots = RxSpace(r) + 1
      /\ RxSpace(r) \in Slots
  BY <1>1, <1>2, <1>3, OneMore, LimitOK DEF RxSpace
<1>5. /\ new \in Frame /\ new.id = arrived + 1 /\ new.kind = f.kind
  <2>1. f \in PeerFrame
    BY NetmapAssumption
  <2>2. f.kind \in Kinds /\ f.state \in RemoteStates /\ f.my \in Nat /\ f.your \in Nat
    BY <2>1 DEF PeerFrame, Kinds
  <2>3. arrived + 1 \in 0 .. MaxFrames
    BY <1>1, <1>2 DEF Shape
  <2> QED BY <2>2, <2>3 DEF Frame
<1> HIDE DEF new
<1>6. /\ rx'[p] = [r EXCEPT !.tail = NextSlot(r.tail)]
      /\ \A s \in Rings \ {p} : rx'[s] = rx[s]
  BY <1>1, <1>2 DEF Shape
<1>7. /\ rx'[p].slot = r.slot /\ rx'[p].cur = r.cur /\ rx'[p].tail = NextSlot(r.tail)
      /\ rx'[p] \in [slot : [Slots -> Bufs], cur : Slots, tail : Slots]
  BY <1>3, <1>4, <1>6
<1>8. RxSpace(rx'[p]) = RxSpace(r) + 1
  BY <1>4, <1>7 DEF RxSpace
<1>9. mem'[b0] = new /\ \A b \in Bufs \ {b0} : mem'[b] = mem[b]
  BY <1>1, <1>2, <1>3 DEF Shape
<1>10. TypeOK'
  <2>1. mem' \in [Bufs -> Frame]
    BY <1>1, <1>2, <1>5 DEF Shape
  <2>2. rx' \in [Rings -> [slot : [Slots -> Bufs], cur : Slots, tail : Slots]]
    BY <1>1, <1>2, <1>6, <1>7 DEF Shape
  <2>3. arrived' \in 0 .. MaxFrames /\ asked' \subseteq 1 .. arrived'
    BY <1>1, <1>2 DEF Shape
  <2> QED BY <1>1, <2>1, <2>2, <2>3 DEF IInv, TypeOK
<1>11. BuffersApart'
  BY <1>1, <1>2, <1>6, <1>7, SameSlotsSameHeld
<1>12. ASSUME NEW id, Kept(id) PROVE Kept(id)'
  <2>1. CASE Sent(id)
    BY <1>1, <2>1 DEF Kept, Sent
  <2>2. ASSUME NEW s \in Rings, NEW b \in ToRead(s), mem[b].id = id, mem[b].kind = "bfd"
        PROVE  Kept(id)'
    <3>1. PICK m \in Slots : /\ m < RxSpace(rx[s])
                             /\ (rx[s].cur + m) % NSlots \in Slots
                             /\ b = rx[s].slot[(rx[s].cur + m) % NSlots]
                             /\ b \in Bufs
      BY <1>2, ReadSlot
    <3>2. b # b0
      <4>1. CASE s = p
        <5>1. (((r.cur + m) % NSlots) - r.cur) % NSlots = m
          BY <1>3, ForthAndBack
        <5>2. (r.cur + m) % NSlots # r.tail
          BY <1>2, <1>4, <3>1, <4>1, <5>1 DEF RxSpace
        <5> QED BY <1>2, <1>3, <3>1, <4>1, <5>2, Apart
      <4>2. CASE s # p
        BY <1>2, <1>3, <3>1, <4>2, Apart
      <4> QED BY <4>1, <4>2
    <3>3. b \in ToRead(s)'
      <4>1. CASE s = p
        <5>1. m \in Nat /\ m < RxSpace(rx'[p]) /\ RxSpace(rx'[p]) \in Nat
          BY <1>2, <1>4, <1>8, <3>1, <4>1
        <5>2. rx'[p].slot[(rx'[p].cur + m) % NSlots] \in ToRead(p)'
          BY <5>1, ReadSlotNext
        <5> QED BY <1>7, <3>1, <4>1, <5>2
      <4>2. CASE s # p
        BY <1>6, <4>2 DEF ToRead
      <4> QED BY <4>1, <4>2
    <3> QED BY <1>9, <2>2, <3>1, <3>2, <3>3 DEF Kept
  <2>3. ASSUME NEW s \in Rings, NEW b \in ToSend(s), mem[b].id = id, mem[b].kind = "answer"
        PROVE  Kept(id)'
    <3>1. b \in Bufs /\ b # b0
      BY <1>2, <1>3, SendSlot, Apart
    <3>2. b \in ToSend(s)'
      BY <1>1 DEF ToSend
    <3> QED BY <1>9, <2>3, <3>1, <3>2 DEF Kept
  <2> QED BY <1>12, <2>1, <2>2, <2>3 DEF Kept
<1>13. ASSUME f.kind = "bfd", NEW id, id = arrived + 1 PROVE Kept(id)'
  <2>1. (r.cur + RxSpace(r)) % NSlots = r.tail
    BY <1>3, BackAndForth DEF RxSpace
  <2>2. RxSpace(r) \in Nat /\ RxSpace(r) < RxSpace(rx'[p]) /\ RxSpace(rx'[p]) \in Nat
    BY <1>2, <1>4, <1>8
  <2>3. rx'[p].slot[(rx'[p].cur + RxSpace(r)) % NSlots] \in ToRead(p)'
    BY <2>2, ReadSlotNext
  <2>4. b0 \in ToRead(p)'
    BY <1>7, <2>1, <2>3
  <2> QED BY <1>5, <1>9, <1>13, <2>4 DEF Kept
<1>14. NothingLost'
  <2>1. \A id \in asked : Kept(id)
    BY DEF IInv, NothingLost, Kept
  <2>2. \A id \in asked' : Kept(id)'
    BY <1>1, <1>12, <1>13, <2>1
  <2> QED BY <2>2 DEF NothingLost, Kept
<1> QED BY <1>10, <1>11, <1>14 DEF IInv

LEMMA NicTransmitKeeps ==
    ASSUME IInv, NEW q \in Rings, NicTransmit(q)
    PROVE  IInv'
<1> DEFINE t == tx[q]
           b0 == t.slot[t.done]
<1>1. /\ t.done # t.cur
      /\ sent' = [sent EXCEPT ![mem[b0].id] = @ + 1]
      /\ tx' = [tx EXCEPT ![q].done = NextSlot(@)]
      /\ UNCHANGED <<at, mem, rx, arrived, asked>>
  BY DEF NicTransmit
<1>2. Shape /\ BuffersApart /\ MaxFrames \in Nat /\ NSlots \in Nat \ {0}
      /\ Slots = 0 .. NSlots - 1
  BY TypeIsShape, NetmapAssumption DEF IInv, Slots
<1>3. /\ t \in [slot : [Slots -> Bufs], cur : Slots, done : Slots]
      /\ b0 \in Bufs /\ mem[b0].id \in 0 .. MaxFrames
  <2>1. t \in [slot : [Slots -> Bufs], cur : Slots, done : Slots]
    BY <1>2 DEF Shape
  <2>2. b0 \in Bufs
    BY <2>1
  <2> HIDE DEF b0
  <2>3. mem[b0] \in Frame
    BY <1>2, <2>2 DEF Shape
  <2> QED BY <2>1, <2>2, <2>3 DEF Frame
<1>4. /\ NextSlot(t.done) \in Slots
      /\ (t.cur - NextSlot(t.done)) % NSlots = ((t.cur - t.done) % NSlots) - 1
      /\ (t.cur - t.done) % NSlots \in Slots
  BY <1>1, <1>3, OneLess, BackAndForth
<1>5. /\ tx'[q] = [t EXCEPT !.done = NextSlot(t.done)]
      /\ \A s \in Rings \ {q} : tx'[s] = tx[s]
  BY <1>1, <1>2 DEF Shape
<1>6. /\ tx'[q].slot = t.slot /\ tx'[q].cur = t.cur /\ tx'[q].done = NextSlot(t.done)
      /\ tx'[q] \in [slot : [Slots -> Bufs], cur : Slots, done : Slots]
  BY <1>3, <1>4, <1>5
<1>7. /\ sent' \in [0 .. MaxFrames -> Nat] /\ sent'[mem[b0].id] > 0
      /\ \A id \in 0 .. MaxFrames : sent'[id] >= sent[id]
  <2> DEFINE w == mem[b0].id
  <2>1. w \in 0 .. MaxFrames /\ sent' = [sent EXCEPT ![w] = @ + 1]
        /\ sent \in [0 .. MaxFrames -> Nat]
    BY <1>1, <1>2, <1>3 DEF Shape
  <2> HIDE DEF w
  <2>2. sent'[w] > 0 /\ sent' \in [0 .. MaxFrames -> Nat]
        /\ \A id \in 0 .. MaxFrames : sent'[id] >= sent[id]
    BY <2>1
  <2> QED BY <2>2 DEF w
<1>8. TypeOK'
  <2>1. tx' \in [Rings -> [slot : [Slots -> Bufs], cur : Slots, done : Slots]]
    BY <1>1, <1>2, <1>5, <1>6 DEF Shape
  <2> QED BY <1>1, <1>7, <2>1 DEF IInv, TypeOK
<1>9. BuffersApart'
  BY <1>1, <1>2, <1>5, <1>6, SameSlotsSameHeld
<1>10. ASSUME NEW id \in 0 .. MaxFrames, Kept(id) PROVE Kept(id)'
  <2>1. CASE Sent(id)
    <3>1. sent[id] \in Nat /\ sent'[id] \in Nat /\ sent[id] > 0 /\ sent'[id] >= sent[id]
      BY <1>2, <1>7, <2>1 DEF Shape, Sent
    <3> QED BY <3>1 DEF Kept, Sent
  <2>2. ASSUME NEW s \in Rings, NEW b \in ToRead(s), mem[b].id = id, mem[b].kind = "bfd"
        PROVE  Kept(id)'
    <3>1. b \in ToRead(s)'
      BY <1>1 DEF ToRead
    <3> QED BY <1>1, <2>2, <3>1 DEF Kept
  <2>3. ASSUME NEW s \in Rings, NEW b \in ToSend(s), mem[b].id = id, mem[b].kind = "answer"
        PROVE  Kept(id)'
    <3>1. PICK m \in Slots : /\ m < (tx[s].cur - tx[s].done) % NSlots
                             /\ (tx[s].done + m) % NSlots \in Slots
                             /\ b = tx[s].slot[(tx[s].done + m) % NSlots]
                             /\ b \in Bufs
      BY <1>2, SendSlot
    <3>2. CASE s # q
      <4>1. b \in ToSend(s)'
        BY <1>5, <3>2 DEF ToSend
      <4> QED BY <1>1, <2>3, <4>1 DEF Kept
    <3>3. CASE s = q /\ m = 0
      <4>1. (t.done + 0) % NSlots = t.done
        BY <1>3, NoStep
      <4>2. b = b0
        BY <3>1, <3>3, <4>1
      <4> QED BY <1>7, <2>3, <4>2 DEF Kept, Sent
    <3>4. CASE s = q /\ m # 0
      <4> DEFINE k == m - 1
      <4>1. /\ k \in Nat /\ 1 \in Slots /\ 1 + k = m /\ 1 + k < NSlots
            /\ k < (tx'[q].cur - tx'[q].done) % NSlots
            /\ (tx'[q].cur - tx'[q].done) % NSlots \in Nat
        <5> DEFINE w == (t.cur - t.done) % NSlots
        <5>1. m < w /\ w \in Slots /\ (tx'[q].cur - tx'[q].done) % NSlots = w - 1
          BY <1>4, <1>6, <3>1, <3>4
        <5> HIDE DEF w
        <5> QED BY <1>2, <3>4, <5>1
      <4> HIDE DEF k
      <4>2. (((t.done + 1) % NSlots) + k) % NSlots = (t.done + (1 + k)) % NSlots
        BY <1>3, <4>1, TwoSteps
      <4>3. tx'[q].slot[(tx'[q].done + k) % NSlots] \in ToSend(q)'
        BY <4>1, SendSlotNext
      <4>4. b \in ToSend(q)'
        BY <1>6, <3>1, <3>4, <4>1, <4>2, <4>3 DEF NextSlot
      <4> QED BY <1>1, <2>3, <4>4 DEF Kept
    <3> QED BY <3>2, <3>3, <3>4
  <2> QED BY <1>10, <2>1, <2>2, <2>3 DEF Kept
<1>11. NothingLost'
  <2>1. \A id \in asked : Kept(id)
    BY DEF IInv, NothingLost, Kept
  <2>2. \A id \in asked : id \in 0 .. MaxFrames
    BY <1>2 DEF Shape
  <2>3. \A id \in asked' : Kept(id)'
    BY <1>1, <1>10, <2>1, <2>2
  <2> QED BY <2>3 DEF NothingLost, Kept
<1> QED BY <1>8, <1>9, <1>11 DEF IInv

-----------------------------------------------------------------------------
(* The daemon *)

LEMMA TurnKeeps ==
    ASSUME IInv, NEW p \in Rings, NEW q \in Rings, Turn(p, q)
    PROVE  IInv'
<1>1. UNCHANGED <<arrived, asked, sent>> /\ Shape /\ BuffersApart
  BY TypeIsShape DEF Turn, IInv
<1>2. at' \in (Rings \X Rings) \cup {InPoll}
  <2>1. NRings \in Nat /\ Rings = 1 .. NRings
    BY NetmapAssumption DEF Rings
  <2>2. Leave(p + 1, q) \in (Rings \X Rings) \cup {InPoll}
        /\ Leave(p, q + 1) \in (Rings \X Rings) \cup {InPoll}
    BY <2>1 DEF Leave
  <2> QED BY <2>2 DEF Turn, IInv, TypeOK
<1>3. CASE UNCHANGED <<mem, rx, tx>>
  <2>1. TypeOK'
    BY <1>1, <1>2, <1>3 DEF IInv, TypeOK
  <2>2. BuffersApart'
    BY <1>1, <1>3, SameSlotsSameHeld
  <2>3. NothingLost'
    BY <1>1, <1>3 DEF IInv, NothingLost, Sent, ToRead, ToSend
  <2> QED BY <2>1, <2>2, <2>3 DEF IInv
<1>4. CASE ProcessRings(p, q)
  <2>1. TypeOK'
    BY <1>1, <1>2, <1>4, ProcessKeepsShape DEF IInv, TypeOK
  <2>2. BuffersApart'
    BY <1>1, <1>4, ExchangeKeepsApart
  <2>3. \A id : Kept(id) => Kept(id)'
    BY <1>1, <1>4, ProcessLosesNone
  <2>4. NothingLost'
    BY <1>1, <2>3 DEF IInv, NothingLost, Kept
  <2> QED BY <2>1, <2>2, <2>4 DEF IInv
<1> QED BY <1>3, <1>4 DEF Turn

LEMMA StutterKeeps ==
    ASSUME IInv, UNCHANGED <<mem, rx, tx, arrived, asked, sent>>,
           at' \in (Rings \X Rings) \cup {InPoll}
    PROVE  IInv'
<1>1. TypeOK'
  BY DEF IInv, TypeOK
<1>2. BuffersApart'
  BY SameSlotsSameHeld DEF IInv
<1>3. NothingLost'
  BY DEF IInv, NothingLost, Sent, ToRead, ToSend
<1> QED BY <1>1, <1>2, <1>3 DEF IInv

LEMMA NextKeeps ==
    ASSUME IInv, [Next]_vars
    PROVE  IInv'
<1>1. CASE Poll
  <2>1. <<1, 1>> \in Rings \X Rings
    BY NetmapAssumption DEF Rings
  <2> QED BY <1>1, <2>1, StutterKeeps DEF Poll
<1>2. CASE UNCHANGED vars
  BY <1>2, StutterKeeps DEF vars, IInv, TypeOK
<1> QED BY <1>1, <1>2, TurnKeeps, NicReceiveKeeps, NicTransmitKeeps DEF Next

LEMMA InitHolds ==
    ASSUME Init
    PROVE  IInv
<1> DEFINE M == 2 * NRings * NSlots
           First(r) == (r - 1) * NSlots
<1>1. /\ NRings \in Nat \ {0} /\ NSlots \in Nat \ {0, 1} /\ MaxFrames \in Nat
      /\ Rings = 1 .. NRings /\ Slots = 0 .. NSlots - 1 /\ 0 \in Slots
      /\ Bufs = 1 .. M /\ M \in Nat
  BY NetmapAssumption DEF Rings, Slots, Bufs
<1>2. ASSUME NEW r \in 1 .. 2 * NRings
      PROVE  First(r) \in Nat /\ First(r) + NSlots <= M
  <2>1. First(r) + NSlots = r * NSlots /\ First(r) \in Nat
    BY <1>1
  <2>2. r * NSlots <= M
    BY <1>1
  <2> QED BY <2>1, <2>2
<1>3. \A r, s \in 1 .. 2 * NRings : r < s => First(r) + NSlots <= First(s)
  BY <1>1
<1> HIDE DEF First, M
<1>4. ASSUME NEW r \in 1 .. 2 * NRings, NEW i \in Slots
      PROVE  First(r) + i + 1 \in Bufs
  BY <1>1, <1>2
<1>5. ASSUME NEW r \in 1 .. 2 * NRings, NEW s \in 1 .. 2 * NRings,
             NEW i \in Slots, NEW j \in Slots, First(r) + i + 1 = First(s) + j + 1
      PROVE  r = s /\ i = j
  <2>1. First(r) \in Nat /\ First(s) \in Nat /\ i \in 0 .. NSlots - 1 /\ j \in 0 .. NSlots - 1
    BY <1>1, <1>2
  <2>2. r \in Nat /\ s \in Nat
    BY <1>1
  <2>3. (r < s => First(r) + NSlots <= First(s)) /\ (s < r => First(s) + NSlots <= First(r))
    BY <1>3
  <2>4. ~(r < s) /\ ~(s < r)
    BY <1>1, <1>5, <2>1, <2>3
  <2>5. r = s
    BY <2>2, <2>4
  <2> QED BY <1>5, <2>1, <2>5
<1>6. \A r \in Rings : /\ r \in 1 .. 2 * NRings /\ NRings + r \in 1 .. 2 * NRings
                       /\ rx[r] = [slot |-> [i \in Slots |-> First(r) + i + 1], cur |-> 0, tail |-> 0]
                       /\ tx[r] = [slot |-> [i \in Slots |-> First(NRings + r) + i + 1],
                                   cur |-> 0, done |-> 0]
  BY <1>1 DEF Init, First
<1>7. TypeOK
  <2>1. Blank \in Frame
    BY <1>1 DEF Blank, Frame, Kinds, RemoteStates, AdminDown, Down, Init_, Up, NoDiscr
  <2>2. mem \in [Bufs -> Frame]
    BY <2>1 DEF Init
  <2>3. \A r \in 1 .. 2 * NRings : [i \in Slots |-> First(r) + i + 1] \in [Slots -> Bufs]
    BY <1>4
  <2>4. /\ \A r \in Rings : /\ rx[r] \in [slot : [Slots -> Bufs], cur : Slots, tail : Slots]
                            /\ tx[r] \in [slot : [Slots -> Bufs], cur : Slots, done : Slots]
    <3> SUFFICES ASSUME NEW r \in Rings
                 PROVE  /\ rx[r] \in [slot : [Slots -> Bufs], cur : Slots, tail : Slots]
                        /\ tx[r] \in [slot : [Slots -> Bufs], cur : Slots, done : Slots]
      OBVIOUS
    <3> DEFINE f == [i \in Slots |-> First(r) + i + 1]
               g == [i \in Slots |-> First(NRings + r) + i + 1]
    <3>1. f \in [Slots -> Bufs] /\ g \in [Slots -> Bufs]
      BY <1>6, <2>3
    <3>2. /\ rx[r] = [slot |-> f, cur |-> 0, tail |-> 0]
          /\ tx[r] = [slot |-> g, cur |-> 0, done |-> 0]
      BY <1>6
    <3> HIDE DEF f, g
    <3> QED BY <1>1, <3>1, <3>2
  <2>5. /\ rx \in [Rings -> [slot : [Slots -> Bufs], cur : Slots, tail : Slots]]
        /\ tx \in [Rings -> [slot : [Slots -> Bufs], cur : Slots, done : Slots]]
    BY <2>4 DEF Init
  <2>6. /\ at \in (Rings \X Rings) \cup {InPoll} /\ arrived \in 0 .. MaxFrames
        /\ asked \subseteq 1 .. arrived /\ sent \in [0 .. MaxFrames -> Nat]
    BY <1>1 DEF Init
  <2> QED BY <2>2, <2>5, <2>6 DEF TypeOK
<1>8. BuffersApart
  <2>1. SUFFICES ASSUME NEW x \in Places, NEW y \in Places, Held[x] = Held[y]
                 PROVE  x = y
    BY HeldIs DEF BuffersApart, IsInjective
  <2>2. PICK r \in Rings, i \in Slots : x = <<"rx", r, i>> \/ x = <<"tx", r, i>>
    BY DEF Places
  <2>3. PICK s \in Rings, j \in Slots : y = <<"rx", s, j>> \/ y = <<"tx", s, j>>
    BY DEF Places
  <2>4. ASSUME NEW r1 \in Rings, NEW i1 \in Slots
        PROVE  /\ Held[<<"rx", r1, i1>>] = First(r1) + i1 + 1
               /\ Held[<<"tx", r1, i1>>] = First(NRings + r1) + i1 + 1
    <3> DEFINE f == [k \in Slots |-> First(r1) + k + 1]
               g == [k \in Slots |-> First(NRings + r1) + k + 1]
    <3>1. /\ rx[r1] = [slot |-> f, cur |-> 0, tail |-> 0]
          /\ tx[r1] = [slot |-> g, cur |-> 0, done |-> 0]
      BY <1>6
    <3>2. f[i1] = First(r1) + i1 + 1 /\ g[i1] = First(NRings + r1) + i1 + 1
      OBVIOUS
    <3> HIDE DEF f, g
    <3>3. rx[r1].slot[i1] = f[i1] /\ tx[r1].slot[i1] = g[i1]
      BY <3>1
    <3> QED BY <3>2, <3>3, HeldIs
  <2>5. /\ r \in 1 .. 2 * NRings /\ NRings + r \in 1 .. 2 * NRings
        /\ s \in 1 .. 2 * NRings /\ NRings + s \in 1 .. 2 * NRings
        /\ r # NRings + s /\ s # NRings + r /\ (NRings + r = NRings + s => r = s)
    BY <1>1, <1>6
  <2>6. CASE x = <<"rx", r, i>> /\ y = <<"rx", s, j>>
    <3>1. First(r) + i + 1 = First(s) + j + 1
      <4>1. Held[x] = First(r) + i + 1
        BY <2>4, <2>6
      <4>2. Held[y] = First(s) + j + 1
        BY <2>4, <2>6
      <4> QED BY <2>1, <4>1, <4>2
    <3>2. r = s /\ i = j
      BY <1>5, <2>5, <3>1
    <3> QED BY <2>5, <2>6, <3>2
  <2>7. CASE x = <<"tx", r, i>> /\ y = <<"tx", s, j>>
    <3>1. First(NRings + r) + i + 1 = First(NRings + s) + j + 1
      <4>1. Held[x] = First(NRings + r) + i + 1
        BY <2>4, <2>7
      <4>2. Held[y] = First(NRings + s) + j + 1
        BY <2>4, <2>7
      <4> QED BY <2>1, <4>1, <4>2
    <3>2. NRings + r = NRings + s /\ i = j
      BY <1>5, <2>5, <3>1
    <3> QED BY <2>5, <2>7, <3>2
  <2>8. CASE x = <<"rx", r, i>> /\ y = <<"tx", s, j>>
    <3>1. First(r) + i + 1 = First(NRings + s) + j + 1
      <4>1. Held[x] = First(r) + i + 1
        BY <2>4, <2>8
      <4>2. Held[y] = First(NRings + s) + j + 1
        BY <2>4, <2>8
      <4> QED BY <2>1, <4>1, <4>2
    <3>2. r = NRings + s /\ i = j
      BY <1>5, <2>5, <3>1
    <3> QED BY <2>5, <2>8, <3>2
  <2>9. CASE x = <<"tx", r, i>> /\ y = <<"rx", s, j>>
    <3>1. First(NRings + r) + i + 1 = First(s) + j + 1
      <4>1. Held[x] = First(NRings + r) + i + 1
        BY <2>4, <2>9
      <4>2. Held[y] = First(s) + j + 1
        BY <2>4, <2>9
      <4> QED BY <2>1, <4>1, <4>2
    <3>2. NRings + r = s /\ i = j
      BY <1>5, <2>5, <3>1
    <3> QED BY <2>5, <2>9, <3>2
  <2> QED BY <2>2, <2>3, <2>6, <2>7, <2>8, <2>9
<1>9. NothingLost
  BY DEF Init, NothingLost
<1> QED BY <1>7, <1>8, <1>9 DEF IInv

-----------------------------------------------------------------------------
(* Theorems *)

(* What every turn of the loop over the rings keeps true of rings and       *)
(* buffers (bfdd_netmap_func.c:8-66, 111-119).                              *)
THEOREM InductiveInvariant == Spec => []IInv
<1>1. Init => IInv
  BY InitHolds
<1>2. IInv /\ [Next]_vars => IInv'
  BY NextKeeps
<1> QED BY <1>1, <1>2, PTL DEF Spec

(* The loop's ring numbers, the cursors and the frames stay in range, with  *)
(* any number of rings and slots (bfdd_netmap_func.c:8-66).                 *)
THEOREM TypeCorrect == Spec => []TypeOK
<1>1. IInv => TypeOK
  BY DEF IInv
<1> QED BY <1>1, InductiveInvariant, PTL

(* However the rings are paired and wherever their cursors are, exchanging  *)
(* buffers never puts one into two slots (bfdd_netmap_func.c:111-119).      *)
THEOREM BuffersStayApart == Spec => []BuffersApart
<1>1. IInv => BuffersApart
  BY DEF IInv
<1> QED BY <1>1, InductiveInvariant, PTL

(* Every BFD frame is waiting to be read, or its answer is waiting to be    *)
(* sent, or was sent: no ring overruns another, and the exchange leaves     *)
(* what the card still owns alone (bfdd_netmap_func.c:13-20, 35-66).        *)
THEOREM NoFrameIsLost == Spec => []NothingLost
<1>1. IInv => NothingLost
  BY DEF IInv
<1> QED BY <1>1, InductiveInvariant, PTL

\* What a neighbour is after an exchange in which the daemon knew it already,
\* and in which it did not.
LEMMA ExchangedIs ==
    ASSUME NEW m
    PROVE  /\ Exchanged([state |-> Down, my |-> m, your |-> NoDiscr])
                = [state |-> Up, my |-> m, your |-> MyDscr]
           /\ Exchanged([state |-> Down, my |-> m, your |-> MyDscr])
                = [state |-> Init_, my |-> m, your |-> MyDscr]
           /\ \A s \in {Init_, Up} : Exchanged([state |-> s, my |-> m, your |-> MyDscr])
                = [state |-> Up, my |-> m, your |-> MyDscr]
<1>1. ASSUME NEW s \in {Down, Init_, Up}, NEW y \in {NoDiscr, MyDscr}
      PROVE  LET a == Answer([id |-> 0, kind |-> "bfd", state |-> s, my |-> m, your |-> y])
             IN  /\ a.my = MyDscr
                 /\ a.state = IF s = Down THEN IF y = NoDiscr THEN Init_ ELSE Down ELSE Up
  BY DEF Answer, AnsweredState, AdminDown, Down, Init_, Up
<1> QED BY <1>1 DEF Exchanged, MyDscr, NoDiscr, Down, Init_, Up

(* Whatever BFD frame the buffers hold, its sender is Up after two answers  *)
(* made without a memory, and the third keeps it there: a neighbour that    *)
(* begins, and one that fell back to Down and still names the daemon's      *)
(* discriminator (bfdd_netmap.c:94-114).                                    *)
THEOREM AnswersCompleteHandShake == Spec => []HandShakeCompletes
<1>1. ASSUME NEW m, NEW s \in {Down, Init_, Up}, NEW y \in {NoDiscr, MyDscr}, y = NoDiscr => s = Down
      PROVE  LET twice == Exchanged(Exchanged([state |-> s, my |-> m, your |-> y]))
             IN  twice.state = Up /\ Exchanged(twice).state = Up
  <2> DEFINE known == [state |-> Up, my |-> m, your |-> MyDscr]
             twice == Exchanged(Exchanged([state |-> s, my |-> m, your |-> y]))
  <2>1. known.state = Up /\ Exchanged(known) = known
    BY ExchangedIs
  <2>2. twice = known
    <3>1. CASE y = NoDiscr
      BY <1>1, <2>1, <3>1, ExchangedIs
    <3>2. CASE y = MyDscr /\ s = Down
      BY <3>2, ExchangedIs
    <3>3. CASE y = MyDscr /\ s # Down
      BY <2>1, <3>3, ExchangedIs
    <3> QED BY <3>1, <3>2, <3>3
  <2> HIDE DEF known, twice
  <2>3. twice.state = Up /\ Exchanged(twice).state = Up
    BY <2>1, <2>2
  <2> QED BY <2>3 DEF twice
<1>2. HandShakeCompletes
  BY <1>1 DEF HandShakeCompletes
<1> QED BY <1>2, PTL
=============================================================================
