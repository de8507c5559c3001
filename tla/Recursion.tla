----------------------------- MODULE Recursion -----------------------------
(***************************************************************************)
(* Induction over the natural numbers and functions defined by recursion   *)
(* over them.  The operators are constants of the module: an instance of   *)
(* it states the facts for the operators of a model, so that the provers   *)
(* are given them as they are.                                             *)
(***************************************************************************)
EXTENDS WellFoundedInduction, TLAPS

CONSTANTS
    Base,       \* the value for 0
    Step(_, _), \* the value for n, from the one before and n
    P(_)        \* what is to be proved of every number

(* Any set of numbers has a least one.                                      *)
LEMMA Least ==
    ASSUME NEW S \in SUBSET Nat, S # {}
    PROVE  \E x \in S : \A y \in S : x <= y
<1>1. PICK x \in S : \A y \in S : ~(<<y, x>> \in OpToRel(<, Nat))
  BY NatLessThanWellFounded, WFMin
<1>2. \A y \in S : ~(y < x)
  BY <1>1 DEF OpToRel
<1> QED BY <1>2

(* What holds of 0, and of the next number where it holds of one, holds of  *)
(* every number: of the nodes of any height, in smmr_tree.c.                *)
LEMMA Induction ==
    ASSUME P(0), \A n \in Nat : P(n) => P(n + 1)
    PROVE  \A n \in Nat : P(n)
<1> DEFINE S == {n \in Nat : ~P(n)}
<1>1. SUFFICES ASSUME S # {} PROVE FALSE
  OBVIOUS
<1>2. \E x \in S : \A y \in S : x <= y
  <2>1. S \in SUBSET Nat
    OBVIOUS
  <2> HIDE DEF S
  <2> QED BY Least, <1>1, <2>1
<1>3. PICK x \in S : \A y \in S : x <= y
  BY <1>2
<1>4. x \in Nat /\ ~P(x)
  OBVIOUS
<1>5. x - 1 \in Nat /\ (x - 1) + 1 = x
  BY <1>4
<1>6. CASE P(x - 1)
  BY <1>4, <1>5, <1>6
<1>7. CASE ~P(x - 1)
  <2>1. x - 1 \in S
    BY <1>5, <1>7
  <2> QED BY <2>1, <1>3, <1>4
<1> QED BY <1>6, <1>7

\* f is the recursive function up to n.
UpTo(f, n) ==
    f = [i \in 0 .. n |-> IF i = 0 THEN Base ELSE Step(f[i - 1], i)]

\* Such functions agree as far as both are defined.
LEMMA Same ==
    ASSUME NEW m \in Nat, NEW n \in Nat, NEW f, NEW g, UpTo(f, m), UpTo(g, n)
    PROVE  \A i \in Nat : i <= m /\ i <= n => f[i] = g[i]
<1> DEFINE S == {i \in Nat : i <= m /\ i <= n /\ f[i] # g[i]}
<1>1. SUFFICES ASSUME S # {} PROVE FALSE
  OBVIOUS
<1>2. \E x \in S : \A y \in S : x <= y
  <2>1. S \in SUBSET Nat
    OBVIOUS
  <2> HIDE DEF S
  <2> QED BY Least, <1>1, <2>1
<1>3. PICK x \in S : \A y \in S : x <= y
  BY <1>2
<1>4. x \in Nat /\ x <= m /\ x <= n /\ f[x] # g[x]
  OBVIOUS
<1>5. /\ f[x] = IF x = 0 THEN Base ELSE Step(f[x - 1], x)
      /\ g[x] = IF x = 0 THEN Base ELSE Step(g[x - 1], x)
  <2>1. x \in 0 .. m /\ x \in 0 .. n
    BY <1>4
  <2> QED BY <2>1 DEF UpTo
<1>6. x # 0
  BY <1>4, <1>5
<1>7. x - 1 \in Nat /\ x - 1 \notin S
  BY <1>3, <1>4, <1>6
<1>8. f[x - 1] = g[x - 1]
  BY <1>4, <1>7
<1> QED BY <1>4, <1>5, <1>8

\* One more value.
LEMMA Extends ==
    ASSUME NEW n \in Nat, NEW f, UpTo(f, n)
    PROVE  \E g : UpTo(g, n + 1)
<1> DEFINE g == [i \in 0 .. n + 1 |-> IF i <= n THEN f[i] ELSE Step(f[n], i)]
<1>1. ASSUME NEW i \in 0 .. n + 1
      PROVE  g[i] = IF i = 0 THEN Base ELSE Step(g[i - 1], i)
  <2>1. CASE i <= n
    <3>1. i \in 0 .. n
      BY <2>1
    <3>2. f[i] = IF i = 0 THEN Base ELSE Step(f[i - 1], i)
      BY <3>1 DEF UpTo
    <3>3. i # 0 => g[i - 1] = f[i - 1]
      BY <2>1
    <3> QED BY <2>1, <3>2, <3>3
  <2>2. CASE ~(i <= n)
    <3>1. i = n + 1 /\ i # 0 /\ i - 1 = n
      BY <2>2
    <3>2. g[i - 1] = f[n]
      BY <3>1
    <3>3. g[i] = Step(f[n], i)
      BY <2>2
    <3> QED BY <3>1, <3>2, <3>3
  <2> QED BY <2>1, <2>2
<1>2. g = [i \in 0 .. n + 1 |-> IF i = 0 THEN Base ELSE Step(g[i - 1], i)]
  BY <1>1
<1> QED BY <1>2 DEF UpTo

\* The function exists up to any number.
LEMMA ExistsUpTo == \A n \in Nat : \E f : UpTo(f, n)
<1> DEFINE S == {n \in Nat : ~\E f : UpTo(f, n)}
<1>1. SUFFICES ASSUME S # {} PROVE FALSE
  OBVIOUS
<1>2. \E x \in S : \A y \in S : x <= y
  <2>1. S \in SUBSET Nat
    OBVIOUS
  <2> HIDE DEF S
  <2> QED BY Least, <1>1, <2>1
<1>3. PICK x \in S : \A y \in S : x <= y
  BY <1>2
<1>4. x \in Nat /\ ~\E f : UpTo(f, x)
  OBVIOUS
<1>5. x # 0
  <2>1. UpTo([i \in 0 .. 0 |-> Base], 0)
    BY DEF UpTo
  <2> QED BY <1>4, <2>1
<1>6. x - 1 \in Nat /\ (x - 1) + 1 = x /\ x - 1 \notin S
  BY <1>3, <1>4, <1>5
<1>7. \E f : UpTo(f, x - 1)
  BY <1>6
<1> QED BY <1>4, <1>6, <1>7, Extends

(* The recursive function exists, so that a definition f[n \in Nat] == ...   *)
(* is what its equation says.                                               *)
LEMMA Defined ==
    \E f : f = [n \in Nat |-> IF n = 0 THEN Base ELSE Step(f[n - 1], n)]
<1> DEFINE part == [n \in Nat |-> CHOOSE f : UpTo(f, n)]
           whole == [n \in Nat |-> part[n][n]]
<1>1. \A n \in Nat : UpTo(part[n], n)
  BY ExistsUpTo
<1>2. ASSUME NEW n \in Nat
      PROVE  whole[n] = IF n = 0 THEN Base ELSE Step(whole[n - 1], n)
  <2>1. UpTo(part[n], n)
    BY <1>1
  <2>2. part[n][n] = IF n = 0 THEN Base ELSE Step(part[n][n - 1], n)
    <3>1. n \in 0 .. n
      OBVIOUS
    <3> HIDE DEF part
    <3> QED BY <2>1, <3>1 DEF UpTo
  <2>3. ASSUME n # 0 PROVE part[n][n - 1] = part[n - 1][n - 1]
    <3>1. n - 1 \in Nat
      BY <2>3
    <3>2. UpTo(part[n - 1], n - 1)
      BY <3>1, <1>1
    <3> HIDE DEF part
    <3> QED BY <2>1, <3>1, <3>2, Same
  <2> QED BY <2>2, <2>3
<1>3. whole = [n \in Nat |-> IF n = 0 THEN Base ELSE Step(whole[n - 1], n)]
  <2> HIDE DEF part
  <2>1. whole = [n \in Nat |-> whole[n]]
    OBVIOUS
  <2> HIDE DEF whole
  <2> QED BY <1>2, <2>1
<1> QED BY <1>3
=============================================================================
