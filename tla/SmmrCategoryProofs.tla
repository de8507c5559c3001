------------------------- MODULE SmmrCategoryProofs -------------------------
(***************************************************************************)
(* Proofs about a category shared by any number of processes, whatever the *)
(* sizes of pages, headers and requests.                                   *)
(*                                                                         *)
(* The argument: whatever a process does to a page leaves its lists apart, *)
(* in whatever order the processes come, as long as no page is reset under *)
(* an item in use.  When everybody waited for the server, the root is made *)
(* before anybody can work in the category, by one process while nobody    *)
(* rebuilds; from then on its page is never found empty.  A rebuild finds  *)
(* what there is because the items of a page fill it up to its bucket.     *)
(***************************************************************************)
EXTENDS SmmrCategory, SequenceTheorems, TLAPS

-----------------------------------------------------------------------------
(* Lists *)

LEMMA AppendIs ==
    ASSUME NEW S, NEW s \in Seq(S), NEW x \in S
    PROVE  /\ Append(s, x) \in Seq(S)
           /\ DOMAIN Append(s, x) = 1 .. Len(s) + 1
           /\ Len(Append(s, x)) = Len(s) + 1
           /\ \A j \in DOMAIN s : Append(s, x)[j] = s[j]
           /\ Append(s, x)[Len(s) + 1] = x
  BY AppendProperties, LenProperties

LEMMA WithoutIs ==
    ASSUME NEW S, NEW s \in Seq(S), NEW i \in DOMAIN s
    PROVE  /\ Without(s, i) \in Seq(S)
           /\ DOMAIN Without(s, i) = 1 .. Len(s) - 1
           /\ Len(Without(s, i)) = Len(s) - 1
           /\ \A j \in 1 .. Len(s) - 1 : Without(s, i)[j] = s[IF j < i THEN j ELSE j + 1]
<1>1. Len(s) \in Nat /\ DOMAIN s = 1 .. Len(s) /\ i \in 1 .. Len(s)
  BY LenProperties
<1>2. \A j \in 1 .. Len(s) - 1 :
        /\ Without(s, i)[j] = s[IF j < i THEN j ELSE j + 1]
        /\ Without(s, i)[j] \in S
  <2> TAKE j \in 1 .. Len(s) - 1
  <2>1. Without(s, i)[j] = IF j < i THEN s[j] ELSE s[j + 1]
    BY DEF Without
  <2>2. j \in 1 .. Len(s) /\ j + 1 \in 1 .. Len(s)
    BY <1>1
  <2> QED BY <2>1, <2>2, ElementOfSeq
<1>3. Without(s, i) = [j \in 1 .. Len(s) - 1 |-> Without(s, i)[j]]
  BY DEF Without
<1>4. Len(s) - 1 \in Nat
  BY <1>1
<1>5. Without(s, i) \in [1 .. Len(s) - 1 -> S]
  BY <1>2, <1>3
<1>6. Without(s, i) \in Seq(S)
  BY <1>4, <1>5
<1>7. DOMAIN Without(s, i) = 1 .. Len(s) - 1
  BY <1>3
<1>8. Len(Without(s, i)) = Len(s) - 1
  BY <1>4, <1>6, <1>7, LenProperties
<1> QED BY <1>2, <1>6, <1>7, <1>8

\* Distinct places of a list without one item are distinct places of the list.
LEMMA WithoutPlaces ==
    ASSUME NEW S, NEW s \in Seq(S), NEW i \in DOMAIN s,
           NEW j \in DOMAIN Without(s, i), NEW k \in DOMAIN Without(s, i)
    PROVE  \E a, b \in DOMAIN s :
              /\ a # i /\ b # i /\ (j # k => a # b)
              /\ Without(s, i)[j] = s[a] /\ Without(s, i)[k] = s[b]
<1> DEFINE a == IF j < i THEN j ELSE j + 1
           b == IF k < i THEN k ELSE k + 1
<1>1. Len(s) \in Nat /\ DOMAIN s = 1 .. Len(s) /\ i \in 1 .. Len(s)
  BY LenProperties
<1>2. j \in 1 .. Len(s) - 1 /\ k \in 1 .. Len(s) - 1
  BY WithoutIs
<1>3. a \in DOMAIN s /\ b \in DOMAIN s /\ a # i /\ b # i /\ (j # k => a # b)
  BY <1>1, <1>2
<1>4. Without(s, i)[j] = s[a] /\ Without(s, i)[k] = s[b]
  BY <1>2, WithoutIs
<1> QED BY <1>3, <1>4

-----------------------------------------------------------------------------
(* Sums of sizes *)

\* The sum of the first n sizes of a list.
SumNothing == [s \in Seq(Item) |-> 0]
SumNext(below, n) ==
    [s \in Seq(Item) |-> IF n <= Len(s) THEN below[s] + s[n].len ELSE below[s]]
Sum[n \in Nat] == IF n = 0 THEN SumNothing ELSE SumNext(Sum[n - 1], n)

\* What Sizes adds up on its way along a list.
SumsUp(s, f) == f = [n \in 0 .. Len(s) |-> IF n = 0 THEN 0 ELSE f[n - 1] + s[n].len]

SumTypedAt(n) == \A s \in Seq(Item) : Sum[n][s] \in Nat
SumAloneAt(n) == \A s \in Seq(Item) : \A f : SumsUp(s, f) /\ n <= Len(s) => f[n] = Sum[n][s]
SumAppendAt(n) == \A s \in Seq(Item), x \in Item : n <= Len(s) => Sum[n][Append(s, x)] = Sum[n][s]
SumWithoutAt(n) == \A s \in Seq(Item) : \A i \in DOMAIN s :
    n <= Len(s) - 1 =>
        Sum[n][Without(s, i)] + (IF n < i THEN 0 ELSE s[i].len) = Sum[IF n < i THEN n ELSE n + 1][s]

SumTypedLevel == INSTANCE Recursion WITH Base <- SumNothing, Step <- SumNext, P <- SumTypedAt
SumAloneLevel == INSTANCE Recursion WITH Base <- SumNothing, Step <- SumNext, P <- SumAloneAt
SumAppendLevel == INSTANCE Recursion WITH Base <- SumNothing, Step <- SumNext, P <- SumAppendAt
SumWithoutLevel == INSTANCE Recursion WITH Base <- SumNothing, Step <- SumNext, P <- SumWithoutAt

\* The sum grows by the next size.
LEMMA SumIs ==
    /\ \A s \in Seq(Item) : Sum[0][s] = 0
    /\ \A n \in Nat, s \in Seq(Item) :
         Sum[n + 1][s] = IF n + 1 <= Len(s) THEN Sum[n][s] + s[n + 1].len ELSE Sum[n][s]
<1>1. Sum = [n \in Nat |-> IF n = 0 THEN SumNothing ELSE SumNext(Sum[n - 1], n)]
  BY SumTypedLevel!Defined DEF Sum
<1>2. Sum[0] = SumNothing
  BY <1>1
<1>3. ASSUME NEW n \in Nat, NEW s \in Seq(Item)
      PROVE  Sum[n + 1][s] = IF n + 1 <= Len(s) THEN Sum[n][s] + s[n + 1].len ELSE Sum[n][s]
  <2>1. n + 1 \in Nat /\ n + 1 # 0 /\ (n + 1) - 1 = n
    OBVIOUS
  <2>2. Sum[n + 1] = SumNext(Sum[n], n + 1)
    BY <1>1, <2>1
  <2> QED BY <2>2 DEF SumNext
<1> QED BY <1>2, <1>3 DEF SumNothing

\* Sizes of items are numbers.
LEMMA LenIs ==
    ASSUME NEW s \in Seq(Item), NEW i \in DOMAIN s
    PROVE  s[i] \in Item /\ s[i].len \in Nat
<1>1. s[i] \in Item
  BY ElementOfSeq, LenProperties
<1> QED BY <1>1 DEF Item

\* Sums are numbers.
LEMMA SumTyped == \A n \in Nat : SumTypedAt(n)
<1>1. SumTypedAt(0)
  BY SumIs DEF SumTypedAt
<1>2. ASSUME NEW n \in Nat, SumTypedAt(n) PROVE SumTypedAt(n + 1)
  <2> SUFFICES ASSUME NEW s \in Seq(Item) PROVE Sum[n + 1][s] \in Nat
    BY DEF SumTypedAt
  <2>1. Sum[n][s] \in Nat
    BY <1>2 DEF SumTypedAt
  <2>2. n + 1 <= Len(s) => s[n + 1].len \in Nat
    <3>1. n + 1 <= Len(s) => n + 1 \in DOMAIN s
      BY LenProperties
    <3> QED BY <3>1, LenIs
  <2>3. Sum[n + 1][s] = IF n + 1 <= Len(s) THEN Sum[n][s] + s[n + 1].len ELSE Sum[n][s]
    BY SumIs
  <2> QED BY <2>1, <2>2, <2>3
<1> QED BY <1>1, <1>2, SumTypedLevel!Induction

\* There is but one way to sum up.
LEMMA SumAlone == \A n \in Nat : SumAloneAt(n)
<1>1. SumAloneAt(0)
  <2> SUFFICES ASSUME NEW s \in Seq(Item), NEW f, SumsUp(s, f) PROVE f[0] = Sum[0][s]
    BY DEF SumAloneAt
  <2>1. 0 \in 0 .. Len(s)
    BY LenProperties
  <2> QED BY <2>1, SumIs DEF SumsUp
<1>2. ASSUME NEW n \in Nat, SumAloneAt(n) PROVE SumAloneAt(n + 1)
  <2> SUFFICES ASSUME NEW s \in Seq(Item), NEW f, SumsUp(s, f), n + 1 <= Len(s)
               PROVE  f[n + 1] = Sum[n + 1][s]
    BY DEF SumAloneAt
  <2>1. n <= Len(s) /\ n + 1 \in 0 .. Len(s) /\ n + 1 # 0 /\ (n + 1) - 1 = n
    BY LenProperties
  <2>2. f[n + 1] = f[n] + s[n + 1].len
    BY <2>1 DEF SumsUp
  <2>3. f[n] = Sum[n][s]
    BY <1>2, <2>1 DEF SumAloneAt
  <2> QED BY <2>2, <2>3, SumIs
<1> QED BY <1>1, <1>2, SumAloneLevel!Induction

\* Sizes is the sum of all sizes.
LEMMA SizesIs ==
    ASSUME NEW s \in Seq(Item)
    PROVE  Sizes(s) = Sum[Len(s)][s] /\ Sizes(s) \in Nat
<1>1. \E f : SumsUp(s, f)
  <2> DEFINE f == [n \in 0 .. Len(s) |-> Sum[n][s]]
  <2>1. ASSUME NEW n \in 0 .. Len(s)
        PROVE  f[n] = IF n = 0 THEN 0 ELSE f[n - 1] + s[n].len
    <3>1. CASE n = 0
      BY <3>1, SumIs
    <3>2. CASE n # 0
      <4>1. Len(s) \in Nat
        BY LenProperties
      <4>2. n - 1 \in Nat /\ (n - 1) + 1 = n /\ n - 1 \in 0 .. Len(s) /\ n <= Len(s)
        BY <3>2, <4>1
      <4>3. Sum[(n - 1) + 1][s] = Sum[n - 1][s] + s[(n - 1) + 1].len
        BY <4>2, SumIs
      <4> QED BY <3>2, <4>2, <4>3
    <3> QED BY <3>1, <3>2
  <2>2. f = [n \in 0 .. Len(s) |-> f[n]]
    OBVIOUS
  <2> HIDE DEF f
  <2>3. SumsUp(s, f)
    BY <2>1, <2>2 DEF SumsUp
  <2> QED BY <2>3
<1> DEFINE f == CHOOSE g : SumsUp(s, g)
<1>2. SumsUp(s, f)
  BY <1>1
<1>3. Sizes(s) = f[Len(s)]
  BY DEF Sizes, SumsUp
<1> HIDE DEF f
<1>4. Len(s) \in Nat
  BY LenProperties
<1>5. Sizes(s) = Sum[Len(s)][s]
  BY <1>2, <1>3, <1>4, SumAlone DEF SumAloneAt
<1> QED BY <1>4, <1>5, SumTyped DEF SumTypedAt

\* An item at the end changes no sum before it.
LEMMA SumAppend == \A n \in Nat : SumAppendAt(n)
<1>1. SumAppendAt(0)
  <2> SUFFICES ASSUME NEW s \in Seq(Item), NEW x \in Item PROVE Sum[0][Append(s, x)] = Sum[0][s]
    BY DEF SumAppendAt
  <2> QED BY SumIs, AppendIs
<1>2. ASSUME NEW n \in Nat, SumAppendAt(n) PROVE SumAppendAt(n + 1)
  <2> SUFFICES ASSUME NEW s \in Seq(Item), NEW x \in Item, n + 1 <= Len(s)
               PROVE  Sum[n + 1][Append(s, x)] = Sum[n + 1][s]
    BY DEF SumAppendAt
  <2>1. Append(s, x) \in Seq(Item) /\ Len(Append(s, x)) = Len(s) + 1
        /\ \A j \in DOMAIN s : Append(s, x)[j] = s[j]
    BY AppendIs
  <2>2. Len(s) \in Nat /\ n <= Len(s) /\ n + 1 <= Len(s) + 1 /\ n + 1 \in DOMAIN s
    BY LenProperties
  <2>3. Sum[n][Append(s, x)] = Sum[n][s]
    BY <1>2, <2>2 DEF SumAppendAt
  <2>4. Sum[n + 1][Append(s, x)] = Sum[n][Append(s, x)] + Append(s, x)[n + 1].len
    BY <2>1, <2>2, SumIs
  <2>5. Sum[n + 1][s] = Sum[n][s] + s[n + 1].len
    BY SumIs
  <2> QED BY <2>1, <2>2, <2>3, <2>4, <2>5
<1> QED BY <1>1, <1>2, SumAppendLevel!Induction

\* One more item adds its size.
LEMMA SizesAppend ==
    ASSUME NEW s \in Seq(Item), NEW x \in Item
    PROVE  Sizes(Append(s, x)) = Sizes(s) + x.len
<1>1. /\ Append(s, x) \in Seq(Item) /\ Len(Append(s, x)) = Len(s) + 1
      /\ Append(s, x)[Len(s) + 1] = x
  BY AppendIs
<1>2. Len(s) \in Nat /\ Len(s) <= Len(s) /\ Len(s) + 1 <= Len(s) + 1
  BY LenProperties
<1>3. Sum[Len(s)][Append(s, x)] = Sum[Len(s)][s]
  BY <1>2, SumAppend DEF SumAppendAt
<1>4. Sum[Len(s) + 1][Append(s, x)] = Sum[Len(s)][Append(s, x)] + x.len
  BY <1>1, <1>2, SumIs
<1> QED BY <1>1, <1>3, <1>4, SizesIs

\* Behind the place of a missing item, sums lack its size.
LEMMA SumWithout == \A n \in Nat : SumWithoutAt(n)
<1>1. SumWithoutAt(0)
  <2> SUFFICES ASSUME NEW s \in Seq(Item), NEW i \in DOMAIN s, 0 <= Len(s) - 1
               PROVE  Sum[0][Without(s, i)] + (IF 0 < i THEN 0 ELSE s[i].len)
                        = Sum[IF 0 < i THEN 0 ELSE 0 + 1][s]
    BY DEF SumWithoutAt
  <2>1. 0 < i
    BY LenProperties
  <2>2. Sum[0][Without(s, i)] = 0 /\ Sum[0][s] = 0
    BY SumIs, WithoutIs
  <2> QED BY <2>1, <2>2
<1>2. ASSUME NEW n \in Nat, SumWithoutAt(n) PROVE SumWithoutAt(n + 1)
  <2> SUFFICES ASSUME NEW s \in Seq(Item), NEW i \in DOMAIN s, n + 1 <= Len(s) - 1
               PROVE  Sum[n + 1][Without(s, i)] + (IF n + 1 < i THEN 0 ELSE s[i].len)
                        = Sum[IF n + 1 < i THEN n + 1 ELSE (n + 1) + 1][s]
    BY DEF SumWithoutAt
  <2> DEFINE w == Without(s, i)
  <2>1. Len(s) \in Nat /\ DOMAIN s = 1 .. Len(s) /\ i \in 1 .. Len(s)
    BY LenProperties
  <2>2. /\ w \in Seq(Item) /\ Len(w) = Len(s) - 1
        /\ \A j \in 1 .. Len(s) - 1 : w[j] = s[IF j < i THEN j ELSE j + 1]
    BY WithoutIs
  <2> HIDE DEF w
  <2>3. n <= Len(s) - 1 /\ n + 1 \in 1 .. Len(s) - 1
        /\ n + 1 <= Len(s) /\ (n + 1) + 1 <= Len(s) /\ n + 1 \in Nat
    BY <2>1
  <2>4. Sum[n][w] + (IF n < i THEN 0 ELSE s[i].len) = Sum[IF n < i THEN n ELSE n + 1][s]
    BY <1>2, <2>3 DEF SumWithoutAt, w
  <2>5. Sum[n + 1][w] = Sum[n][w] + w[n + 1].len
    BY <2>2, <2>3, SumIs
  <2>6. Sum[n + 1][s] = Sum[n][s] + s[n + 1].len
    BY <2>3, SumIs
  <2>7. Sum[(n + 1) + 1][s] = Sum[n + 1][s] + s[(n + 1) + 1].len
    BY <2>3, SumIs
  <2>8. /\ Sum[n][w] \in Nat /\ Sum[n + 1][w] \in Nat /\ Sum[n][s] \in Nat
        /\ Sum[n + 1][s] \in Nat /\ Sum[(n + 1) + 1][s] \in Nat
    BY <2>2, <2>3, SumTyped DEF SumTypedAt
  <2>9. /\ s[i].len \in Nat /\ s[n + 1].len \in Nat /\ s[(n + 1) + 1].len \in Nat
    BY <2>1, <2>3, LenIs
  <2>10. CASE n + 1 < i
    <3>1. w[n + 1] = s[n + 1] /\ n < i
      BY <2>1, <2>2, <2>3, <2>10
    <3>2. Sum[n][w] + 0 = Sum[n][s]
      BY <2>4, <3>1
    <3> QED BY <2>5, <2>6, <2>8, <2>9, <2>10, <3>1, <3>2 DEF w
  <2>11. CASE ~(n + 1 < i)
    <3>1. w[n + 1] = s[(n + 1) + 1]
      BY <2>1, <2>2, <2>3, <2>11
    <3>2. Sum[n][w] + s[i].len = Sum[n + 1][s]
      <4>1. ASSUME n < i PROVE Sum[n][w] + s[i].len = Sum[n + 1][s]
        <5>1. s[i] = s[n + 1]
          <6>1. n + 1 = i
            BY <2>1, <2>11, <4>1
          <6> QED BY <6>1
        <5>2. Sum[n][w] = Sum[n][s]
          BY <2>4, <2>8, <4>1
        <5> QED BY <2>6, <5>1, <5>2
      <4>2. ASSUME ~(n < i) PROVE Sum[n][w] + s[i].len = Sum[n + 1][s]
        BY <2>4, <4>2
      <4> QED BY <4>1, <4>2
    <3>3. Sum[n + 1][w] + s[i].len = Sum[(n + 1) + 1][s]
      <4>1. Sum[n + 1][w] = Sum[n][w] + s[(n + 1) + 1].len
        BY <2>5, <3>1
      <4>2. PICK a \in Nat, b \in Nat, c \in Nat, e \in Nat, l \in Nat, k \in Nat :
              /\ a = Sum[n][w] /\ b = Sum[n + 1][s] /\ c = Sum[n + 1][w]
              /\ e = Sum[(n + 1) + 1][s] /\ l = s[i].len /\ k = s[(n + 1) + 1].len
        BY <2>8, <2>9
      <4>3. a + l = b /\ c = a + k /\ e = b + k
        BY <2>7, <3>2, <4>1, <4>2
      <4>4. c + l = e
        BY <4>3
      <4> QED BY <4>2, <4>4
    <3> QED BY <2>11, <3>3 DEF w
  <2> QED BY <2>10, <2>11
<1> QED BY <1>1, <1>2, SumWithoutLevel!Induction

\* One item less takes its size away.
LEMMA SizesWithout ==
    ASSUME NEW s \in Seq(Item), NEW i \in DOMAIN s
    PROVE  Sizes(Without(s, i)) + s[i].len = Sizes(s)
<1> DEFINE l == Len(s) - 1
<1>1. Len(s) \in Nat /\ DOMAIN s = 1 .. Len(s) /\ i \in 1 .. Len(s)
  BY LenProperties
<1>2. l \in Nat /\ l <= Len(s) - 1 /\ l + 1 = Len(s)
  BY <1>1
<1>3. Without(s, i) \in Seq(Item) /\ Len(Without(s, i)) = l
  BY WithoutIs
<1> HIDE DEF l
<1>4. Sum[l][Without(s, i)] + (IF l < i THEN 0 ELSE s[i].len) = Sum[IF l < i THEN l ELSE l + 1][s]
  BY <1>2, SumWithout DEF SumWithoutAt
<1>5. Sizes(Without(s, i)) = Sum[l][Without(s, i)] /\ Sizes(s) = Sum[l + 1][s]
      /\ Sizes(Without(s, i)) \in Nat
  BY <1>2, <1>3, SizesIs
<1>6. CASE l < i
  <2>1. i = l + 1
    BY <1>1, <1>2, <1>6
  <2>2. Sum[l + 1][s] = Sum[l][s] + s[l + 1].len
    BY <1>2, SumIs
  <2>3. Sum[l][Without(s, i)] + 0 = Sum[l][s]
    BY <1>4, <1>6
  <2> QED BY <1>5, <2>1, <2>2, <2>3
<1>7. CASE ~(l < i)
  BY <1>4, <1>5, <1>7
<1> QED BY <1>6, <1>7

\* A list of nothing has no size.
LEMMA SizesNothing == Sizes(<<>>) = 0
<1>1. <<>> \in Seq(Item) /\ Len(<<>>) = 0
  BY EmptySeq
<1> QED BY <1>1, SizesIs, SumIs

\* An item that moves from one list to the other.
LEMMA SizesMoved ==
    ASSUME NEW s \in Seq(Item), NEW t \in Seq(Item), NEW i \in DOMAIN s
    PROVE  Sizes(Without(s, i)) + Sizes(Append(t, s[i])) = Sizes(s) + Sizes(t)
<1>1. s[i] \in Item /\ s[i].len \in Nat
  BY LenIs
<1>2. Without(s, i) \in Seq(Item)
  BY WithoutIs
<1>3. PICK a \in Nat, b \in Nat, c \in Nat, l \in Nat :
         a = Sizes(Without(s, i)) /\ b = Sizes(t) /\ c = Sizes(s) /\ l = s[i].len
  BY <1>1, <1>2, SizesIs
<1>4. a + l = c /\ Sizes(Append(t, s[i])) = b + l
  BY <1>1, <1>3, SizesAppend, SizesWithout
<1>5. a + (b + l) = c + b
  BY <1>4
<1> QED BY <1>3, <1>4, <1>5

\* The first place of a list that has one.
LEMMA Opened ==
    ASSUME NEW s \in Seq(Item)
    PROVE  /\ s # <<>> => 1 \in DOMAIN s
           /\ \A i \in DOMAIN s : s # <<>> /\ i \in Nat \ {0}
<1>1. Len(s) \in Nat /\ DOMAIN s = 1 .. Len(s)
  BY LenProperties
<1>2. Len(s) = 0 => s = <<>>
  BY EmptySeq
<1>3. \A i \in DOMAIN s : s # <<>>
  BY <1>1
<1> QED BY <1>1, <1>2, <1>3

-----------------------------------------------------------------------------
(* Moving an item from one list to the end of another *)

\* Two lists that share no byte, and nothing of them beyond n.
Pair(s, t, n) ==
    /\ ListApart(s) /\ ListApart(t) /\ ListsApart(s, t)
    /\ Before(s, n) /\ Before(t, n)

\* The same of three.
Three(s, t, u, n) == Pair(s, t, n) /\ Pair(s, u, n) /\ Pair(t, u, n)

LEMMA PairTurned ==
    ASSUME NEW s, NEW t, NEW n, Pair(s, t, n) PROVE Pair(t, s, n)
  BY DEF Pair, ListsApart, Apart

LEMMA ThreeTurned ==
    ASSUME NEW s, NEW t, NEW u, NEW n, Three(s, t, u, n)
    PROVE  Three(s, u, t, n) /\ Three(t, s, u, n) /\ Three(u, t, s, n)
  BY PairTurned DEF Three

LEMMA FewerPair ==
    ASSUME NEW s \in Seq(Item), NEW t, NEW n, NEW i \in DOMAIN s, Pair(s, t, n)
    PROVE  Pair(Without(s, i), t, n)
<1> DEFINE w == Without(s, i)
<1>1. \A j, k \in DOMAIN w : \E x, y \in DOMAIN s :
          /\ x # i /\ y # i /\ (j # k => x # y) /\ w[j] = s[x] /\ w[k] = s[y]
  BY WithoutPlaces
<1> HIDE DEF w
<1>2. ListApart(w)
  BY <1>1 DEF ListApart, Pair
<1>3. ListsApart(w, t)
  BY <1>1 DEF ListsApart, Pair
<1>4. Before(w, n)
  BY <1>1 DEF Before, Pair
<1> QED BY <1>2, <1>3, <1>4 DEF Pair, w

\* One more item, apart from those of both lists.
LEMMA MorePair ==
    ASSUME NEW s \in Seq(Item), NEW t, NEW n, NEW x \in Item, Pair(s, t, n),
           \A j \in DOMAIN s : Apart(x, s[j]), \A j \in DOMAIN t : Apart(x, t[j]),
           x.at + x.len <= n
    PROVE  Pair(Append(s, x), t, n)
<1> DEFINE a == Append(s, x)
<1>1. /\ Len(s) \in Nat /\ DOMAIN s = 1 .. Len(s) /\ DOMAIN a = 1 .. Len(s) + 1
      /\ a[Len(s) + 1] = x /\ \A j \in DOMAIN s : a[j] = s[j]
  BY AppendIs, LenProperties
<1>2. \A j \in DOMAIN a : j = Len(s) + 1 \/ j \in DOMAIN s
  BY <1>1
<1> HIDE DEF a
<1>3. ListApart(a)
  <2> SUFFICES ASSUME NEW j \in DOMAIN a, NEW k \in DOMAIN a, j # k PROVE Apart(a[j], a[k])
    BY DEF ListApart
  <2>1. CASE j \in DOMAIN s /\ k \in DOMAIN s
    BY <1>1, <2>1 DEF Pair, ListApart
  <2>2. CASE j = Len(s) + 1 /\ k \in DOMAIN s
    BY <1>1, <2>2
  <2>3. CASE k = Len(s) + 1 /\ j \in DOMAIN s
    BY <1>1, <2>3 DEF Apart
  <2> QED BY <1>2, <2>1, <2>2, <2>3
<1>4. ListsApart(a, t)
  BY <1>1, <1>2 DEF ListsApart, Pair
<1>5. Before(a, n)
  BY <1>1, <1>2 DEF Before, Pair
<1> QED BY <1>3, <1>4, <1>5 DEF Pair, a

LEMMA Between ==
    ASSUME NEW a \in Nat, NEW b \in Nat, NEW l \in Nat, NEW m \in Nat, NEW n \in Nat,
           a + l <= b, b + m <= n
    PROVE  a + l <= n
  OBVIOUS

LEMMA RoomierBefore ==
    ASSUME NEW s \in Seq(Item), NEW n \in Nat, NEW m \in Nat, Before(s, n), n <= m
    PROVE  Before(s, m)
<1> SUFFICES ASSUME NEW i \in DOMAIN s PROVE s[i].at + s[i].len <= m
  BY DEF Before
<1>1. s[i].at \in Nat /\ s[i].len \in Nat /\ s[i].at + s[i].len <= n
  BY LenIs DEF Before, Item
<1>2. n + 0 <= m /\ 0 \in Nat
  OBVIOUS
<1> QED BY <1>1, <1>2, Between

LEMMA RoomierPair ==
    ASSUME NEW s \in Seq(Item), NEW t \in Seq(Item), NEW n \in Nat, NEW m \in Nat,
           Pair(s, t, n), n <= m
    PROVE  Pair(s, t, m)
  BY RoomierBefore DEF Pair

LEMMA MovedThree ==
    ASSUME NEW s \in Seq(Item), NEW t \in Seq(Item), NEW u \in Seq(Item), NEW n,
           NEW i \in DOMAIN s, Three(s, t, u, n)
    PROVE  Three(Without(s, i), Append(t, s[i]), u, n)
<1> DEFINE w == Without(s, i)
           a == Append(t, s[i])
<1>1. s[i] \in Item
  BY LenIs
<1>2. Pair(w, t, n) /\ Pair(w, u, n)
  BY FewerPair DEF Three
<1>3. s[i].at + s[i].len <= n
  BY DEF Three, Pair, Before
<1>4. \A j \in DOMAIN t : Apart(s[i], t[j])
  BY DEF Three, Pair, ListsApart
<1>5. \A j \in DOMAIN u : Apart(s[i], u[j])
  BY DEF Three, Pair, ListsApart
<1>6. \A j \in DOMAIN w : Apart(s[i], w[j])
  <2> TAKE j \in DOMAIN w
  <2>1. PICK x \in DOMAIN s : x # i /\ w[j] = s[x]
    BY WithoutPlaces
  <2> QED BY <2>1 DEF Three, Pair, ListApart
<1> HIDE DEF w
<1>7. Pair(t, w, n) /\ Pair(t, u, n)
  BY <1>2, PairTurned DEF Three
<1>8. Pair(a, w, n) /\ Pair(a, u, n)
  BY <1>1, <1>3, <1>4, <1>5, <1>6, <1>7, MorePair
<1> HIDE DEF a
<1>9. Three(w, a, u, n)
  BY <1>2, <1>8, PairTurned DEF Three
<1> QED BY <1>9 DEF w, a

(* The lists of a page: they lie apart and before the bucket, and their     *)
(* items fill what lies before it.                                          *)
Lists(s, t, u, n) ==
    /\ s \in Seq(Item) /\ t \in Seq(Item) /\ u \in Seq(Item) /\ n \in Nat
    /\ Three(s, t, u, n)
    /\ Sizes(s) + Sizes(t) + Sizes(u) = n

LEMMA ListsTurned ==
    ASSUME NEW s, NEW t, NEW u, NEW n, Lists(s, t, u, n)
    PROVE  Lists(s, u, t, n) /\ Lists(t, s, u, n) /\ Lists(u, t, s, n)
<1>1. Sizes(s) \in Nat /\ Sizes(t) \in Nat /\ Sizes(u) \in Nat
  BY SizesIs DEF Lists
<1>2. PICK a \in Nat, b \in Nat, c \in Nat : a = Sizes(s) /\ b = Sizes(t) /\ c = Sizes(u)
  BY <1>1
<1>3. a + b + c = n
  BY <1>2 DEF Lists
<1>4. a + c + b = n /\ b + a + c = n /\ c + b + a = n
  BY <1>3
<1> QED BY <1>2, <1>4, ThreeTurned DEF Lists

\* Items that are no roots.
Rootless(s) == \A i \in DOMAIN s : ~s[i].root

LEMMA ListsMoved ==
    ASSUME NEW s, NEW t, NEW u, NEW n, Lists(s, t, u, n), NEW i \in DOMAIN s
    PROVE  /\ Lists(Without(s, i), Append(t, s[i]), u, n)
           /\ s[i] \in Item /\ s # <<>>
           /\ Rootless(s) => Rootless(Without(s, i))
           /\ Rootless(t) /\ ~s[i].root => Rootless(Append(t, s[i]))
<1> DEFINE w == Without(s, i)
           a == Append(t, s[i])
<1>1. /\ s \in Seq(Item) /\ t \in Seq(Item) /\ u \in Seq(Item) /\ n \in Nat
      /\ Three(s, t, u, n) /\ Sizes(s) + Sizes(t) + Sizes(u) = n
  BY DEF Lists
<1>2. s[i] \in Item /\ s # <<>>
  BY <1>1, LenIs, Opened
<1>3. w \in Seq(Item) /\ a \in Seq(Item)
  BY <1>1, <1>2, AppendIs, WithoutIs
<1>4. Three(w, a, u, n)
  BY <1>1, MovedThree
<1>5. Sizes(w) + Sizes(a) + Sizes(u) = n
  BY <1>1, SizesMoved
<1>6. \A j \in DOMAIN w : \E x \in DOMAIN s : w[j] = s[x]
  BY <1>1, WithoutPlaces
<1>7. \A j \in DOMAIN a : a[j] = s[i] \/ \E x \in DOMAIN t : a[j] = t[x]
  <2>1. Len(t) \in Nat /\ DOMAIN t = 1 .. Len(t)
    BY <1>1, LenProperties
  <2> QED BY <1>1, <1>2, <2>1, AppendIs
<1> HIDE DEF w, a
<1>8. Rootless(s) => Rootless(w)
  BY <1>6 DEF Rootless
<1>9. Rootless(t) /\ ~s[i].root => Rootless(a)
  BY <1>7 DEF Rootless
<1>10. Lists(w, a, u, n)
  BY <1>1, <1>3, <1>4, <1>5 DEF Lists
<1> QED BY <1>2, <1>8, <1>9, <1>10 DEF w, a

-----------------------------------------------------------------------------
(* The allocator's steps *)

(* Items given back, or on their way, are never a tree's root; without root *)
(* items, no items; and all items fill what lies before the bucket.         *)
PageRight(r) ==
    /\ r \in Page
    /\ Lists(r.used, r.free, r.moving, r.bucket)
    /\ r.bucket + r.left <= Room
    /\ r.bucket + HeadSize <= Room + Slack
    /\ Rootless(r.free) /\ Rootless(r.moving)
    /\ ~r.known => r.used = <<>> /\ r.free = <<>> /\ r.moving = <<>> /\ r.dc = {}

LEMMA PageParts ==
    ASSUME NEW r \in Page
    PROVE  /\ r.used \in Seq(Item) /\ r.free \in Seq(Item) /\ r.moving \in Seq(Item)
           /\ r.bucket \in Nat /\ r.left \in Nat
           /\ r.dc \in SUBSET DcClasses /\ r.recycle \in SUBSET RecycleClasses
           /\ r.known \in BOOLEAN /\ r.err \in BOOLEAN
  BY DEF Page

\* What is promised of a page's lists is part of it.
LEMMA RightIsSound ==
    ASSUME NEW r, PageRight(r) PROVE PageSound(r)
<1>1. \A s \in {r.used, r.free, r.moving} : Before(s, r.bucket)
  BY DEF PageRight, Lists, Three, Pair
<1> QED BY <1>1 DEF PageRight, PageSound, Lists, Three, Pair

\* An item that lies before the bucket lies inside the page.
LEMMA InsideRoom ==
    ASSUME NEW r, PageRight(r), NEW s \in Seq(Item), Before(s, r.bucket), NEW i \in DOMAIN s
    PROVE  s[i] \in Item /\ s[i].at + s[i].len <= Room
<1>1. r.bucket \in Nat /\ r.left \in Nat /\ r.bucket + r.left <= Room /\ Room \in Nat
  BY PageParts, MemoryAssumption DEF PageRight
<1>2. s[i] \in Item /\ s[i].at \in Nat /\ s[i].len \in Nat /\ s[i].at + s[i].len <= r.bucket
  BY LenIs DEF Before, Item
<1> QED BY <1>1, <1>2, Between

\* Taken out of those given back.
LEMMA TakenRight ==
    ASSUME NEW r, PageRight(r), NEW i \in DOMAIN r.free
    PROVE  /\ PageRight(Taken(r, i))
           /\ Taken(r, i).used = r.used /\ Taken(r, i).known = r.known
           /\ Taken(r, i).moving = Append(r.moving, r.free[i])
           /\ r.free[i] \in Item /\ r.free # <<>>
<1> DEFINE t == Taken(r, i)
<1>1. Lists(r.free, r.moving, r.used, r.bucket)
  BY ListsTurned DEF PageRight
<1>2. /\ Lists(Without(r.free, i), Append(r.moving, r.free[i]), r.used, r.bucket)
      /\ r.free[i] \in Item /\ r.free # <<>>
      /\ Rootless(Without(r.free, i)) /\ Rootless(Append(r.moving, r.free[i]))
  BY <1>1, ListsMoved DEF PageRight, Rootless
<1>3. t = [r EXCEPT !.free = Without(r.free, i), !.moving = Append(r.moving, r.free[i])]
  BY DEF Taken
<1>4. /\ t \in Page
      /\ t.free = Without(r.free, i) /\ t.moving = Append(r.moving, r.free[i])
      /\ t.used = r.used /\ t.bucket = r.bucket /\ t.left = r.left
      /\ t.known = r.known /\ t.dc = r.dc
  BY <1>2, <1>3 DEF Page, PageRight, Lists
<1>5. Lists(t.used, t.free, t.moving, t.bucket)
  BY <1>2, <1>4, ListsTurned
<1>6. PageRight(t)
  BY <1>2, <1>4, <1>5 DEF PageRight
<1> QED BY <1>2, <1>4, <1>6

\* Cut from the bucket.
LEMMA CutRight ==
    ASSUME NEW r, PageRight(r), NEW q \in Nat, NEW c \in RecycleClasses, CanInsert(r, c, q)
    PROVE  /\ PageRight(Cut(r, q))
           /\ Cut(r, q).used = r.used /\ Cut(r, q).free = r.free /\ Cut(r, q).known = r.known
           /\ \E x \in Item : x.len = q + HF /\ Cut(r, q).moving = Append(r.moving, x)
<1> DEFINE x == [at |-> r.bucket, len |-> q + HF, root |-> FALSE]
           t == Cut(r, q)
           a == Append(r.moving, x)
           n == r.bucket + q + HF
<1>1. /\ r \in Page /\ r.used \in Seq(Item) /\ r.free \in Seq(Item) /\ r.moving \in Seq(Item)
      /\ r.bucket \in Nat /\ r.left \in Nat /\ r.bucket + r.left <= Room
      /\ Lists(r.used, r.free, r.moving, r.bucket)
  BY PageParts DEF PageRight
<1>2. /\ HF \in Nat /\ HeadSize \in Nat /\ Room \in Nat /\ Slack \in Nat
      /\ HeadSize <= Slack /\ HF > 0
  BY MemoryAssumption
<1>3. q + HF <= r.left /\ r.dc # {} /\ q + HF \in Nat
  BY <1>2 DEF CanInsert
<1>4. x \in Item /\ x.at = r.bucket /\ x.len = q + HF /\ ~x.root
  BY <1>1, <1>2 DEF Item
<1>5. n \in Nat /\ r.bucket <= n /\ x.at + x.len <= n
  BY <1>1, <1>2, <1>4
<1>6. /\ r.left - (q + HF) \in Nat /\ n + (r.left - (q + HF)) <= Room
      /\ n + HeadSize <= Room + Slack
  <2>1. PICK b \in Nat, l \in Nat : b = r.bucket /\ l = r.left
    BY <1>1
  <2>2. q + HF <= l /\ b + l <= Room
    BY <1>1, <1>3, <2>1
  <2>3. /\ l - (q + HF) \in Nat /\ (b + q + HF) + (l - (q + HF)) <= Room
        /\ (b + q + HF) + HeadSize <= Room + Slack
    BY <1>2, <2>2
  <2> QED BY <2>1, <2>3
<1> HIDE DEF x
<1>7. a \in Seq(Item) /\ Rootless(a)
  <2>1. /\ Len(r.moving) \in Nat /\ DOMAIN r.moving = 1 .. Len(r.moving)
        /\ a \in Seq(Item) /\ DOMAIN a = 1 .. Len(r.moving) + 1
        /\ a[Len(r.moving) + 1] = x /\ \A j \in DOMAIN r.moving : a[j] = r.moving[j]
    BY <1>1, <1>4, AppendIs, LenProperties
  <2>2. \A j \in DOMAIN a : a[j] = x \/ \E k \in DOMAIN r.moving : a[j] = r.moving[k]
    BY <2>1
  <2> QED BY <1>4, <2>1, <2>2 DEF PageRight, Rootless
<1>8. t = [r EXCEPT !.moving = a, !.bucket = n, !.left = r.left - (q + HF)]
  BY DEF Cut, x
<1>9. /\ t \in Page
      /\ t.used = r.used /\ t.free = r.free /\ t.moving = a /\ t.bucket = n
      /\ t.left = r.left - (q + HF) /\ t.known = r.known /\ t.dc = r.dc
  BY <1>1, <1>5, <1>6, <1>7, <1>8 DEF Page
<1>10. \A s \in {r.used, r.free, r.moving} : \A j \in DOMAIN s : Apart(x, s[j])
  <2> SUFFICES ASSUME NEW s \in {r.used, r.free, r.moving}, NEW j \in DOMAIN s
               PROVE  Apart(x, s[j])
    OBVIOUS
  <2>1. Before(s, r.bucket)
    BY <1>1 DEF Lists, Three, Pair
  <2> QED BY <1>4, <2>1 DEF Before, Apart
<1>11. Three(r.used, r.free, r.moving, n)
  BY <1>1, <1>5, RoomierPair DEF Lists, Three
<1>12. Pair(a, r.used, n) /\ Pair(a, r.free, n)
  <2>1. Pair(r.moving, r.used, n) /\ Pair(r.moving, r.free, n)
    BY <1>11, PairTurned DEF Three
  <2> QED BY <1>1, <1>4, <1>5, <1>10, <2>1, MorePair
<1>13. Three(r.used, r.free, a, n)
  BY <1>11, <1>12, PairTurned DEF Three
<1>14. Sizes(r.used) + Sizes(r.free) + Sizes(a) = n
  <2>1. PICK e \in Nat, f \in Nat, g \in Nat, b \in Nat :
           e = Sizes(r.used) /\ f = Sizes(r.free) /\ g = Sizes(r.moving) /\ b = r.bucket
    BY <1>1, SizesIs
  <2>2. e + f + g = b /\ Sizes(a) = g + (q + HF)
    BY <1>1, <1>4, <2>1, SizesAppend DEF Lists
  <2>3. e + f + (g + (q + HF)) = b + q + HF
    BY <1>2, <2>2
  <2> QED BY <2>1, <2>2, <2>3
<1> HIDE DEF n, a
<1>15. Lists(t.used, t.free, t.moving, t.bucket)
  BY <1>1, <1>5, <1>7, <1>9, <1>13, <1>14 DEF Lists
<1>16. PageRight(t)
  BY <1>3, <1>6, <1>7, <1>9, <1>15 DEF PageRight
<1> QED BY <1>4, <1>9, <1>16 DEF a

(* The first half of shmalloc leaves the page right and the items in use    *)
(* alone; the last item that is on its way is the one it picked.            *)
LEMMA PickedRight ==
    ASSUME NEW r, PageRight(r), NEW q \in Nat, NEW c \in RecycleClasses,
           CanRecycle(r, c, q) \/ CanInsert(r, c, q),
           NEW t \in Picked(r, c, q)
    PROVE  /\ PageRight(t) /\ t.used = r.used /\ t.known = r.known
           /\ \E x \in Item :
                 /\ t.moving = Append(r.moving, x)
                 /\ r.free = <<>> => t.free = <<>> /\ x.len = q + HF
<1>1. CASE CanRecycle(r, c, q)
  <2>1. PICK i \in FirstFit(r, q) : t = Taken(r, i)
    BY <1>1 DEF Picked
  <2>2. i \in DOMAIN r.free
    BY DEF FirstFit, Fitting
  <2> QED BY <2>1, <2>2, TakenRight
<1>2. CASE ~CanRecycle(r, c, q)
  <2>1. t = Cut(r, q) /\ CanInsert(r, c, q)
    BY <1>2 DEF Picked
  <2> QED BY <2>1, CutRight
<1> QED BY <1>1, <1>2

(* What shmalloc hands out is appended to the used list of a page that      *)
(* stays right, lies inside it and apart from all that is in use there.     *)
LEMMA HandedRight ==
    ASSUME NEW r, PageRight(r), NEW i \in DOMAIN r.moving
    PROVE  /\ PageRight(Handed(r, i))
           /\ Handed(r, i).used = Append(r.used, r.moving[i])
           /\ Handed(r, i).free = r.free /\ Handed(r, i).known = r.known
           /\ r.moving[i] \in Item /\ ~r.moving[i].root
           /\ r.moving[i].at + r.moving[i].len <= Room
           /\ \A j \in DOMAIN r.used : Apart(r.moving[i], r.used[j])
<1> DEFINE t == Handed(r, i)
<1>1. Lists(r.moving, r.used, r.free, r.bucket)
  BY ListsTurned DEF PageRight
<1>2. /\ Lists(Without(r.moving, i), Append(r.used, r.moving[i]), r.free, r.bucket)
      /\ r.moving[i] \in Item /\ r.moving # <<>> /\ Rootless(Without(r.moving, i))
  BY <1>1, ListsMoved DEF PageRight
<1>3. t = [r EXCEPT !.moving = Without(r.moving, i), !.used = Append(r.used, r.moving[i])]
  BY DEF Handed
<1>4. /\ t \in Page
      /\ t.moving = Without(r.moving, i) /\ t.used = Append(r.used, r.moving[i])
      /\ t.free = r.free /\ t.bucket = r.bucket /\ t.left = r.left
      /\ t.known = r.known /\ t.dc = r.dc
  BY <1>2, <1>3 DEF Page, PageRight, Lists
<1>5. Lists(t.used, t.free, t.moving, t.bucket)
  BY <1>2, <1>4, ListsTurned
<1>6. PageRight(t)
  BY <1>2, <1>4, <1>5 DEF PageRight
<1>7. r.moving[i].at + r.moving[i].len <= Room
  BY <1>1, InsideRoom DEF Lists, Three, Pair
<1>8. ~r.moving[i].root /\ \A j \in DOMAIN r.used : Apart(r.moving[i], r.used[j])
  BY <1>1 DEF PageRight, Rootless, Lists, Three, Pair, ListsApart
<1> QED BY <1>2, <1>4, <1>6, <1>7, <1>8

\* The last item of the used list becomes a root.
LEMMA SignedRight ==
    ASSUME NEW r, PageRight(r), NEW u \in Seq(Item), NEW x \in Item,
           r.used = Append(u, x)
    PROVE  /\ PageRight(Signed(r)) /\ Signed(r).known = r.known
           /\ Signed(r).used = Append(u, [x EXCEPT !.root = TRUE])
<1> DEFINE t == Signed(r)
<1>12. PICK y \in Item : y = [x EXCEPT !.root = TRUE]
  BY DEF Item
<1>1. /\ r \in Page /\ r.used \in Seq(Item) /\ r.free \in Seq(Item) /\ r.moving \in Seq(Item)
      /\ Lists(r.used, r.free, r.moving, r.bucket)
  BY PageParts DEF PageRight
<1>2. /\ Len(u) \in Nat /\ DOMAIN u = 1 .. Len(u)
      /\ Len(r.used) = Len(u) + 1 /\ DOMAIN r.used = 1 .. Len(u) + 1
      /\ r.used[Len(u) + 1] = x
      /\ \A j \in DOMAIN u : r.used[j] = u[j]
  BY AppendIs, LenProperties
<1> DEFINE v == [r.used EXCEPT ![Len(u) + 1] = y]
<1>3. t = [r EXCEPT !.used = [r.used EXCEPT ![Len(r.used)] = [r.used[Len(r.used)] EXCEPT !.root = TRUE]]]
  BY <1>1 DEF Page, Signed
<1>4. t = [r EXCEPT !.used = v]
  BY <1>2, <1>3, <1>12
<1>5. v \in Seq(Item) /\ Len(v) = Len(u) + 1 /\ DOMAIN v = 1 .. Len(u) + 1
      /\ \A j \in 1 .. Len(u) + 1 : v[j] = IF j = Len(u) + 1 THEN y ELSE r.used[j]
  <2>1. r.used \in [1 .. Len(u) + 1 -> Item]
    BY <1>1, <1>2, LenProperties
  <2>2. v \in [1 .. Len(u) + 1 -> Item]
    BY <2>1
  <2>3. Len(u) + 1 \in Nat
    BY <1>2
  <2>4. v \in Seq(Item)
    BY <2>2, <2>3
  <2>5. DOMAIN v = 1 .. Len(u) + 1
    BY <2>2
  <2>6. Len(v) = Len(u) + 1
    BY <2>3, <2>4, <2>5, LenProperties
  <2> QED BY <2>1, <2>4, <2>5, <2>6
<1>6. /\ t \in Page /\ t.used = v /\ t.free = r.free /\ t.moving = r.moving
      /\ t.bucket = r.bucket /\ t.left = r.left /\ t.known = r.known /\ t.dc = r.dc
  BY <1>1, <1>4, <1>5 DEF Page
<1>7. v = Append(u, y)
  <2>1. /\ Append(u, y) \in Seq(Item) /\ Len(Append(u, y)) = Len(u) + 1
        /\ Append(u, y)[Len(u) + 1] = y
        /\ \A j \in DOMAIN u : Append(u, y)[j] = u[j]
    BY AppendIs
  <2>2. \A j \in 1 .. Len(v) : v[j] = Append(u, y)[j]
    BY <1>2, <1>5, <2>1
  <2> QED BY <1>5, <2>1, <2>2, SeqEqual, ZenonT(40)
<1>8. y.at = x.at /\ y.len = x.len
  BY <1>12 DEF Item
<1>9. \A j \in DOMAIN v : j \in DOMAIN r.used /\ v[j].at = r.used[j].at /\ v[j].len = r.used[j].len
  BY <1>2, <1>5, <1>8
<1>10. \A w : /\ Pair(r.used, w, r.bucket) => Pair(v, w, r.bucket)
  <2> SUFFICES ASSUME NEW w, Pair(r.used, w, r.bucket) PROVE Pair(v, w, r.bucket)
    OBVIOUS
  <2>1. ListApart(v)
    BY <1>9 DEF Pair, ListApart, Apart
  <2>2. ListsApart(v, w)
    BY <1>9 DEF Pair, ListsApart, Apart
  <2>3. Before(v, r.bucket)
    BY <1>9 DEF Pair, Before
  <2> QED BY <2>1, <2>2, <2>3 DEF Pair
<1>11. r.known
  <2>1. r.used # <<>>
    BY <1>1, <1>2, Opened
  <2> QED BY <2>1 DEF PageRight
<1>13. Sizes(t.used) = Sizes(r.used)
  <2>1. Sizes(Append(u, x)) = Sizes(u) + x.len /\ Sizes(Append(u, y)) = Sizes(u) + y.len
    BY SizesAppend
  <2> QED BY <1>6, <1>7, <1>8, <2>1
<1>14. Lists(t.used, t.free, t.moving, t.bucket)
  <2>1. Three(v, r.free, r.moving, r.bucket)
    BY <1>1, <1>10 DEF Lists, Three
  <2> QED BY <1>1, <1>5, <1>6, <1>13, <2>1 DEF Lists
<1>15. PageRight(t)
  BY <1>6, <1>11, <1>14 DEF PageRight
<1> QED BY <1>6, <1>7, <1>12, <1>15

(* The first half of shmfree, for what is not a root.                       *)
LEMMA DroppedRight ==
    ASSUME NEW r, PageRight(r), NEW i \in DOMAIN r.used, ~r.used[i].root
    PROVE  /\ PageRight(Dropped(r, i))
           /\ Dropped(r, i).used = Without(r.used, i)
           /\ Dropped(r, i).moving = Append(r.moving, r.used[i])
           /\ Dropped(r, i).known = r.known
           /\ r.used[i] \in Item
<1> DEFINE t == Dropped(r, i)
<1>1. Lists(r.used, r.moving, r.free, r.bucket)
  BY ListsTurned DEF PageRight
<1>2. /\ Lists(Without(r.used, i), Append(r.moving, r.used[i]), r.free, r.bucket)
      /\ r.used[i] \in Item /\ r.used # <<>> /\ Rootless(Append(r.moving, r.used[i]))
  BY <1>1, ListsMoved DEF PageRight
<1>3. t = [r EXCEPT !.used = Without(r.used, i), !.moving = Append(r.moving, r.used[i])]
  BY DEF Dropped
<1>4. /\ t \in Page
      /\ t.used = Without(r.used, i) /\ t.moving = Append(r.moving, r.used[i])
      /\ t.free = r.free /\ t.bucket = r.bucket /\ t.left = r.left
      /\ t.known = r.known /\ t.dc = r.dc
  BY <1>2, <1>3 DEF Page, PageRight, Lists
<1>5. Lists(t.used, t.free, t.moving, t.bucket)
  BY <1>2, <1>4, ListsTurned
<1>6. PageRight(t)
  BY <1>2, <1>4, <1>5 DEF PageRight
<1> QED BY <1>2, <1>4, <1>6

\* The second half.
LEMMA ReturnedRight ==
    ASSUME NEW r, PageRight(r), NEW i \in DOMAIN r.moving
    PROVE  /\ PageRight(Returned(r, i))
           /\ Returned(r, i).used = r.used /\ Returned(r, i).known = r.known
<1> DEFINE t == Returned(r, i)
<1>1. Lists(r.moving, r.free, r.used, r.bucket)
  BY ListsTurned DEF PageRight
<1>2. /\ Lists(Without(r.moving, i), Append(r.free, r.moving[i]), r.used, r.bucket)
      /\ r.moving # <<>>
      /\ Rootless(Without(r.moving, i)) /\ Rootless(Append(r.free, r.moving[i]))
  BY <1>1, ListsMoved DEF PageRight, Rootless
<1>3. t = [r EXCEPT !.moving = Without(r.moving, i), !.free = Append(r.free, r.moving[i])]
  BY DEF Returned
<1>4. /\ t \in Page
      /\ t.moving = Without(r.moving, i) /\ t.free = Append(r.free, r.moving[i])
      /\ t.used = r.used /\ t.bucket = r.bucket /\ t.left = r.left
      /\ t.known = r.known /\ t.dc = r.dc
  BY <1>2, <1>3 DEF Page, PageRight, Lists
<1>5. Lists(t.used, t.free, t.moving, t.bucket)
  BY <1>2, <1>4, ListsTurned
<1>6. PageRight(t)
  BY <1>2, <1>4, <1>5 DEF PageRight
<1> QED BY <1>2, <1>4, <1>6

\* Three empty lists before a bucket at the start.
LEMMA NoLists == Lists(<<>>, <<>>, <<>>, 0)
<1>1. <<>> \in Seq(Item)
  BY EmptySeq
<1>2. Three(<<>>, <<>>, <<>>, 0)
  BY DEF Three, Pair, ListApart, ListsApart, Before
<1> QED BY <1>1, <1>2, SizesNothing DEF Lists

\* A page without an item in use may be reset.
LEMMA ShrunkRight ==
    ASSUME NEW r \in Page, r.used = <<>>, r.known PROVE PageRight(Shrunk(r))
<1> DEFINE t == Shrunk(r)
<1>1. HeadSize \in Nat /\ Slack \in Nat /\ HeadSize <= Slack /\ Room \in Nat
  BY MemoryAssumption
<1>2. /\ t.used = <<>> /\ t.free = <<>> /\ t.moving = <<>>
      /\ t.bucket = 0 /\ t.left = Room /\ t.known
  BY DEF Shrunk, Page
<1>3. t \in Page
  <2>1. <<>> \in Seq(Item)
    BY EmptySeq
  <2> QED BY <1>1, <2>1 DEF Shrunk, Page
<1>4. t.bucket + t.left <= Room /\ t.bucket + HeadSize <= Room + Slack
  BY <1>1, <1>2
<1>5. Rootless(t.free) /\ Rootless(t.moving)
  BY <1>2 DEF Rootless
<1> QED BY <1>2, <1>3, <1>4, <1>5, NoLists DEF PageRight

LEMMA ShrunkTyped ==
    ASSUME NEW r \in Page
    PROVE  Shrunk(r) \in Page /\ Shrunk(r).used = r.used /\ Shrunk(r).known = r.known
<1>1. Room \in Nat
  BY MemoryAssumption
<1>2. Shrunk(r) \in Page
  <2>1. <<>> \in Seq(Item)
    BY EmptySeq
  <2> QED BY <1>1, <2>1 DEF Shrunk, Page
<1>3. Shrunk(r).used = r.used /\ Shrunk(r).known = r.known
  BY DEF Shrunk, Page
<1> QED BY <1>2, <1>3

\* What a rebuild writes apart from that leaves the lists alone.
SameLists(r, t) ==
    /\ t.used = r.used /\ t.free = r.free /\ t.moving = r.moving
    /\ t.bucket = r.bucket /\ t.left = r.left /\ t.known = r.known

LEMMA SameListsRight ==
    ASSUME NEW r, NEW t \in Page, PageRight(r), SameLists(r, t), ~t.known => t.dc = {}
    PROVE  PageRight(t)
  BY DEF PageRight, SameLists

LEMMA ClearedRight ==
    ASSUME NEW r, PageRight(r)
    PROVE  /\ PageRight(Cleared(r)) /\ SameLists(r, Cleared(r))
           /\ PageRight(Erroneous(r)) /\ SameLists(r, Erroneous(r))
<1>1. r \in Page
  BY DEF PageRight
<1>2. Cleared(r) \in Page /\ SameLists(r, Cleared(r)) /\ Cleared(r).dc = {}
  BY <1>1 DEF Cleared, Page, SameLists
<1>3. Erroneous(r) \in Page /\ SameLists(r, Erroneous(r)) /\ Erroneous(r).dc = {}
  BY <1>1 DEF Cleared, Erroneous, Page, SameLists
<1> QED BY <1>2, <1>3, SameListsRight

LEMMA MarkedRight ==
    ASSUME NEW r, PageRight(r)
    PROVE  /\ PageRight(Marked(r)) /\ SameLists(r, Marked(r))
           /\ ~Marked(r).err => r.known
<1>1. r \in Page
  BY DEF PageRight
<1>2. CASE ~r.known
  BY <1>1, <1>2, ClearedRight DEF Marked, Erroneous, Cleared, Page
<1>3. CASE r.known
  <2> DEFINE d == ClassesBelow(Remain(r))
             f == UNION {{0} \cup ClassesBelow(r.free[i].len - HF) : i \in DOMAIN r.free}
  <2>1. d \in SUBSET DcClasses
    BY DEF ClassesBelow
  <2>2. f \in SUBSET RecycleClasses
    <3>1. \A n : ClassesBelow(n) \subseteq RecycleClasses
      BY DEF ClassesBelow, DcClasses, RecycleClasses
    <3> QED BY <3>1 DEF RecycleClasses
  <2>3. Marked(r) = [r EXCEPT !.err = FALSE, !.dc = d, !.recycle = f]
    BY <1>3 DEF Marked
  <2> HIDE DEF d, f
  <2>4. Marked(r) \in Page /\ SameLists(r, Marked(r))
    BY <1>1, <2>1, <2>2, <2>3 DEF Page, SameLists
  <2> QED BY <1>3, <2>4, SameListsRight DEF SameLists
<1> QED BY <1>2, <1>3

LEMMA PreparedRight ==
    ASSUME NEW r, PageRight(r)
    PROVE  /\ PageRight(Prepared(r)) /\ Prepared(r).known
           /\ Prepared(r).used = r.used /\ Prepared(r).free = r.free
           /\ Prepared(r).moving = r.moving
<1>1. r \in Page
  BY DEF PageRight
<1>2. CASE r.known
  BY <1>2 DEF Prepared
<1>3. CASE ~r.known
  <2>1. r.used = <<>> /\ r.free = <<>> /\ r.moving = <<>>
    BY <1>3 DEF PageRight
  <2> DEFINE k == [r EXCEPT !.known = TRUE, !.err = FALSE]
  <2>2. k \in Page /\ k.used = <<>> /\ k.known
    BY <1>1, <2>1 DEF Page
  <2>3. Prepared(r) = Shrunk(k)
    BY <1>1, <1>3 DEF Prepared, Shrunk, Page
  <2>4. PageRight(Shrunk(k)) /\ Shrunk(k).used = k.used /\ Shrunk(k).known = k.known
    BY <2>2, ShrunkRight, ShrunkTyped
  <2>5. Shrunk(k).free = <<>> /\ Shrunk(k).moving = <<>>
    BY <2>2 DEF Shrunk, Page
  <2> QED BY <2>1, <2>2, <2>3, <2>4, <2>5
<1> QED BY <1>2, <1>3

LEMMA BlankRight == PageRight(Blank) /\ Blank.used = <<>>
<1>1. HeadSize \in Nat /\ Slack \in Nat /\ HeadSize <= Slack /\ Room \in Nat
  BY MemoryAssumption
<1>2. /\ Blank.used = <<>> /\ Blank.free = <<>> /\ Blank.moving = <<>>
      /\ Blank.bucket = 0 /\ Blank.left = 0 /\ Blank.dc = {}
  BY DEF Blank
<1>3. Blank \in Page
  <2>1. <<>> \in Seq(Item)
    BY EmptySeq
  <2> QED BY <2>1 DEF Blank, Page
<1>4. Blank.bucket + Blank.left <= Room /\ Blank.bucket + HeadSize <= Room + Slack
  BY <1>1, <1>2
<1>5. Rootless(Blank.free) /\ Rootless(Blank.moving)
  BY <1>2 DEF Rootless
<1> QED BY <1>2, <1>3, <1>4, <1>5, NoLists DEF PageRight

PagesRight == \A n \in Pages \ lost : PageRight(pages[n])

\* A page that is about to be reset has its root items.
Walks == \A p \in Procs :
    walk[p].todo = "reset" => walk[p].page \in Pages /\ pages[walk[p].page].known

-----------------------------------------------------------------------------
(* Handing out *)

LEMMA Offered ==
    ASSUME NEW pgs, NEW q \in Nat, NEW o \in Foremost(Offers(pgs, q))
    PROVE  /\ o[1] \in RecycleClasses /\ o[2] \in Pages
           /\ CanRecycle(pgs[o[2]], o[1], q) \/ CanInsert(pgs[o[2]], o[1], q)
<1>1. o \in Offers(pgs, q)
  BY DEF Foremost
<1>2. /\ o \in (StartClass(q) .. 4) \X Pages
      /\ CanRecycle(pgs[o[2]], o[1], q) \/ CanInsert(pgs[o[2]], o[1], q)
  BY <1>1 DEF Offers
<1>3. o[1] \in StartClass(q) .. 4 /\ o[2] \in Pages
  BY <1>2
<1>4. StartClass(q) \in 0 .. 3
  BY DEF StartClass
<1>5. o[1] \in 0 .. 4
  BY <1>3, <1>4
<1> QED BY <1>2, <1>3, <1>5 DEF RecycleClasses

(* The first half of a call: page n becomes r, in which x is on its way.    *)
Begins(p, n, r, x, to) ==
    /\ pages' = [pages EXCEPT ![n] = r]
    /\ PageRight(r) /\ r.known = pages[n].known
    /\ r.moving = Append(pages[n].moving, x)
    /\ call' = [call EXCEPT ![p] = [page |-> n, at |-> x.at, to |-> to]]

LEMMA Begun ==
    ASSUME NEW p \in Procs, NEW n \in Pages, NEW r, NEW to, NEW s \in Seq(Item), NEW x \in Item,
           pages[n].moving = s, r.moving = Append(s, x), PageRight(r),
           r.known = pages[n].known, Takes(p, n, r, to)
    PROVE  Begins(p, n, r, x, to)
<1>1. r.moving[Len(r.moving)] = x
  BY AppendIs
<1> QED BY <1>1 DEF Takes, Begins

LEMMA Obtained ==
    ASSUME TypeOK, PagesRight, lost = {}, NEW p \in Procs, NEW q \in Nat, Shmalloc(p, q)
    PROVE  \E n \in Pages, x \in Item : \E r :
              /\ Begins(p, n, r, x, "used")
              /\ r.used = pages[n].used
              /\ pages[n].free = <<>> => r.free = <<>> /\ x.len = q + HF
<1>1. PICK o \in Foremost(Offers(pages, q)) :
         \E r \in Picked(pages[o[2]], o[1], q) : Takes(p, o[2], r, "used")
  BY DEF Shmalloc
<1>2. PICK r \in Picked(pages[o[2]], o[1], q) : Takes(p, o[2], r, "used")
  BY <1>1
<1> DEFINE n == o[2]
<1>3. /\ o[1] \in RecycleClasses /\ n \in Pages
      /\ CanRecycle(pages[n], o[1], q) \/ CanInsert(pages[n], o[1], q)
  BY Offered
<1>4. PageRight(pages[n]) /\ pages[n].moving \in Seq(Item)
  BY <1>3, PageParts DEF PagesRight, PageRight
<1>5. PICK x \in Item :
         /\ PageRight(r) /\ r.used = pages[n].used /\ r.known = pages[n].known
         /\ r.moving = Append(pages[n].moving, x)
         /\ pages[n].free = <<>> => r.free = <<>> /\ x.len = q + HF
  BY <1>2, <1>3, <1>4, PickedRight
<1>6. Begins(p, n, r, x, "used")
  BY <1>2, <1>3, <1>4, <1>5, Begun
<1> HIDE DEF n
<1> QED BY <1>3, <1>5, <1>6

LEMMA Released ==
    ASSUME TypeOK, PagesRight, lost = {}, NEW p \in Procs, NEW n \in Pages,
           NEW i \in DOMAIN pages[n].used, ~pages[n].used[i].root, Shmfree(p, n, i)
    PROVE  /\ pages[n].used[i] \in Item
           /\ Begins(p, n, Dropped(pages[n], i), pages[n].used[i], "free")
           /\ Dropped(pages[n], i).used = Without(pages[n].used, i)
<1>1. PageRight(pages[n]) /\ pages[n].moving \in Seq(Item)
  BY PageParts DEF PagesRight, PageRight
<1>2. /\ PageRight(Dropped(pages[n], i))
      /\ Dropped(pages[n], i).used = Without(pages[n].used, i)
      /\ Dropped(pages[n], i).moving = Append(pages[n].moving, pages[n].used[i])
      /\ Dropped(pages[n], i).known = pages[n].known
      /\ pages[n].used[i] \in Item
  BY <1>1, DroppedRight
<1>3. Takes(p, n, Dropped(pages[n], i), "free")
  BY DEF Shmfree
<1> QED BY <1>1, <1>2, <1>3, Begun

(* What the second half finds.                                              *)
LEMMA OnTheWayIs ==
    ASSUME TypeOK, PagesRight, lost = {}, NEW p \in Procs, call[p] # NoItem,
           NEW i \in OnTheWay(p)
    PROVE  /\ call[p].page \in Pages /\ PageRight(pages[call[p].page])
           /\ i \in DOMAIN pages[call[p].page].moving
<1>1. call[p] \in Call
  BY DEF TypeOK
<1>2. call[p].page \in Pages
  BY <1>1 DEF Call
<1> QED BY <1>2 DEF OnTheWay, PagesRight

-----------------------------------------------------------------------------
(* Types, and pages that are right *)

LEMMA PageDoneTyped ==
    ASSUME TypeOK, NEW p \in Procs, walk[p].page \in Pages, PageDone(p)
    PROVE  /\ walk' \in [Procs -> [page : 0 .. NPages, todo : {"clear", "mark", "reset"}]]
           /\ pc' \in [Procs -> States]
           /\ allMutex' \in Procs \cup {NoProc} /\ catMutex' \in Procs \cup {NoProc}
           /\ prepared' \in BOOLEAN
           /\ walk'[p].todo = "clear"
           /\ \A q \in Procs \ {p} : walk'[q] = walk[q]
           /\ \A q \in Procs \ {p} : pc'[q] = pc[q]
<1>1. NPages \in Nat /\ walk[p].page \in 1 .. NPages
  BY MemoryAssumption DEF Pages
<1>2. /\ walk \in [Procs -> [page : 0 .. NPages, todo : {"clear", "mark", "reset"}]]
      /\ pc \in [Procs -> States] /\ prepared \in BOOLEAN
      /\ allMutex \in Procs \cup {NoProc} /\ catMutex \in Procs \cup {NoProc}
  BY DEF TypeOK
<1>3. CASE walk[p].page < NPages
  <2>1. walk' = [walk EXCEPT ![p] = [NoWalk EXCEPT !.page = walk[p].page + 1]]
    BY <1>3 DEF PageDone
  <2>2. walk[p].page + 1 \in 0 .. NPages
    BY <1>1, <1>3
  <2>3. [NoWalk EXCEPT !.page = walk[p].page + 1] = [page |-> walk[p].page + 1, todo |-> "clear"]
    BY DEF NoWalk
  <2>4. UNCHANGED <<pc, allMutex, catMutex, prepared>>
    BY <1>3 DEF PageDone, procVars
  <2> QED BY <1>2, <2>1, <2>2, <2>3, <2>4
<1>4. CASE ~(walk[p].page < NPages)
  <2>1. walk' = [walk EXCEPT ![p] = NoWalk]
    BY <1>4 DEF PageDone
  <2>2. NoWalk \in [page : 0 .. NPages, todo : {"clear", "mark", "reset"}] /\ NoWalk.todo = "clear"
    BY <1>1 DEF NoWalk
  <2>3. \E s \in {"idle", "wantTree"} : pc' = [pc EXCEPT ![p] = s]
    BY <1>4 DEF PageDone, Becomes
  <2>4. /\ allMutex' \in {NoProc, allMutex} /\ catMutex' \in {NoProc, catMutex}
        /\ prepared' \in BOOLEAN
    BY <1>2, <1>4 DEF PageDone
  <2>5. {"idle", "wantTree"} \subseteq States
    BY DEF States, Waiting
  <2>6. pc' \in [Procs -> States] /\ \A q \in Procs \ {p} : pc'[q] = pc[q]
    BY <1>2, <2>3, <2>5
  <2> QED BY <1>2, <2>1, <2>2, <2>4, <2>6
<1> QED BY <1>3, <1>4

LEMMA TypedStep ==
    ASSUME TypeOK, PagesRight, Walks, [Next]_vars
    PROVE  TypeOK' /\ PagesRight' /\ Walks'
<1>1. /\ pages \in [Pages -> Page]
      /\ pc \in [Procs -> States]
      /\ allMutex \in Procs \cup {NoProc} /\ catMutex \in Procs \cup {NoProc}
      /\ walk \in [Procs -> [page : 0 .. NPages, todo : {"clear", "mark", "reset"}]]
      /\ call \in [Procs -> Call \cup {NoItem}]
      /\ tree \in [Procs -> Handle \cup {NoItem}]
      /\ prepared \in BOOLEAN /\ early \in BOOLEAN /\ again \in BOOLEAN
      /\ lost \subseteq Pages /\ killed \in 0 .. MaxKills
  BY DEF TypeOK
<1>2. FirstPage \in [page : 0 .. NPages, todo : {"clear", "mark", "reset"}] /\ FirstPage.todo = "clear"
  <2>1. NPages \in Nat \ {0}
    BY MemoryAssumption
  <2> QED BY <2>1 DEF FirstPage, NoWalk
<1>3. Server \in Procs /\ MaxKills \in Nat
  BY CategoryAssumption
<1>4. \A s \in {"off", "stopped", "dead", "preparing", "wantRebuild", "wantTree", "rebuilding",
                "printing", "making", "idle", "wantCategory", "inside"} : s \in States
  BY DEF States, Waiting, Rebuilding
<1>5. CASE ServerStart
  BY <1>1, <1>2, <1>3, <1>4, <1>5
     DEF ServerStart, Becomes, history, TypeOK, PagesRight, Walks
<1>6. CASE ServerStop
  BY <1>1, <1>3, <1>4, <1>6 DEF ServerStop, Becomes, history, TypeOK, PagesRight, Walks
<1>7. ASSUME NEW p \in Procs, ClientJoin(p) PROVE TypeOK' /\ PagesRight' /\ Walks'
  BY <1>1, <1>4, <1>7 DEF ClientJoin, Becomes, TypeOK, PagesRight, Walks
<1>8. ASSUME NEW p \in Procs, ClientLeave(p) PROVE TypeOK' /\ PagesRight' /\ Walks'
  BY <1>1, <1>4, <1>8 DEF ClientLeave, Becomes, history, TypeOK, PagesRight, Walks
<1>9. ASSUME NEW p \in Procs, Kill(p) PROVE TypeOK' /\ PagesRight' /\ Walks'
  <2>1. killed' \in 0 .. MaxKills
    BY <1>1, <1>3, <1>9 DEF Kill
  <2> QED BY <1>1, <1>4, <1>9, <2>1 DEF Kill, Becomes, history, TypeOK, PagesRight, Walks
<1>10. ASSUME NEW p \in Procs, RebuildBegin(p) PROVE TypeOK' /\ PagesRight' /\ Walks'
  BY <1>1, <1>2, <1>4, <1>10 DEF RebuildBegin, Becomes, TypeOK, PagesRight, Walks
<1>11. ASSUME NEW p \in Procs, PrintBegin(p) PROVE TypeOK' /\ PagesRight' /\ Walks'
  BY <1>1, <1>2, <1>4, <1>11 DEF PrintBegin, Becomes, history, TypeOK, PagesRight, Walks
<1>12. ASSUME NEW p \in Procs, TreeBegin(p) PROVE TypeOK' /\ PagesRight' /\ Walks'
  BY <1>1, <1>4, <1>12 DEF TreeBegin, Becomes, history, TypeOK, PagesRight, Walks
<1>13. ASSUME NEW p \in Procs, WantCategory(p) PROVE TypeOK' /\ PagesRight' /\ Walks'
  BY <1>1, <1>4, <1>13 DEF WantCategory, Becomes, history, TypeOK, PagesRight, Walks
<1>14. ASSUME NEW p \in Procs, CategoryBegin(p) PROVE TypeOK' /\ PagesRight' /\ Walks'
  BY <1>1, <1>4, <1>14 DEF CategoryBegin, Becomes, history, TypeOK, PagesRight, Walks
<1>15. ASSUME NEW p \in Procs, CategoryEnd(p) PROVE TypeOK' /\ PagesRight' /\ Walks'
  BY <1>1, <1>4, <1>15 DEF CategoryEnd, Becomes, history, TypeOK, PagesRight, Walks
<1> DEFINE Kept == TypeOK' /\ PagesRight' /\ Walks'
\* Page n becomes the right page r, nothing else of these changes.
<1>16. ASSUME NEW n \in Pages, NEW r, lost = {}, PageRight(r), pages[n].known => r.known,
              pages' = [pages EXCEPT ![n] = r], lost' = lost
       PROVE  /\ pages' \in [Pages -> Page] /\ PagesRight'
              /\ \A m \in Pages : pages[m].known => pages'[m].known
  <2>1. \A m \in Pages : pages'[m] = IF m = n THEN r ELSE pages[m]
    BY <1>1, <1>16
  <2>2. pages' \in [Pages -> Page]
    BY <1>1, <1>16 DEF PageRight
  <2> QED BY <1>16, <2>1, <2>2 DEF PagesRight
<1>17. \A n \in Pages : lost = {} => PageRight(pages[n])
  BY DEF PagesRight
<1>18. ASSUME NEW p \in Procs, RebuildClear(p) PROVE Kept
  <2> DEFINE n == walk[p].page
             b == IF pc[p] = "printing" THEN pages[n] ELSE Prepared(pages[n])
  <2>1. n \in Pages /\ lost = {} /\ lost' = lost
    BY <1>18 DEF RebuildClear, At, history
  <2>2. PageRight(pages[n])
    BY <1>17, <2>1
  <2>3. PageRight(b) /\ (pages[n].known => b.known)
    BY <2>2, PreparedRight
  <2>4. PageRight(Cleared(b)) /\ Cleared(b).known = b.known
    BY <2>3, ClearedRight DEF SameLists
  <2>5. pages' = [pages EXCEPT ![n] = Cleared(b)]
    BY <1>1, <1>18 DEF RebuildClear
  <2>6. /\ pages' \in [Pages -> Page] /\ PagesRight'
        /\ \A m \in Pages : pages[m].known => pages'[m].known
    BY <1>16, <2>1, <2>3, <2>4, <2>5
  <2>7. walk' = [walk EXCEPT ![p] = [walk[p] EXCEPT !.todo = "mark"]]
    BY <1>1, <1>18 DEF RebuildClear
  <2>8. /\ walk' \in [Procs -> [page : 0 .. NPages, todo : {"clear", "mark", "reset"}]]
        /\ walk'[p].todo = "mark" /\ \A q \in Procs \ {p} : walk'[q] = walk[q]
    BY <1>1, <2>7
  <2>9. Walks'
    BY <2>6, <2>8 DEF Walks
  <2> QED BY <1>1, <1>18, <2>6, <2>8, <2>9 DEF RebuildClear, procVars, history, TypeOK
<1>19. ASSUME NEW p \in Procs, RebuildMark(p) PROVE Kept
  <2> DEFINE n == walk[p].page
  <2>1. n \in Pages /\ lost = {} /\ lost' = lost
    BY <1>19 DEF RebuildMark, At, history
  <2>2. PICK r \in {Marked(pages[n]), Erroneous(pages[n])} :
          /\ pages' = [pages EXCEPT ![n] = r]
          /\ IF ~r.err /\ r.used = <<>>
             THEN /\ walk' = [walk EXCEPT ![p].todo = "reset"]
                  /\ UNCHANGED <<procVars, prepared>>
             ELSE PageDone(p)
    BY <1>19 DEF RebuildMark
  <2>3. PageRight(pages[n])
    BY <1>17, <2>1
  <2>4. PageRight(r) /\ SameLists(pages[n], r) /\ (~r.err => pages[n].known)
    <3>1. pages[n] \in Page
      BY <1>1, <2>1
    <3>2. Erroneous(pages[n]).err
      BY <3>1 DEF Erroneous, Cleared, Page
    <3> QED BY <2>2, <2>3, <3>2, MarkedRight, ClearedRight
  <2>5. /\ pages' \in [Pages -> Page] /\ PagesRight'
        /\ \A m \in Pages : pages[m].known => pages'[m].known
    BY <1>16, <2>1, <2>2, <2>4 DEF SameLists
  <2>6. CASE ~r.err /\ r.used = <<>>
    <3>1. walk' = [walk EXCEPT ![p] = [walk[p] EXCEPT !.todo = "reset"]]
      BY <1>1, <2>2, <2>6
    <3>2. /\ walk' \in [Procs -> [page : 0 .. NPages, todo : {"clear", "mark", "reset"}]]
          /\ walk'[p].page = n /\ \A q \in Procs \ {p} : walk'[q] = walk[q]
      BY <1>1, <3>1
    <3>3. Walks'
      BY <2>1, <2>4, <2>5, <2>6, <3>2 DEF Walks
    <3> QED BY <1>1, <1>19, <2>2, <2>5, <2>6, <3>2, <3>3
            DEF RebuildMark, procVars, history, TypeOK
  <2>7. CASE ~(~r.err /\ r.used = <<>>)
    <3>1. PageDone(p)
      BY <2>2, <2>7
    <3>2. Walks'
      BY <2>1, <2>5, <3>1, PageDoneTyped DEF Walks
    <3> QED BY <1>1, <1>19, <2>1, <2>5, <3>1, <3>2, PageDoneTyped
            DEF RebuildMark, history, TypeOK
  <2> QED BY <2>6, <2>7
<1>20. ASSUME NEW p \in Procs, RebuildReset(p) PROVE Kept
  <2> DEFINE n == walk[p].page
  <2>1. n \in Pages /\ walk[p].todo = "reset" /\ PageDone(p)
    BY <1>20 DEF RebuildReset, At
  <2>2. pages[n].known /\ pages[n] \in Page
    BY <1>1, <2>1 DEF Walks
  <2>3. pages' = [pages EXCEPT ![n] = Shrunk(pages[n])]
    BY <1>1, <1>20 DEF RebuildReset
  <2>4. Shrunk(pages[n]) \in Page /\ Shrunk(pages[n]).known
    BY <2>2, ShrunkTyped
  <2>5. pages' \in [Pages -> Page] /\ \A m \in Pages : pages[m].known => pages'[m].known
    BY <1>1, <2>1, <2>3, <2>4
  <2>6. lost' = IF pages[n].used # <<>> \/ Moved(n) THEN lost \cup {n} ELSE lost
    BY <1>20 DEF RebuildReset
  <2>7. PagesRight'
    <3> SUFFICES ASSUME NEW m \in Pages, m \notin lost' PROVE PageRight(pages'[m])
      BY DEF PagesRight
    <3>1. m \notin lost
      BY <2>6
    <3>2. CASE m = n
      <4>1. pages[n].used = <<>>
        BY <2>6, <3>2
      <4> QED BY <1>1, <2>1, <2>2, <2>3, <3>2, <4>1, ShrunkRight
    <3>3. CASE m # n
      BY <1>1, <2>3, <3>1, <3>3 DEF PagesRight
    <3> QED BY <3>2, <3>3
  <2>8. Walks'
    BY <2>1, <2>5, PageDoneTyped DEF Walks
  <2>9. lost' \subseteq Pages
    BY <1>1, <2>1, <2>6
  <2> QED BY <1>1, <1>20, <2>1, <2>5, <2>7, <2>8, <2>9, PageDoneTyped
          DEF RebuildReset, TypeOK
\* The first half of a call.
<1>25. ASSUME NEW p \in Procs, NEW n \in Pages, NEW r, NEW x \in Item, NEW to \in {"used", "free"},
              lost = {}, lost' = lost, walk' = walk, Begins(p, n, r, x, to)
       PROVE  /\ pages' \in [Pages -> Page] /\ PagesRight' /\ Walks'
              /\ call' \in [Procs -> Call \cup {NoItem}]
  <2>1. /\ pages' \in [Pages -> Page] /\ PagesRight'
        /\ \A m \in Pages : pages[m].known => pages'[m].known
    BY <1>16, <1>25 DEF Begins
  <2>2. [page |-> n, at |-> x.at, to |-> to] \in Call
    BY <1>25 DEF Call, Item
  <2>3. call' \in [Procs -> Call \cup {NoItem}]
    BY <1>1, <1>25, <2>2 DEF Begins
  <2> QED BY <1>25, <2>1, <2>3 DEF Walks
\* The second half: page n becomes r.
<1>26. ASSUME NEW p \in Procs, NEW n \in Pages, NEW r, lost = {}, lost' = lost, walk' = walk,
              PageRight(r), r.known = pages[n].known, pages' = [pages EXCEPT ![n] = r],
              call' = [call EXCEPT ![p] = NoItem]
       PROVE  /\ pages' \in [Pages -> Page] /\ PagesRight' /\ Walks'
              /\ call' \in [Procs -> Call \cup {NoItem}]
  <2>1. /\ pages' \in [Pages -> Page] /\ PagesRight'
        /\ \A m \in Pages : pages[m].known => pages'[m].known
    BY <1>16, <1>26
  <2>2. call' \in [Procs -> Call \cup {NoItem}]
    BY <1>1, <1>26
  <2> QED BY <1>26, <2>1, <2>2 DEF Walks
<1>21. ASSUME NEW p \in Procs, MakeTree(p) PROVE Kept
  <2>1. /\ lost = {} /\ lost' = lost /\ walk' = walk
        /\ UNCHANGED <<catMutex, prepared, early, again, killed>>
    BY <1>21 DEF MakeTree, history
  <2>2. CASE \E x \in Foremost(Roots) :
                /\ tree' = [tree EXCEPT ![p] = RootOf(x[1], pages[x[1]].used[x[2]])]
                /\ allMutex' = NoProc
                /\ Becomes(p, "idle")
                /\ UNCHANGED <<pages, call>>
    <3>1. PICK x \in Foremost(Roots) :
                /\ tree' = [tree EXCEPT ![p] = RootOf(x[1], pages[x[1]].used[x[2]])]
                /\ allMutex' = NoProc
                /\ Becomes(p, "idle")
                /\ UNCHANGED <<pages, call>>
      BY <2>2
    <3>2. x[1] \in Pages /\ x[2] \in DOMAIN pages[x[1]].used
      BY DEF Foremost, Roots
    <3>3. pages[x[1]].used[x[2]] \in Item
      BY <1>1, <3>2, ElementOfSeq, LenProperties DEF Page
    <3>4. RootOf(x[1], pages[x[1]].used[x[2]]) \in Handle
      BY <3>2, <3>3 DEF RootOf, Handle, Item
    <3> QED BY <1>1, <1>4, <2>1, <3>1, <3>4 DEF Becomes, TypeOK, PagesRight, Walks
  <2>3. CASE Shmalloc(p, RootSize) /\ UNCHANGED <<pc, allMutex, tree>>
    <3>1. RootSize \in Nat
      BY CategoryAssumption
    <3>2. PICK n, x, r : n \in Pages /\ x \in Item /\ Begins(p, n, r, x, "used")
      BY <2>1, <2>3, <3>1, Obtained
    <3> QED BY <1>1, <1>25, <2>1, <2>3, <3>2 DEF TypeOK
  <2>4. CASE /\ Becomes(p, IF p = Server THEN "dead" ELSE "off")
             /\ allMutex' = NoProc
             /\ UNCHANGED <<pages, call, tree>>
    BY <1>1, <1>4, <2>1, <2>4 DEF Becomes, TypeOK, PagesRight, Walks
  <2> QED BY <1>21, <2>2, <2>3, <2>4 DEF MakeTree
<1>27. ASSUME NEW p \in Procs, RootMade(p) PROVE Kept
  <2> DEFINE n == call[p].page
  <2>1. /\ call[p] # NoItem /\ lost = {} /\ lost' = lost /\ walk' = walk
        /\ allMutex' = NoProc /\ Becomes(p, "idle") /\ call' = [call EXCEPT ![p] = NoItem]
        /\ UNCHANGED <<catMutex, prepared, early, again, killed>>
    BY <1>27 DEF RootMade, history
  <2>2. PICK i \in OnTheWay(p) :
          /\ pages' = [pages EXCEPT ![n] = Signed(Handed(pages[n], i))]
          /\ tree' = [tree EXCEPT ![p] = RootOf(n, pages[n].moving[i])]
    BY <1>1, <1>27 DEF RootMade
  <2>3. n \in Pages /\ PageRight(pages[n]) /\ i \in DOMAIN pages[n].moving
    BY <2>1, OnTheWayIs
  <2> HIDE DEF n
  <2>4. /\ PageRight(Handed(pages[n], i))
        /\ Handed(pages[n], i).used = Append(pages[n].used, pages[n].moving[i])
        /\ Handed(pages[n], i).known = pages[n].known
        /\ pages[n].moving[i] \in Item
    BY <2>3, HandedRight
  <2>5. pages[n].used \in Seq(Item)
    BY <2>3, PageParts DEF PageRight
  <2>6. PageRight(Signed(Handed(pages[n], i))) /\ Signed(Handed(pages[n], i)).known = pages[n].known
    BY <2>4, <2>5, SignedRight
  <2>7. RootOf(n, pages[n].moving[i]) \in Handle
    BY <2>3, <2>4 DEF RootOf, Handle, Item
  <2>8. /\ pages' \in [Pages -> Page] /\ PagesRight' /\ Walks'
        /\ call' \in [Procs -> Call \cup {NoItem}]
    BY <1>26, <2>1, <2>2, <2>3, <2>6
  <2> QED BY <1>1, <1>4, <2>1, <2>2, <2>7, <2>8 DEF Becomes, TypeOK
<1>22. ASSUME NEW p \in Procs, Allocate(p) PROVE Kept
  <2>1. lost = {} /\ UNCHANGED <<procVars, walk, tree, prepared, history, killed>>
    BY <1>22 DEF Allocate
  <2>2. PICK q \in Requests : Shmalloc(p, q)
    BY <1>22 DEF Allocate
  <2>3. q \in Nat
    BY CategoryAssumption
  <2>4. PICK n, x, r : n \in Pages /\ x \in Item /\ Begins(p, n, r, x, "used")
    BY <2>1, <2>2, <2>3, Obtained
  <2>5. /\ pages' \in [Pages -> Page] /\ PagesRight' /\ Walks'
        /\ call' \in [Procs -> Call \cup {NoItem}]
    BY <1>25, <2>1, <2>4 DEF history
  <2> QED BY <1>1, <2>1, <2>5 DEF procVars, history, TypeOK
<1>23. ASSUME NEW p \in Procs, Free(p) PROVE Kept
  <2>1. lost = {} /\ UNCHANGED <<procVars, walk, tree, prepared, history, killed>>
    BY <1>23 DEF Free
  <2>2. PICK n \in Pages : \E i \in DOMAIN pages[n].used :
          ~pages[n].used[i].root /\ Shmfree(p, n, i)
    BY <1>23 DEF Free
  <2>3. PICK i \in DOMAIN pages[n].used : ~pages[n].used[i].root /\ Shmfree(p, n, i)
    BY <2>2
  <2>4. PICK x, r : x \in Item /\ Begins(p, n, r, x, "free")
    BY <2>1, <2>3, Released
  <2>5. /\ pages' \in [Pages -> Page] /\ PagesRight' /\ Walks'
        /\ call' \in [Procs -> Call \cup {NoItem}]
    BY <1>25, <2>1, <2>4 DEF history
  <2> QED BY <1>1, <2>1, <2>5 DEF procVars, history, TypeOK
<1>28. ASSUME NEW p \in Procs, Link(p) PROVE Kept
  <2> DEFINE n == call[p].page
  <2>1. /\ call[p] # NoItem /\ lost = {} /\ call' = [call EXCEPT ![p] = NoItem]
        /\ UNCHANGED <<procVars, walk, tree, prepared, history, killed>>
    BY <1>28 DEF Link
  <2>2. PICK i \in OnTheWay(p) :
          pages' = [pages EXCEPT ![n] = IF call[p].to = "used" THEN Handed(pages[n], i)
                                                               ELSE Returned(pages[n], i)]
    BY <1>1, <1>28 DEF Link
  <2>3. n \in Pages /\ PageRight(pages[n]) /\ i \in DOMAIN pages[n].moving
    BY <2>1, OnTheWayIs
  <2> HIDE DEF n
  <2>4. /\ PageRight(Handed(pages[n], i)) /\ Handed(pages[n], i).known = pages[n].known
        /\ PageRight(Returned(pages[n], i)) /\ Returned(pages[n], i).known = pages[n].known
    BY <2>3, HandedRight, ReturnedRight
  <2>5. /\ pages' \in [Pages -> Page] /\ PagesRight' /\ Walks'
        /\ call' \in [Procs -> Call \cup {NoItem}]
    BY <1>26, <2>1, <2>2, <2>3, <2>4 DEF history
  <2> QED BY <1>1, <2>1, <2>5 DEF procVars, history, TypeOK
<1>24. CASE UNCHANGED vars
  BY <1>24 DEF vars, TypeOK, PagesRight, Walks
<1> QED BY <1>5, <1>6, <1>7, <1>8, <1>9, <1>10, <1>11, <1>12, <1>13, <1>14, <1>15, <1>18, <1>19,
           <1>20, <1>21, <1>22, <1>23, <1>24, <1>27, <1>28 DEF Next

LEMMA TypedStart ==
    ASSUME Init PROVE TypeOK /\ PagesRight /\ Walks
<1>1. NPages \in Nat \ {0} /\ MaxKills \in Nat
  BY MemoryAssumption, CategoryAssumption
<1>2. NoWalk \in [page : 0 .. NPages, todo : {"clear", "mark", "reset"}] /\ NoWalk.todo = "clear"
  BY <1>1 DEF NoWalk
<1>3. pages \in [Pages -> Page] /\ PagesRight
  <2>1. \A n \in Pages : pages[n] = Blank
    BY DEF Init
  <2>2. Blank \in Page
    BY BlankRight DEF PageRight
  <2> QED BY <2>1, <2>2, BlankRight DEF Init, PagesRight
<1>4. "off" \in States
  BY DEF States
<1>5. TypeOK
  <2>1. tree \in [Procs -> Handle \cup {NoItem}] /\ call \in [Procs -> Call \cup {NoItem}]
    BY DEF Init
  <2>2. walk \in [Procs -> [page : 0 .. NPages, todo : {"clear", "mark", "reset"}]]
    BY <1>2 DEF Init
  <2>3. pc \in [Procs -> States]
    BY <1>4 DEF Init
  <2>4. killed \in 0 .. MaxKills /\ lost \subseteq Pages
    BY <1>1 DEF Init
  <2> QED BY <1>3, <2>1, <2>2, <2>3, <2>4 DEF Init, TypeOK
<1>6. Walks
  BY <1>2 DEF Init, Walks
<1> QED BY <1>3, <1>5, <1>6

-----------------------------------------------------------------------------

(* The types, the pages and the walks of the rebuilds are as they should    *)
(* be, at any time.                                                         *)
THEOREM PagesStayRight == Spec => [](TypeOK /\ PagesRight /\ Walks)
<1>1. Init => TypeOK /\ PagesRight /\ Walks
  BY TypedStart
<1>2. TypeOK /\ PagesRight /\ Walks /\ [Next]_vars => (TypeOK /\ PagesRight /\ Walks)'
  BY TypedStep
<1> QED BY <1>1, <1>2, PTL DEF Spec

(* The state of a category has its types for any number of processes, pages *)
(* of any size and any sizes of items, also after a page was lost.          *)
THEOREM TypeCorrect == Spec => []TypeOK
  BY PagesStayRight, PTL

(* No byte belongs to two items or to an item and the bucket, whoever       *)
(* rebuilds the pages, hands out, gives back or is killed at any moment     *)
(* (smmr_memory.c:653-842, 1164-1340).                                      *)
THEOREM BlocksStayApart == Spec => []BlocksApart
<1>1. PagesRight => BlocksApart
  BY RightIsSound DEF PagesRight, BlocksApart
<1> QED BY <1>1, PagesStayRight, PTL

-----------------------------------------------------------------------------
(* What a rebuild shows *)

\* A request's own class, and the class of bucket it is cut from.
LEMMA ClassIs ==
    ASSUME NEW q \in Nat
    PROVE  /\ StartClass(q) \in 0 .. 3
           /\ StartClass(q) > 0 => q > Limit[StartClass(q)]
           /\ DcClass(StartClass(q)) \in DcClasses
           /\ DcClass(StartClass(q)) = IF StartClass(q) > 0 THEN StartClass(q) ELSE 1
<1>1. StartClass(q) \in 0 .. 3 /\ (StartClass(q) > 0 => q > Limit[StartClass(q)])
  BY DEF StartClass
<1> HIDE DEF StartClass
<1> QED BY <1>1 DEF DcClass, DcClasses

\* Where header and footer fit once more for every item, nothing wraps.
LEMMA RemainIs ==
    ASSUME NEW r, PageRight(r), r.left - HF * Len(r.used) > 0
    PROVE  Remain(r) \in Nat /\ Remain(r) >= r.left - HF * Len(r.used)
<1>1. /\ r.used \in Seq(Item) /\ r.free \in Seq(Item) /\ r.moving \in Seq(Item)
      /\ r.bucket \in Nat /\ r.left \in Nat /\ r.bucket + r.left <= Room
  BY PageParts DEF PageRight
<1>2. Len(r.used) \in Nat /\ HF \in Nat /\ Room \in Nat /\ Word \in Nat /\ Word > Room + HF * Room
  BY <1>1, LenProperties, MemoryAssumption
<1>3. HF * Len(r.used) \in Nat /\ HF * Room \in Nat
  BY <1>2
<1>4. PICK u \in Nat, f \in Nat, m \in Nat, b \in Nat, l \in Nat, h \in Nat, k \in Nat :
         /\ u = Sizes(r.used) /\ f = Sizes(r.free) /\ m = Sizes(r.moving)
         /\ b = r.bucket /\ l = r.left /\ h = HF * Len(r.used) /\ k = HF * Room
  BY <1>1, <1>3, SizesIs
<1>5. u + f + m = b /\ b + l <= Room /\ l - h > 0 /\ Word > Room + k
  BY <1>1, <1>2, <1>4 DEF PageRight, Lists
<1>6. Room - u - h \in 0 .. Word - 1 /\ Room - u - h >= l - h
  BY <1>2, <1>5
<1>7. Remain(r) = (Room - u - h) % Word
  BY <1>4 DEF Remain
<1>8. Remain(r) = Room - u - h
  BY <1>2, <1>5, <1>6, <1>7
<1> QED BY <1>4, <1>6, <1>8

\* What is written of one page.
Shows(r) ==
    /\ \A i \in DOMAIN r.free, q \in Requests :
          r.free[i].len >= q + HF => StartClass(q) \in r.recycle
    /\ \A q \in Requests :
          /\ r.left - HF * Len(r.used) > Limit[1]
          /\ r.left - HF * Len(r.used) >= q
          => DcClass(StartClass(q)) \in r.dc

\* The bitmaps that a rebuild writes for a page that is right.
LEMMA MarkedShows ==
    ASSUME NEW r, PageRight(r), r.known
    PROVE  Shows(Marked(r))
<1> DEFINE t == Marked(r)
           d == ClassesBelow(Remain(r))
           g == UNION {{0} \cup ClassesBelow(r.free[i].len - HF) : i \in DOMAIN r.free}
<1>1. r \in Page /\ r.used \in Seq(Item) /\ r.free \in Seq(Item) /\ r.left \in Nat
  BY PageParts DEF PageRight
<1>2. t.used = r.used /\ t.free = r.free /\ t.left = r.left /\ t.dc = d /\ t.recycle = g
  BY <1>1 DEF Marked, Page
<1> HIDE DEF t
<1>3. Requests \subseteq Nat /\ HF \in Nat /\ Limit \in [DcClasses -> Nat \ {0}]
  BY MemoryAssumption, CategoryAssumption
<1>4. ASSUME NEW i \in DOMAIN r.free, NEW q \in Requests, r.free[i].len >= q + HF
      PROVE  StartClass(q) \in g
  <2>1. q \in Nat /\ r.free[i].len \in Nat
    BY <1>1, <1>3, LenIs
  <2>2. StartClass(q) = 0 \/ StartClass(q) \in ClassesBelow(r.free[i].len - HF)
    <3>1. CASE StartClass(q) > 0
      <4>1. PICK c \in DcClasses : c = StartClass(q)
        BY <2>1, <3>1, ClassIs DEF DcClasses
      <4>2. q > Limit[c] /\ Limit[c] \in Nat
        BY <1>3, <2>1, <3>1, <4>1, ClassIs
      <4>3. r.free[i].len - HF > Limit[c]
        BY <1>3, <1>4, <2>1, <4>2
      <4> QED BY <4>1, <4>3 DEF ClassesBelow
    <3>2. CASE ~(StartClass(q) > 0)
      BY <2>1, <3>2, ClassIs
    <3> QED BY <3>1, <3>2
  <2> QED BY <2>2
<1>5. ASSUME NEW q \in Requests,
             r.left - HF * Len(r.used) > Limit[1], r.left - HF * Len(r.used) >= q
      PROVE  DcClass(StartClass(q)) \in d
  <2>1. q \in Nat /\ Limit[1] \in Nat /\ HF * Len(r.used) \in Nat
    BY <1>1, <1>3, LenProperties DEF DcClasses
  <2>2. PICK a \in Int : a = r.left - HF * Len(r.used)
    BY <1>1, <2>1
  <2>3. a > 0 /\ a > Limit[1] /\ a >= q
    BY <1>5, <2>1, <2>2
  <2>4. Remain(r) \in Nat /\ Remain(r) >= a
    BY <2>2, <2>3, RemainIs
  <2>5. PICK c \in DcClasses : c = DcClass(StartClass(q))
    BY <2>1, ClassIs
  <2>6. c = 1 \/ q > Limit[c]
    BY <2>1, <2>5, ClassIs
  <2>7. Limit[c] \in Nat
    BY <1>3
  <2>8. Remain(r) > Limit[c]
    BY <2>1, <2>3, <2>4, <2>6, <2>7
  <2> QED BY <2>5, <2>8 DEF ClassesBelow
<1> HIDE DEF d, g
<1> QED BY <1>2, <1>4, <1>5 DEF Shows, t

\* A process that is about to mark a page gets on with its walk by doing so.
LEMMA MarkMoves ==
    ASSUME TypeOK, [Next]_vars, NEW p \in Procs, At(p, "mark"), walk'[p] # walk[p]
    PROVE  RebuildMark(p)
<1>1. /\ walk \in [Procs -> [page : 0 .. NPages, todo : {"clear", "mark", "reset"}]]
      /\ Server \in Procs
  BY CategoryAssumption DEF TypeOK
<1>2. pc[p] \in Rebuilding /\ walk[p].todo = "mark"
  BY DEF At
<1>3. walk' # walk
  OBVIOUS
<1>4. \A q \in Procs : (\E w : walk' = [walk EXCEPT ![q] = w]) => q = p
  BY <1>1
<1>5. ~ServerStart
  BY <1>1, <1>2, <1>4 DEF ServerStart, Rebuilding
<1>6. ASSUME NEW q \in Procs, RebuildBegin(q) \/ PrintBegin(q) PROVE FALSE
  BY <1>2, <1>4, <1>6 DEF RebuildBegin, PrintBegin, Rebuilding
<1>7. ASSUME NEW q \in Procs, RebuildClear(q) PROVE FALSE
  <2>1. walk' = [walk EXCEPT ![q] = [walk[q] EXCEPT !.todo = "mark"]] /\ walk[q].todo = "clear"
    BY <1>1, <1>7 DEF RebuildClear, At
  <2> QED BY <1>2, <1>4, <2>1
<1>8. ASSUME NEW q \in Procs, PageDone(q) PROVE q = p
  <2>1. \E w : walk' = [walk EXCEPT ![q] = w]
    BY <1>8 DEF PageDone
  <2> QED BY <1>4, <2>1
<1>9. ASSUME NEW q \in Procs, RebuildReset(q) PROVE FALSE
  BY <1>2, <1>8, <1>9 DEF RebuildReset, At
<1>10. ASSUME NEW q \in Procs, RebuildMark(q) PROVE q = p
  <2>1. PageDone(q) \/ walk' = [walk EXCEPT ![q] = [walk[q] EXCEPT !.todo = "reset"]]
    BY <1>1, <1>10 DEF RebuildMark
  <2> QED BY <1>4, <1>8, <2>1
<1>11. ASSUME NEW q \in Procs,
              \/ ClientJoin(q) \/ ClientLeave(q) \/ Kill(q) \/ TreeBegin(q) \/ MakeTree(q)
              \/ RootMade(q) \/ WantCategory(q) \/ CategoryBegin(q) \/ Allocate(q) \/ Free(q)
              \/ Link(q) \/ CategoryEnd(q)
       PROVE  FALSE
  BY <1>3, <1>11
     DEF ClientJoin, ClientLeave, Kill, TreeBegin, MakeTree, RootMade, WantCategory,
         CategoryBegin, Allocate, Free, Link, CategoryEnd
<1>12. ~ServerStop /\ ~UNCHANGED vars
  BY <1>3 DEF ServerStop, vars
<1> QED BY <1>5, <1>6, <1>7, <1>9, <1>10, <1>11, <1>12 DEF Next

(* A rebuild makes an item given back findable for every request it holds,  *)
(* and the room of the bucket as far as header and footer fit twice for     *)
(* every item in use (smmr_memory.c:970-983, 1044-1053): between rebuilds   *)
(* nothing is lost that the next one does not find.                         *)
THEOREM RebuildShowsRoom == Spec => RebuildSeesRoom
<1> DEFINE Seen ==
      \A p \in Procs, n \in Pages :
         At(p, "mark") /\ walk[p].page = n /\ walk'[p] # walk[p] /\ ~pages'[n].err =>
            Shows(pages'[n])
<1>1. TypeOK /\ PagesRight /\ [Next]_vars => Seen
  <2> SUFFICES ASSUME TypeOK, PagesRight, [Next]_vars, NEW p \in Procs, NEW n \in Pages,
                      At(p, "mark"), walk[p].page = n, walk'[p] # walk[p], ~pages'[n].err
               PROVE  Shows(pages'[n])
    OBVIOUS
  <2>1. RebuildMark(p)
    BY MarkMoves
  <2>2. pages \in [Pages -> Page] /\ PageRight(pages[n])
    BY <2>1 DEF TypeOK, PagesRight, RebuildMark
  <2>3. pages' = [pages EXCEPT ![n] = Marked(pages[n])] \/ pages' = [pages EXCEPT ![n] = Erroneous(pages[n])]
    BY <2>1 DEF RebuildMark
  <2>4. pages'[n] = Marked(pages[n]) \/ pages'[n] = Erroneous(pages[n])
    BY <2>2, <2>3
  <2>5. Erroneous(pages[n]).err
    BY <2>2 DEF Erroneous, Cleared, Page
  <2>6. pages'[n] = Marked(pages[n]) /\ ~Marked(pages[n]).err
    BY <2>4, <2>5
  <2>7. pages[n].known
    BY <2>2, <2>6, MarkedRight
  <2> QED BY <2>2, <2>6, <2>7, MarkedShows
<1>2. TypeOK /\ PagesRight /\ [Next]_vars =>
        [\A p \in Procs, n \in Pages :
          At(p, "mark") /\ walk[p].page = n /\ walk'[p] # walk[p] /\ ~pages'[n].err =>
             LET r == pages'[n] IN
             /\ \A i \in DOMAIN r.free, q \in Requests :
                   r.free[i].len >= q + HF => StartClass(q) \in r.recycle
             /\ \A q \in Requests :
                   /\ r.left - HF * Len(r.used) > Limit[1]
                   /\ r.left - HF * Len(r.used) >= q
                   => DcClass(StartClass(q)) \in r.dc]_vars
  BY <1>1 DEF Shows
<1> QED BY <1>2, PagesStayRight, PTL DEF Spec, RebuildSeesRoom
=============================================================================
