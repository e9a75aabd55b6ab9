----------------------------- MODULE WeightsProofs -----------------------------
(***************************************************************************)
(* Theorems about GroupWeights, and the lemmas about the weights and the   *)
(* table made of them, for groups of any size and any queue lengths; the   *)
(* proofs about RoutingTable use the lemmas.                               *)
(***************************************************************************)
EXTENDS GroupWeights, TLAPS, FiniteSetTheorems, WellFoundedInduction

(* The queue lengths of a group, and its weights, in the order of the sort. *)
QueuesOf(lengths, order) ==
  [i \in 1..Cardinality(DOMAIN lengths) |-> lengths[order[i]]]

RunningSums(n, w) ==
  LET upTo[i \in 0..n] == IF i = 0 THEN 0 ELSE upTo[i - 1] + w[i]
  IN upTo

WeightsOf(lengths, order) ==
  LET n  == Cardinality(DOMAIN lengths)
      qs == QueuesOf(lengths, order)
  IN [i \in 1..n |-> IF qs[i] = qs[n] THEN WeightForMaxQueueCluster(qs)
                     ELSE ShareBelowMax(qs[i], qs[n])]

(* A non-empty set of naturals with an upper bound has a largest element. *)
LEMMA LargestNatural ==
  ASSUME NEW n \in Nat, NEW T, T \subseteq 1..n, T # {}
  PROVE  \E i \in T : \A j \in T : j <= i
<1> DEFINE Below == {n - i : i \in T}
<1>1. \A i \in T : i \in Int /\ 1 <= i /\ i <= n
  OBVIOUS
<1>2. \A i \in T : n - i \in Nat
  BY <1>1
<1>3. Below \subseteq Nat /\ Below # {}
  BY <1>2
<1>4. PICK x \in Below : \A y \in Below : ~(<<y, x>> \in OpToRel(<, Nat))
  <2> HIDE DEF Below
  <2> QED
    BY <1>3, NatLessThanWellFounded, WFMin
<1>5. PICK i \in T : x = n - i
  BY <1>4
<1>6. ASSUME NEW j \in T, j > i
      PROVE  FALSE
  <2>1. n - j \in Nat /\ x \in Nat /\ n - j < x
    BY <1>1, <1>2, <1>5, <1>6
  <2>2. <<n - j, x>> \in OpToRel(<, Nat)
    BY <2>1, Zenon DEF OpToRel
  <2> QED
    BY <1>4, <2>2
<1>7. \A j \in T : j <= i
  BY <1>1, <1>6
<1> QED
  BY <1>7

(* The table of a group names clusters of the group only, and the group's  *)
(* sum is one of its keys: computeWeightsBasedOnQueueLength puts the last  *)
(* cluster under the very sum it stores.                                   *)
LEMMA TableFits ==
  ASSUME NEW lengths, IsFiniteSet(DOMAIN lengths), DOMAIN lengths # {},
         NEW order \in SortedOrders(lengths)
  PROVE  /\ GroupSum(lengths, order) \in DOMAIN GroupTable(lengths, order)
         /\ \A key \in DOMAIN GroupTable(lengths, order) :
              GroupTable(lengths, order)[key] \in DOMAIN lengths
<1> DEFINE n == Cardinality(DOMAIN lengths)
           upTo == CumulativeWeights(lengths, order)
           at(key) == {i \in 1..n : upTo[i] = key}
           last(key) == CHOOSE i \in 1..n : /\ upTo[i] = key
                                            /\ \A j \in 1..n : upTo[j] = key => j <= i
<1>1. n \in Nat /\ n >= 1
  BY FS_CardinalityType, FS_EmptySet
<1>2. order \in [1..n -> DOMAIN lengths]
  BY DEF SortedOrders
<1>3. CASE n = 1
  <2>1. GroupTable(lengths, order) = [key \in {MAX_WT} |-> order[1]]
    BY <1>3 DEF GroupTable
  <2>2. GroupSum(lengths, order) = MAX_WT
    BY <1>3 DEF GroupSum
  <2> QED
    BY <2>1, <2>2, <1>1, <1>2
<1>4. CASE n # 1
  <2>1. GroupTable(lengths, order) = [key \in {upTo[i] : i \in 1..n} |-> order[last(key)]]
    BY <1>4 DEF GroupTable
  <2>2. GroupSum(lengths, order) = upTo[n]
    BY <1>4 DEF GroupSum
  <2>3. upTo[n] \in {upTo[i] : i \in 1..n}
    BY <1>1
  <2>4. ASSUME NEW key \in {upTo[i] : i \in 1..n}
        PROVE  last(key) \in 1..n
    <3>1. at(key) \subseteq 1..n /\ at(key) # {}
      BY <2>4
    <3>2. PICK i \in at(key) : \A j \in at(key) : j <= i
      BY <3>1, <1>1, LargestNatural
    <3> QED
      BY <3>2
  <2> HIDE DEF n, upTo, last
  <2> QED
    BY <2>1, <2>2, <2>3, <2>4, <1>2
<1> QED
  BY <1>3, <1>4

-----------------------------------------------------------------------------
(* What the weights are: the sum of a group is positive, so that a draw    *)
(* below it exists (Random.nextInt throws otherwise).                      *)

(* A set with 0 that has, with each natural, the next, has them all. *)
LEMMA SetInduction ==
  ASSUME NEW S, 0 \in S, \A n \in Nat : n \in S => n + 1 \in S
  PROVE  Nat \subseteq S
<1> DEFINE Out == Nat \ S
<1> SUFFICES ASSUME Out # {} PROVE FALSE
  OBVIOUS
<1>1. PICK x \in Out : \A y \in Out : ~(<<y, x>> \in OpToRel(<, Nat))
  <2>1. Out \subseteq Nat
    OBVIOUS
  <2> HIDE DEF Out
  <2> QED
    BY <2>1, NatLessThanWellFounded, WFMin
<1>2. x \in Nat /\ x # 0 /\ x - 1 \in Nat /\ x - 1 < x
  OBVIOUS
<1>3. <<x - 1, x>> \in OpToRel(<, Nat)
  BY <1>2, Zenon DEF OpToRel
<1>4. x - 1 \in S
  BY <1>1, <1>2, <1>3
<1> QED
  BY <1>2, <1>4

(* Quotients of naturals. *)
LEMMA DivNat ==
  ASSUME NEW a \in Nat, NEW b \in Nat, b > 0
  PROVE  a \div b \in Nat
OBVIOUS

LEMMA DivBelow ==
  ASSUME NEW q \in Nat, NEW m \in Nat, q < m, NEW w \in Nat, w > 0
  PROVE  (q * w) \div m \in 0..(w - 1)
<1> DEFINE a == q * w
           d == a \div m
<1>1. a \in Nat /\ d \in Nat
  BY DivNat
<1>2. d * m <= a
  BY <1>1
<1>3. a < m * w
  OBVIOUS
<1>4. d < w
  <2> HIDE DEF a, d
  <2> SUFFICES ASSUME d >= w PROVE FALSE
    BY <1>1
  <2>1. d * m >= w * m
    BY <1>1
  <2> QED
    BY <1>1, <1>2, <1>3, <2>1
<1> QED
  BY <1>1, <1>4

(* A function with these values is the one that is defined by them. *)
LEMMA Folded ==
  ASSUME NEW n \in Nat, NEW w, NEW e, NEW V, NEW f \in [0..n -> V], f[0] = 0,
         \A i \in 1..n : f[i] = e[i - 1] + w[i]
  PROVE  f = [i \in 0..n |-> IF i = 0 THEN 0 ELSE e[i - 1] + w[i]]
<1>1. \A i \in 0..n : f[i] = IF i = 0 THEN 0 ELSE e[i - 1] + w[i]
  OBVIOUS
<1> DEFINE g == [i \in 0..n |-> IF i = 0 THEN 0 ELSE e[i - 1] + w[i]]
<1>2. \A i \in 0..n : f[i] = g[i]
  BY <1>1
<1>3. g = [i \in 0..n |-> g[i]]
  OBVIOUS
<1> HIDE DEF g
<1>4. f = g
  BY <1>2, <1>3
<1> QED
  BY <1>4 DEF g

(* Running sums of naturals exist, and are naturals. *)
LEMMA SumsExist ==
  ASSUME NEW n \in Nat, NEW w \in [1..n -> Nat]
  PROVE  \E f \in [0..n -> Nat] : f[0] = 0 /\ \A i \in 1..n : f[i] = f[i - 1] + w[i]
<1> DEFINE Sums(f, k) == f[0] = 0 /\ \A i \in 1..k : f[i] = f[i - 1] + w[i]
           S == {k \in Nat : k > n \/ \E f \in [0..k -> Nat] : Sums(f, k)}
<1>1. 0 \in S
  <2> DEFINE f == [i \in 0..0 |-> 0]
  <2>1. f \in [0..0 -> Nat] /\ Sums(f, 0)
    OBVIOUS
  <2> HIDE DEF f
  <2> QED
    BY <2>1
<1>2. ASSUME NEW k \in Nat, k \in S PROVE k + 1 \in S
  <2>1. CASE k + 1 > n
    BY <2>1
  <2>2. CASE k + 1 <= n
    <3>1. PICK f \in [0..k -> Nat] : Sums(f, k)
      <4> HIDE DEF Sums
      <4> QED
        BY <1>2, <2>2
    <3> DEFINE g == [i \in 0..(k + 1) |-> IF i = k + 1 THEN f[k] + w[k + 1] ELSE f[i]]
    <3>2. f[k] \in Nat /\ w[k + 1] \in Nat
      BY <2>2
    <3>3. g \in [0..(k + 1) -> Nat]
      BY <3>2
    <3>4. /\ \A i \in 0..k : g[i] = f[i]
          /\ g[k + 1] = f[k] + w[k + 1]
      OBVIOUS
    <3> HIDE DEF g
    <3>5. Sums(g, k + 1)
      <4>1. g[0] = 0
        BY <3>1, <3>4
      <4>2. ASSUME NEW i \in 1..(k + 1)
            PROVE  g[i] = g[i - 1] + w[i]
        <5>1. CASE i = k + 1
          BY <3>4, <5>1
        <5>2. CASE i # k + 1
          <6>1. i \in 1..k /\ i \in 0..k /\ i - 1 \in 0..k
            BY <5>2
          <6> QED
            BY <3>1, <3>4, <6>1
        <5> QED
          BY <5>1, <5>2
      <4> QED
        BY <4>1, <4>2
    <3>6. \E h \in [0..(k + 1) -> Nat] : Sums(h, k + 1)
      BY <3>3, <3>5, Zenon
    <3>7. k + 1 \in Nat
      OBVIOUS
    <3> HIDE DEF Sums
    <3> QED
      BY <3>6, <3>7, Zenon
  <2> QED
    BY <2>1, <2>2
<1>3. n \in S
  <2> HIDE DEF S
  <2> QED
    BY <1>1, <1>2, SetInduction
<1>4. \E f \in [0..n -> Nat] : Sums(f, n)
  <2> HIDE DEF Sums
  <2>1. n > n \/ \E f \in [0..n -> Nat] : Sums(f, n)
    BY <1>3, Zenon
  <2> QED
    BY <2>1
<1> QED
  BY <1>4, Zenon

LEMMA SumsAreNatural ==
  ASSUME NEW n \in Nat, NEW w \in [1..n -> Nat], NEW V, NEW f \in [0..n -> V], f[0] = 0,
         \A i \in 1..n : f[i] = f[i - 1] + w[i]
  PROVE  f \in [0..n -> Nat]
<1> DEFINE T == {k \in Nat : k > n \/ f[k] \in Nat}
<1>1. 0 \in T
  OBVIOUS
<1>2. ASSUME NEW k \in Nat, k \in T PROVE k + 1 \in T
  <2>1. CASE k + 1 > n
    BY <2>1
  <2>2. CASE k + 1 <= n
    <3>1. k + 1 \in 1..n /\ (k + 1) - 1 = k /\ w[k + 1] \in Nat /\ f[k] \in Nat
      BY <1>2, <2>2
    <3>2. f[k + 1] = f[(k + 1) - 1] + w[k + 1]
      BY <3>1
    <3>3. f[k + 1] \in Nat
      BY <3>1, <3>2
    <3> QED
      BY <3>3
  <2> QED
    BY <2>1, <2>2
<1>3. Nat \subseteq T
  <2> HIDE DEF T
  <2> QED
    BY <1>1, <1>2, SetInduction
<1>4. \A i \in 0..n : f[i] \in Nat
  BY <1>3
<1> QED
  BY <1>4

(* A running sum is no less than an earlier one. *)
LEMMA SumsGrow ==
  ASSUME NEW n \in Nat, NEW w \in [1..n -> Nat], NEW upTo \in [0..n -> Nat],
         \A i \in 1..n : upTo[i] = upTo[i - 1] + w[i],
         NEW j \in 0..n
  PROVE  \A k \in j..n : upTo[k] >= upTo[j]
<1> DEFINE Grown(k) == k < j \/ k > n \/ upTo[k] >= upTo[j]
           S == {k \in Nat : Grown(k)}
<1>1. 0 \in S
  OBVIOUS
<1>2. ASSUME NEW k \in Nat, k \in S PROVE k + 1 \in S
  <2>1. CASE k + 1 < j \/ k + 1 > n \/ k + 1 = j
    BY <2>1
  <2>2. CASE k + 1 > j /\ k + 1 <= n
    <3>1. upTo[k] >= upTo[j] /\ upTo[k + 1] = upTo[k] + w[k + 1]
      <4>1. k + 1 \in 1..n /\ (k + 1) - 1 = k /\ ~(k < j) /\ ~(k > n)
        BY <2>2
      <4>2. upTo[k + 1] = upTo[(k + 1) - 1] + w[k + 1]
        BY <4>1
      <4> QED
        BY <1>2, <4>1, <4>2
    <3>2. k \in 0..n /\ j \in 0..n /\ k + 1 \in 1..n
      BY <2>2
    <3>3. upTo[k] \in Nat /\ upTo[j] \in Nat /\ w[k + 1] \in Nat
      BY <3>2
    <3>4. upTo[k + 1] >= upTo[j]
      BY <3>1, <3>3, SMTT(30)
    <3>5. k + 1 \in Nat
      OBVIOUS
    <3>6. Grown(k + 1)
      BY <3>4, Zenon
    <3> HIDE DEF Grown
    <3> QED
      BY <3>5, <3>6, Zenon
  <2> QED
    BY <2>1, <2>2
<1>3. Nat \subseteq S
  <2> HIDE DEF S
  <2> QED
    BY <1>1, <1>2, SetInduction
<1>4. ASSUME NEW k \in j..n
      PROVE  upTo[k] >= upTo[j]
  <2>1. k \in Nat /\ ~(k < j) /\ ~(k > n)
    OBVIOUS
  <2>2. k \in S
    BY <1>3, <2>1
  <2> QED
    BY <2>1, <2>2
<1> QED
  BY <1>4

(* The recursive function that adds up naturals has the running sums. *)
LEMMA SumsSolved ==
  ASSUME NEW n \in Nat, NEW w \in [1..n -> Nat]
  PROVE  LET upTo == RunningSums(n, w)
         IN /\ upTo \in [0..n -> Nat]
            /\ upTo[0] = 0
            /\ \A i \in 1..n : upTo[i] = upTo[i - 1] + w[i]
<1> DEFINE upTo == RunningSums(n, w)
           From(e) == [i \in 0..n |-> IF i = 0 THEN 0 ELSE e[i - 1] + w[i]]
<1>1. PICK f \in [0..n -> Nat] : f[0] = 0 /\ \A i \in 1..n : f[i] = f[i - 1] + w[i]
  BY SumsExist
<1>2. f = From(f)
  BY <1>1, Folded
<1>3. upTo = From(upTo)
  <2>1. upTo = CHOOSE g : g = From(g)
    BY Zenon DEF RunningSums
  <2> HIDE DEF upTo, From
  <2> QED
    BY <1>2, <2>1, Zenon
<1> HIDE DEF upTo
<1> DEFINE Solves(g, e) == /\ \E V : g \in [0..n -> V]
                           /\ g[0] = 0
                           /\ \A i \in 1..n : g[i] = e[i - 1] + w[i]
<1>4. ASSUME NEW g, NEW e, g = From(e)
      PROVE  Solves(g, e)
  <2>1. g = [i \in 0..n |-> IF i = 0 THEN 0 ELSE e[i - 1] + w[i]]
    BY <1>4, Zenon
  <2> HIDE DEF From
  <2>2. g \in [0..n -> {g[i] : i \in 0..n}]
    BY <2>1
  <2>3. g[0] = 0
    BY <2>1
  <2>4. \A i \in 1..n : g[i] = e[i - 1] + w[i]
    BY <2>1
  <2> QED
    BY <2>2, <2>3, <2>4, Zenon
<1>5. Solves(upTo, upTo)
  <2> HIDE DEF From, Solves
  <2> QED
    BY <1>3, <1>4, Zenon
<1> HIDE DEF From
<1>6. PICK V : upTo \in [0..n -> V]
  BY <1>5
<1>7. upTo[0] = 0 /\ \A i \in 1..n : upTo[i] = upTo[i - 1] + w[i]
  BY <1>5
<1>8. upTo \in [0..n -> Nat]
  <2> DEFINE u == upTo
  <2>1. u \in [0..n -> V] /\ u[0] = 0 /\ \A i \in 1..n : u[i] = u[i - 1] + w[i]
    BY <1>6, <1>7, Zenon
  <2> HIDE DEF u
  <2>2. u \in [0..n -> Nat]
    BY <2>1, SumsAreNatural
  <2> QED
    BY <2>2, Zenon DEF u
<1> QED
  BY <1>7, <1>8, Zenon DEF upTo

(* A cluster with a shorter queue than the longest has a positive share. *)
LEMMA SharePositive ==
  ASSUME NEW q \in Nat, NEW m \in Nat, q < m
  PROVE  ShareBelowMax(q, m) \in 1..MAX_WT
<1>1. (q * MAX_WT) \div m \in 0..(MAX_WT - 1)
  BY DivBelow, WeightBounds
<1> QED
  BY <1>1, WeightBounds DEF ShareBelowMax

(* The sum of the lengths is the last of their running sums. *)
LEMMA QueueSumIs ==
  ASSUME NEW n \in Nat, NEW qs \in [1..n -> Nat], Len(qs) = n
  PROVE  \E upTo \in [0..n -> Nat] :
           /\ upTo[0] = 0
           /\ \A i \in 1..n : upTo[i] = upTo[i - 1] + qs[i]
           /\ QueueSum(qs) = upTo[n]
<1>1. QueueSum(qs) = RunningSums(n, qs)[n]
  BY Zenon DEF QueueSum, RunningSums
<1> QED
  BY <1>1, SumsSolved

(* A quotient that is rounded up is 0 for 0 only, and no more than any     *)
(* natural above the quotient; the float's error does not lift it there.   *)
LEMMA CeilBounds ==
  ASSUME NEW a \in Nat, NEW b \in Nat, b > 0, NEW s \in Nat, NEW m \in Nat,
         s = 0 => a = 0, NEW wt \in Nat, a < b * wt \/ s = 0
  PROVE  /\ CeilOfFloat(a, b, s, m) \in 0..wt
         /\ CeilOfFloat(a, b, s, m) = 0 <=> a = 0 /\ ~FloatRoundsUp(s, m)
<1> DEFINE c == CeilDiv(a, b)
           q == a \div b
<1>1. q \in Nat /\ q * b <= a /\ a < (q + 1) * b /\ (a % b = 0 <=> a = q * b)
  OBVIOUS
<1>2. c = IF a = q * b THEN q ELSE q + 1
  BY <1>1 DEF CeilDiv
<1>3. CASE s = 0
  <2>1. a = 0 /\ q = 0 /\ c = 0
    BY <1>1, <1>2, <1>3
  <2>2. ~FloatRoundsUp(s, m)
    BY <1>3 DEF FloatRoundsUp
  <2> QED
    BY <2>1, <2>2 DEF CeilOfFloat
<1>4. CASE s # 0
  <2>1. q < wt
    <3> SUFFICES ASSUME q >= wt PROVE FALSE
      BY <1>1
    <3> HIDE DEF q
    <3>1. q * b >= wt * b
      BY <1>1
    <3> QED
      BY <1>1, <1>4, <3>1
  <2>2. c = 0 <=> a = 0
    <3> HIDE DEF q, c
    <3> QED
      BY <1>1, <1>2
  <2> HIDE DEF q, c
  <2>3. c \in Nat /\ c <= q + 1 /\ (a % b = 0 => c = q)
    BY <1>1, <1>2
  <2>4. CeilOfFloat(a, b, s, m) = c + IF a % b = 0 /\ FloatRoundsUp(s, m) THEN 1 ELSE 0
    BY DEF CeilOfFloat, c
  <2>5. a = 0 => a % b = 0
    OBVIOUS
  <2> QED
    BY <1>1, <2>1, <2>2, <2>3, <2>4, <2>5
<1> QED
  BY <1>3, <1>4

(* A longer queue has no larger share. *)
LEMMA ShareAntitone ==
  ASSUME NEW m \in Nat, m > 0, NEW q \in Nat, NEW r \in Nat, q <= r, r < m
  PROVE  ShareBelowMax(r, m) <= ShareBelowMax(q, m)
<1> DEFINE a == q * MAX_WT
           b == r * MAX_WT
<1>1. a \in Nat /\ b \in Nat /\ a <= b
  BY WeightBounds
<1>2. a \div m \in Nat /\ b \div m \in Nat /\ a \div m <= b \div m
  <2> DEFINE d == a \div m
             e == b \div m
  <2>1. d \in Nat /\ e \in Nat /\ d * m <= a /\ b < (e + 1) * m
    BY <1>1
  <2> HIDE DEF a, b, d, e
  <2>2. SUFFICES ASSUME d >= e + 1 PROVE FALSE
    BY <2>1 DEF d, e
  <2>3. d * m >= (e + 1) * m
    BY <2>1, <2>2
  <2> QED
    BY <1>1, <2>1, <2>3
<1> QED
  BY <1>2, WeightBounds DEF ShareBelowMax

(* The weight of the longest queue: at most the largest weight; 0 exactly  *)
(* when there are three clusters or more, one of them idle, and the second *)
(* longest queue is shorter and equals the average; and, with the code's   *)
(* least weight, no more than any shorter queue's.                         *)
LEMMA MaxWeight ==
  ASSUME NEW n \in Nat, n > 1, NEW qs \in [1..n -> Nat], Len(qs) = n,
         \A i, j \in 1..n : i < j => qs[i] <= qs[j]
  PROVE  LET w == WeightForMaxQueueCluster(qs)
         IN /\ w \in 0..MAX_WT
            /\ w = 0 <=> /\ n > 2 /\ qs[1] = 0
                         /\ 0 < qs[n - 1] /\ qs[n - 1] < qs[n]
                         /\ qs[n - 1] = QueueSum(qs) \div n
            /\ MIN_WT = 1 =>
                 \A i \in 1..n : qs[i] < qs[n] => w <= ShareBelowMax(qs[i], qs[n])
<1> DEFINE smallest == qs[1]
           longest == qs[n]
           second == IF n > 2 THEN qs[n - 1] ELSE smallest
           wt == ShareBelowMax(second, longest)
           equal == QueueSum(qs) \div n
           over == second < equal \/ (second > equal /\ smallest <= equal)
           w == WeightForMaxQueueCluster(qs)
<1>1. /\ smallest \in Nat /\ longest \in Nat /\ second \in Nat
      /\ smallest <= second /\ second <= longest
  <2>1. n > 2 => qs[1] <= qs[n - 1] /\ qs[n - 1] <= qs[n]
    OBVIOUS
  <2>2. qs[1] <= qs[n]
    OBVIOUS
  <2> QED
    BY <2>1, <2>2
<1>2. \A i \in 1..n : qs[i] \in Nat /\ (qs[i] < longest => qs[i] <= second)
  OBVIOUS
<1>3. equal \in Nat
  <2>1. QueueSum(qs) \in Nat
    BY QueueSumIs
  <2> QED
    BY <2>1, DivNat
<1>4. CASE longest = 0
  <2>1. w = MAX_WT
    BY <1>4 DEF WeightForMaxQueueCluster
  <2>2. \A i \in 1..n : ~(qs[i] < longest)
    BY <1>2, <1>4
  <2>3. n > 2 => ~(qs[n - 1] < qs[n])
    BY <1>1, <1>4
  <2> HIDE DEF w
  <2> QED
    BY <2>1, <2>2, <2>3, WeightBounds DEF w
<1>5. CASE longest # 0 /\ (second = 0 \/ second = longest)
  <2>1. w = MIN_WT
    BY <1>5 DEF WeightForMaxQueueCluster
  <2>2. ASSUME NEW i \in 1..n, qs[i] < longest
        PROVE  ShareBelowMax(qs[i], longest) \in 1..MAX_WT
    BY <1>1, <1>2, <2>2, SharePositive
  <2>3. n > 2 => ~(0 < qs[n - 1] /\ qs[n - 1] < qs[n])
    BY <1>1, <1>5
  <2> HIDE DEF w
  <2> QED
    BY <2>1, <2>2, <2>3, WeightBounds DEF w
<1>6. CASE longest # 0 /\ second # 0 /\ second # longest
  <2> DEFINE linear == smallest * wt
             squared == smallest * smallest * wt
             square == longest * longest
             floor == CeilOfFloat(linear, longest, smallest, longest)
             curve == CeilOfFloat(squared, square, smallest, longest)
  <2>1. w = IF over THEN IF smallest = 0 THEN MIN_WT ELSE curve ELSE floor
    BY <1>6 DEF WeightForMaxQueueCluster
  <2>2. second > 0 /\ second < longest /\ smallest < longest /\ longest > 0
    BY <1>1, <1>6
  <2>3. \A i \in 1..n : qs[i] < longest => wt <= ShareBelowMax(qs[i], longest)
    BY <1>1, <1>2, <2>2, ShareAntitone
  <2>4. wt \in 1..MAX_WT
    <3> HIDE DEF second, longest
    <3> QED
      BY <1>1, <2>2, SharePositive
  <2>5. n = 2 => second = smallest
    OBVIOUS
  <2>6. n > 2 => second = qs[n - 1]
    OBVIOUS
  <2> HIDE DEF smallest, longest, second, wt, equal, over, w
  <2>7. /\ linear \in Nat /\ squared \in Nat /\ square \in Nat /\ square > 0
        /\ linear = 0 <=> smallest = 0
        /\ squared = 0 <=> smallest = 0
        /\ linear < longest * wt
        /\ squared < square * wt
    <3>1. wt \in Nat /\ wt > 0
      BY <2>4, WeightBounds
    <3>2. /\ linear \in Nat /\ (linear = 0 <=> smallest = 0)
          /\ linear < longest * wt
      BY <1>1, <2>2, <3>1
    <3>3. smallest * smallest \in Nat /\ (smallest * smallest = 0 <=> smallest = 0)
      BY <1>1
    <3>4. square \in Nat /\ square > 0 /\ smallest * smallest < square
      BY <1>1, <2>2
    <3>5. ASSUME NEW x \in Nat, NEW y \in Nat, x < y
          PROVE  x * wt \in Nat /\ (x * wt = 0 <=> x = 0) /\ x * wt < y * wt
      BY <3>1, <3>5
    <3>6. squared = (smallest * smallest) * wt
      OBVIOUS
    <3> DEFINE x == smallest * smallest
    <3> HIDE DEF x, square, linear, squared
    <3>7. x \in Nat /\ square \in Nat /\ x < square
      BY <3>3, <3>4 DEF x
    <3>8. x * wt \in Nat /\ (x * wt = 0 <=> x = 0) /\ x * wt < square * wt
      BY <3>5, <3>7
    <3> QED
      BY <3>2, <3>3, <3>4, <3>6, <3>8 DEF x
  <2> HIDE DEF linear, squared, square
  <2>8. wt \in Nat
    BY <2>4, WeightBounds
  <2>9. floor \in 0..wt /\ (floor = 0 <=> smallest = 0)
    <3>1. /\ CeilOfFloat(linear, longest, smallest, longest) \in 0..wt
          /\ CeilOfFloat(linear, longest, smallest, longest) = 0
               <=> linear = 0 /\ ~FloatRoundsUp(smallest, longest)
      BY <1>1, <2>2, <2>7, <2>8, CeilBounds
    <3>2. smallest = 0 => ~FloatRoundsUp(smallest, longest)
      BY DEF FloatRoundsUp
    <3> QED
      BY <2>7, <3>1, <3>2
  <2>10. curve \in 0..wt /\ (curve = 0 => smallest = 0)
    <3>1. /\ CeilOfFloat(squared, square, smallest, longest) \in 0..wt
          /\ CeilOfFloat(squared, square, smallest, longest) = 0
               <=> squared = 0 /\ ~FloatRoundsUp(smallest, longest)
      BY <1>1, <2>2, <2>7, <2>8, CeilBounds
    <3> QED
      BY <2>7, <3>1
  <2> HIDE DEF floor, curve
  <2>11. w \in 0..MAX_WT /\ (MIN_WT = 1 => w <= wt)
    BY <2>1, <2>4, <2>9, <2>10, WeightBounds
  <2>12. w = 0 <=> smallest = 0 /\ ~over
    BY <2>1, <2>9, <2>10, WeightBounds
  <2>13. smallest = 0 => (~over <=> second = equal)
    BY <1>1, <1>3 DEF over
  <2>14. w = 0 <=> /\ n > 2 /\ smallest = 0
                   /\ 0 < second /\ second < longest
                   /\ second = equal
    BY <1>6, <2>2, <2>5, <2>12, <2>13
  <2>15. w = 0 <=> /\ n > 2 /\ qs[1] = 0
                   /\ 0 < qs[n - 1] /\ qs[n - 1] < qs[n]
                   /\ qs[n - 1] = QueueSum(qs) \div n
    BY <2>6, <2>14 DEF smallest, longest, equal
  <2>16. MIN_WT = 1 => \A i \in 1..n : qs[i] < longest => w <= ShareBelowMax(qs[i], longest)
    <3> SUFFICES ASSUME MIN_WT = 1, NEW i \in 1..n, qs[i] < longest
                 PROVE  w <= ShareBelowMax(qs[i], longest)
      OBVIOUS
    <3>1. ShareBelowMax(qs[i], longest) \in 1..MAX_WT
      BY <1>1, <1>2, SharePositive
    <3> QED
      BY <2>3, <2>4, <2>11, <3>1, WeightBounds
  <2> QED
    BY <2>11, <2>15, <2>16 DEF w, longest
<1> QED
  BY <1>4, <1>5, <1>6

-----------------------------------------------------------------------------
(* The table of a group, from its lengths in a sorted order. *)

(* An order lists the clusters of the group, each once, queues ascending. *)
LEMMA OrderLists ==
  ASSUME NEW lengths, IsFiniteSet(DOMAIN lengths), DOMAIN lengths # {},
         \A b \in DOMAIN lengths : lengths[b] \in Nat,
         NEW order \in SortedOrders(lengths)
  PROVE  LET n  == Cardinality(DOMAIN lengths)
             qs == QueuesOf(lengths, order)
         IN /\ n \in Nat \ {0}
            /\ order \in [1..n -> DOMAIN lengths]
            /\ \A i, j \in 1..n : order[i] = order[j] => i = j
            /\ \A b \in DOMAIN lengths : \E i \in 1..n : b = order[i]
            /\ qs \in [1..n -> Nat] /\ Len(qs) = n
            /\ \A i \in 1..n : qs[i] = lengths[order[i]]
            /\ \A i, j \in 1..n : i < j => qs[i] <= qs[j]
<1> DEFINE n  == Cardinality(DOMAIN lengths)
           qs == QueuesOf(lengths, order)
<1>1. n \in Nat \ {0}
  BY FS_CardinalityType, FS_EmptySet
<1>2. order \in [1..n -> DOMAIN lengths]
  BY DEF SortedOrders
<1>3. \A i, j \in 1..n : i < j => order[i] # order[j] /\ lengths[order[i]] <= lengths[order[j]]
  BY DEF SortedOrders
<1>4. \A i \in 1..n : qs[i] = lengths[order[i]]
  BY DEF QueuesOf
<1>5. qs = [i \in 1..n |-> qs[i]]
  BY DEF QueuesOf
<1>6. IsFiniteSet(1..n) /\ Cardinality(1..n) = n
  BY <1>1, FS_Interval
<1> HIDE DEF n, qs
<1>7. \A i, j \in 1..n : order[i] = order[j] => i = j
  BY <1>1, <1>3
<1>8. qs \in [1..n -> Nat]
  BY <1>2, <1>4, <1>5
<1>9. qs \in Seq(Nat) /\ Len(qs) = n
  BY <1>1, <1>8
<1>10. order \in Injection(1..n, DOMAIN lengths)
  BY <1>2, <1>7 DEF Injection, IsInjective
<1>11. order \in Surjection(1..n, DOMAIN lengths)
  BY <1>6, <1>10, FS_Injection DEF n
<1>12. \A b \in DOMAIN lengths : \E i \in 1..n : b = order[i]
  BY <1>11 DEF Surjection
<1>13. \A i, j \in 1..n : i < j => qs[i] <= qs[j]
  BY <1>3, <1>4
<1> QED
  BY <1>1, <1>2, <1>4, <1>7, <1>8, <1>9, <1>12, <1>13, Zenon DEF n, qs

(* The weights, and their running sums, of a group of two or more. *)
LEMMA WeightsAre ==
  ASSUME NEW lengths, IsFiniteSet(DOMAIN lengths), Cardinality(DOMAIN lengths) > 1,
         \A b \in DOMAIN lengths : lengths[b] \in Nat,
         NEW order \in SortedOrders(lengths)
  PROVE  LET n    == Cardinality(DOMAIN lengths)
             qs   == QueuesOf(lengths, order)
             w    == WeightsOf(lengths, order)
             upTo == CumulativeWeights(lengths, order)
         IN /\ w \in [1..n -> 0..MAX_WT]
            /\ \A i \in 1..n : w[i] = IF qs[i] = qs[n] THEN WeightForMaxQueueCluster(qs)
                                      ELSE ShareBelowMax(qs[i], qs[n])
            /\ \A i \in 1..n : qs[i] # qs[n] => w[i] > 0
            /\ upTo \in [0..n -> Nat]
            /\ upTo[0] = 0
            /\ \A i \in 1..n : upTo[i] = upTo[i - 1] + w[i]
            /\ \A i, j \in 0..n : i <= j => upTo[i] <= upTo[j]
<1> DEFINE n    == Cardinality(DOMAIN lengths)
           qs   == QueuesOf(lengths, order)
           w    == WeightsOf(lengths, order)
           upTo == CumulativeWeights(lengths, order)
           maxWt == WeightForMaxQueueCluster(qs)
<1>1. DOMAIN lengths # {}
  BY FS_EmptySet
<1>2. /\ n \in Nat \ {0} /\ n > 1
      /\ qs \in [1..n -> Nat] /\ Len(qs) = n
      /\ \A i, j \in 1..n : i < j => qs[i] <= qs[j]
  BY <1>1, OrderLists
<1>3. w = [i \in 1..n |-> IF qs[i] = qs[n] THEN maxWt ELSE ShareBelowMax(qs[i], qs[n])]
  BY DEF WeightsOf
<1>4. upTo = RunningSums(n, w)
  BY Zenon DEF CumulativeWeights, RunningSums, WeightsOf, QueuesOf
<1> HIDE DEF n, qs, w, upTo
<1>5. maxWt \in 0..MAX_WT
  BY <1>2, MaxWeight
<1> HIDE DEF maxWt
<1>6. ASSUME NEW i \in 1..n
      PROVE  /\ w[i] = IF qs[i] = qs[n] THEN maxWt ELSE ShareBelowMax(qs[i], qs[n])
             /\ w[i] \in 0..MAX_WT
             /\ qs[i] # qs[n] => w[i] > 0
  <2>1. w[i] = IF qs[i] = qs[n] THEN maxWt ELSE ShareBelowMax(qs[i], qs[n])
    BY <1>3
  <2>2. CASE qs[i] = qs[n]
    BY <1>5, <2>1, <2>2
  <2>3. CASE qs[i] # qs[n]
    <3>1. qs[i] \in Nat /\ qs[n] \in Nat /\ qs[i] < qs[n]
      BY <1>2, <2>3
    <3>2. ShareBelowMax(qs[i], qs[n]) \in 1..MAX_WT
      BY <3>1, SharePositive
    <3> QED
      BY <2>1, <2>3, <3>2, WeightBounds
  <2> QED
    BY <2>1, <2>2, <2>3
<1>7. w \in [1..n -> 0..MAX_WT]
  <2>1. w = [i \in 1..n |-> w[i]]
    BY <1>3
  <2> QED
    BY <1>6, <2>1
<1>8. w \in [1..n -> Nat]
  BY <1>7, WeightBounds
<1>9. /\ upTo \in [0..n -> Nat]
      /\ upTo[0] = 0
      /\ \A i \in 1..n : upTo[i] = upTo[i - 1] + w[i]
  BY <1>2, <1>4, <1>8, SumsSolved
<1>10. \A i, j \in 0..n : i <= j => upTo[i] <= upTo[j]
  <2> SUFFICES ASSUME NEW i \in 0..n, NEW j \in 0..n, i <= j
               PROVE  upTo[i] <= upTo[j]
    OBVIOUS
  <2>1. \A k \in i..n : upTo[k] >= upTo[i]
    BY <1>2, <1>8, <1>9, SumsGrow
  <2>2. j \in i..n /\ upTo[i] \in Nat /\ upTo[j] \in Nat
    BY <1>2, <1>9
  <2> QED
    BY <2>1, <2>2
<1> QED
  BY <1>6, <1>7, <1>9, <1>10 DEF n, qs, w, upTo, maxWt

(* The sum of a group's weights is positive, and its table has natural     *)
(* keys: for lengths of any size, in any sorted order.                     *)
LEMMA TotalPositive ==
  ASSUME NEW lengths, IsFiniteSet(DOMAIN lengths), DOMAIN lengths # {},
         \A b \in DOMAIN lengths : lengths[b] \in Nat,
         NEW order \in SortedOrders(lengths)
  PROVE  /\ GroupSum(lengths, order) \in Nat \ {0}
         /\ DOMAIN GroupTable(lengths, order) \subseteq Nat
<1> DEFINE n    == Cardinality(DOMAIN lengths)
           qs   == QueuesOf(lengths, order)
           w    == WeightsOf(lengths, order)
           upTo == CumulativeWeights(lengths, order)
<1>1. /\ n \in Nat \ {0}
      /\ qs \in [1..n -> Nat] /\ Len(qs) = n
      /\ \A i, j \in 1..n : i < j => qs[i] <= qs[j]
  BY OrderLists
<1>2. CASE n = 1
  BY <1>2, WeightBounds DEF GroupTable, GroupSum
<1>3. CASE n # 1
  <2>1. n > 1
    BY <1>1, <1>3
  <2>2. /\ w \in [1..n -> 0..MAX_WT]
        /\ \A i \in 1..n : w[i] = IF qs[i] = qs[n] THEN WeightForMaxQueueCluster(qs)
                                  ELSE ShareBelowMax(qs[i], qs[n])
        /\ \A i \in 1..n : qs[i] # qs[n] => w[i] > 0
        /\ upTo \in [0..n -> Nat]
        /\ upTo[0] = 0
        /\ \A i \in 1..n : upTo[i] = upTo[i - 1] + w[i]
        /\ \A i, j \in 0..n : i <= j => upTo[i] <= upTo[j]
    BY <2>1, WeightsAre
  <2>3. GroupSum(lengths, order) = upTo[n]
    BY <1>3 DEF GroupSum
  <2>4. DOMAIN GroupTable(lengths, order) = {upTo[i] : i \in 1..n}
    BY <1>3 DEF GroupTable
  <2> HIDE DEF n, qs, w, upTo
  <2>5. w[1] > 0 \/ w[n] > 0
    <3>1. CASE qs[1] # qs[n]
      BY <2>1, <2>2, <3>1, <1>1
    <3>2. CASE qs[1] = qs[n]
      <4>1. ~(qs[n - 1] < qs[n])
        BY <1>1, <2>1, <3>2
      <4>2. WeightForMaxQueueCluster(qs) # 0
        BY <1>1, <2>1, <4>1, MaxWeight
      <4>3. w[n] = WeightForMaxQueueCluster(qs) /\ w[n] \in 0..MAX_WT
        BY <1>1, <2>2
      <4> QED
        BY <4>2, <4>3, WeightBounds
    <3> QED
      BY <3>1, <3>2
  <2>6. upTo[n] > 0
    <3>1. upTo[1] = upTo[0] + w[1] /\ upTo[n] = upTo[n - 1] + w[n] /\ upTo[1] <= upTo[n]
      <4>1. 1 \in 1..n /\ n \in 1..n /\ 1 - 1 = 0 /\ 1 \in 0..n /\ n \in 0..n
        BY <2>1, <1>1
      <4> QED
        BY <2>2, <4>1, <2>1
    <3>2. upTo[n] \in Nat /\ upTo[n - 1] \in Nat /\ w[1] \in Nat /\ w[n] \in Nat
      BY <1>1, <2>1, <2>2
    <3> QED
      BY <2>2, <2>5, <3>1, <3>2
  <2> QED
    BY <1>1, <2>2, <2>3, <2>4, <2>6
<1> QED
  BY <1>2, <1>3

(* higherEntry finds an entry for every draw below a key. *)
LEMMA EntryAbove ==
  ASSUME NEW table, DOMAIN table \subseteq Nat, NEW sum \in DOMAIN table,
         NEW rnd \in Nat, rnd < sum
  PROVE  HigherEntry(table, rnd) # {}
<1> DEFINE Above == {k \in DOMAIN table : k > rnd}
<1>1. Above \subseteq Nat /\ Above # {}
  OBVIOUS
<1>2. PICK k \in Above : \A other \in Above : ~(<<other, k>> \in OpToRel(<, Nat))
  <2> HIDE DEF Above
  <2> QED
    BY <1>1, NatLessThanWellFounded, WFMin
<1>3. ASSUME NEW other \in Above PROVE k <= other
  <2> SUFFICES ASSUME other < k PROVE FALSE
    BY <1>1
  <2>1. other \in Nat /\ k \in Nat
    BY <1>1
  <2>2. <<other, k>> \in OpToRel(<, Nat)
    BY <2>1, Zenon DEF OpToRel
  <2> QED
    BY <1>2, <1>3, <2>2
<1>4. table[k] \in HigherEntry(table, rnd)
  BY <1>3 DEF HigherEntry
<1> QED
  BY <1>4

-----------------------------------------------------------------------------
(* Who gets which draws. *)

(* The entry under a running sum is the last cluster that was put there. *)
LEMMA LastPutStays ==
  ASSUME NEW lengths, IsFiniteSet(DOMAIN lengths), Cardinality(DOMAIN lengths) > 1,
         NEW order
  PROVE  LET n       == Cardinality(DOMAIN lengths)
             upTo    == CumulativeWeights(lengths, order)
             entries == GroupTable(lengths, order)
         IN /\ DOMAIN entries = {upTo[i] : i \in 1..n}
            /\ \A i \in 1..n : \E j \in 1..n :
                 /\ i <= j /\ upTo[j] = upTo[i] /\ entries[upTo[i]] = order[j]
                 /\ \A k \in 1..n : upTo[k] = upTo[i] => k <= j
<1> DEFINE n       == Cardinality(DOMAIN lengths)
           upTo    == CumulativeWeights(lengths, order)
           entries == GroupTable(lengths, order)
           Last(key, i) == upTo[i] = key /\ \A j \in 1..n : upTo[j] = key => j <= i
           last(key) == CHOOSE i \in 1..n : Last(key, i)
           keys == {upTo[i] : i \in 1..n}
<1>1. n \in Nat /\ n > 1
  BY FS_CardinalityType
<1>2. entries = [key \in keys |-> order[last(key)]]
  BY <1>1 DEF GroupTable
<1> HIDE DEF n, upTo, entries
<1>3. ASSUME NEW i \in 1..n
      PROVE  \E j \in 1..n : Last(upTo[i], j)
  <2> DEFINE at == {j \in 1..n : upTo[j] = upTo[i]}
  <2>1. at \subseteq 1..n /\ at # {}
    OBVIOUS
  <2>2. PICK j \in at : \A k \in at : k <= j
    BY <1>1, <2>1, LargestNatural
  <2> QED
    BY <2>2
<1>4. ASSUME NEW i \in 1..n
      PROVE  last(upTo[i]) \in 1..n /\ Last(upTo[i], last(upTo[i]))
  <2> HIDE DEF Last
  <2> QED
    BY <1>3
<1>5. ASSUME NEW i \in 1..n
      PROVE  \E j \in 1..n : /\ i <= j /\ upTo[j] = upTo[i] /\ entries[upTo[i]] = order[j]
                             /\ \A k \in 1..n : upTo[k] = upTo[i] => k <= j
  <2> DEFINE j == last(upTo[i])
  <2>1. j \in 1..n /\ Last(upTo[i], j)
    BY <1>4
  <2>2. upTo[i] \in keys
    OBVIOUS
  <2>3. entries[upTo[i]] = order[j]
    <3> HIDE DEF last, keys
    <3> QED
      BY <1>2, <2>2
  <2> HIDE DEF j
  <2> QED
    BY <2>1, <2>3
<1> QED
  BY <1>2, <1>5 DEF n, upTo, entries

(* One cluster is left without an entry if the longest queue has weight 0, *)
(* the one with the second longest queue; and none otherwise.              *)
LEMMA WhoStarves ==
  ASSUME NEW lengths, IsFiniteSet(DOMAIN lengths), Cardinality(DOMAIN lengths) > 1,
         \A b \in DOMAIN lengths : lengths[b] \in Nat,
         NEW order \in SortedOrders(lengths)
  PROVE  LET n       == Cardinality(DOMAIN lengths)
             entries == GroupTable(lengths, order)
             upTo    == CumulativeWeights(lengths, order)
             starved == DOMAIN lengths \ {entries[key] : key \in DOMAIN entries}
         IN IF WeightForMaxQueueCluster(QueuesOf(lengths, order)) = 0
            THEN starved = {order[n - 1]}
            ELSE /\ starved = {}
                 /\ \A i, k \in 1..n : i < k => upTo[i] < upTo[k]
<1> DEFINE n       == Cardinality(DOMAIN lengths)
           entries == GroupTable(lengths, order)
           qs      == QueuesOf(lengths, order)
           w       == WeightsOf(lengths, order)
           upTo    == CumulativeWeights(lengths, order)
           maxWt   == WeightForMaxQueueCluster(qs)
           fed     == {entries[key] : key \in DOMAIN entries}
<1>1. DOMAIN lengths # {}
  BY FS_EmptySet
<1>2. /\ n \in Nat \ {0}
      /\ order \in [1..n -> DOMAIN lengths]
      /\ \A i, j \in 1..n : order[i] = order[j] => i = j
      /\ \A b \in DOMAIN lengths : \E i \in 1..n : b = order[i]
      /\ qs \in [1..n -> Nat] /\ Len(qs) = n
      /\ \A i, j \in 1..n : i < j => qs[i] <= qs[j]
  BY <1>1, OrderLists
<1>3. n > 1
  OBVIOUS
<1>4. /\ w \in [1..n -> 0..MAX_WT]
      /\ \A i \in 1..n : w[i] = IF qs[i] = qs[n] THEN maxWt ELSE ShareBelowMax(qs[i], qs[n])
      /\ \A i \in 1..n : qs[i] # qs[n] => w[i] > 0
      /\ upTo \in [0..n -> Nat]
      /\ upTo[0] = 0
      /\ \A i \in 1..n : upTo[i] = upTo[i - 1] + w[i]
      /\ \A i, j \in 0..n : i <= j => upTo[i] <= upTo[j]
  BY WeightsAre
<1>5. /\ DOMAIN entries = {upTo[i] : i \in 1..n}
      /\ \A i \in 1..n : \E j \in 1..n :
           /\ i <= j /\ upTo[j] = upTo[i] /\ entries[upTo[i]] = order[j]
           /\ \A k \in 1..n : upTo[k] = upTo[i] => k <= j
  BY LastPutStays
<1> HIDE DEF n, entries, qs, w, upTo
<1>6. maxWt = 0 => qs[n - 1] < qs[n]
  BY <1>2, <1>3, MaxWeight
<1>7. maxWt \in 0..MAX_WT
  BY <1>2, <1>3, MaxWeight
<1> HIDE DEF maxWt
<1>8. ASSUME NEW i \in 1..n
      PROVE  order[i] \in fed <=> \A k \in 1..n : upTo[k] = upTo[i] => k <= i
  <2>1. ASSUME order[i] \in fed
        PROVE  \A k \in 1..n : upTo[k] = upTo[i] => k <= i
    <3>1. PICK h \in 1..n : order[i] = entries[upTo[h]]
      BY <1>5, <2>1
    <3>2. PICK j \in 1..n : /\ upTo[j] = upTo[h] /\ entries[upTo[h]] = order[j]
                            /\ \A k \in 1..n : upTo[k] = upTo[h] => k <= j
      BY <1>5
    <3>3. i = j
      BY <1>2, <3>1, <3>2
    <3> QED
      BY <3>2, <3>3
  <2>2. ASSUME \A k \in 1..n : upTo[k] = upTo[i] => k <= i
        PROVE  order[i] \in fed
    <3>1. PICK j \in 1..n : i <= j /\ upTo[j] = upTo[i] /\ entries[upTo[i]] = order[j]
      BY <1>5
    <3>2. i = j
      BY <2>2, <3>1
    <3>3. upTo[i] \in DOMAIN entries
      BY <1>5
    <3> QED
      BY <3>1, <3>2, <3>3
  <2> QED
    BY <2>1, <2>2
<1>9. ASSUME NEW i \in 1..n, NEW k \in 1..n, i < k, upTo[k] = upTo[i]
      PROVE  w[k] = 0 /\ (i < k - 1 => w[k - 1] = 0)
  <2>1. k - 1 \in 0..n /\ i \in 0..n /\ k \in 0..n /\ i <= k - 1
    BY <1>2, <1>9
  <2>2. upTo[i] <= upTo[k - 1] /\ upTo[k] = upTo[k - 1] + w[k]
    BY <1>4, <2>1
  <2>3. upTo[i] \in Nat /\ upTo[k - 1] \in Nat /\ w[k] \in Nat
    BY <1>4, <2>1, WeightBounds
  <2>4. w[k] = 0 /\ upTo[k - 1] = upTo[i]
    BY <1>9, <2>2, <2>3
  <2>5. ASSUME i < k - 1
        PROVE  w[k - 1] = 0
    <3>1. k - 1 \in 1..n /\ k - 2 \in 0..n /\ (k - 1) - 1 = k - 2 /\ i <= k - 2
      BY <1>2, <2>5
    <3>2. upTo[i] <= upTo[k - 2] /\ upTo[k - 1] = upTo[k - 2] + w[k - 1]
      <4>1. upTo[i] <= upTo[k - 2]
        BY <1>4, <2>1, <3>1
      <4>2. upTo[k - 1] = upTo[(k - 1) - 1] + w[k - 1]
        BY <1>4, <3>1
      <4> QED
        BY <3>1, <4>1, <4>2
    <3>3. upTo[k - 2] \in Nat /\ w[k - 1] \in Nat
      <4>1. upTo[k - 2] \in Nat
        BY <1>4, <3>1
      <4>2. w[k - 1] \in 0..MAX_WT
        BY <1>4, <3>1
      <4> QED
        BY <4>1, <4>2, WeightBounds
    <3> QED
      BY <2>3, <2>4, <3>2, <3>3
  <2> QED
    BY <2>4, <2>5
<1>10. ASSUME NEW k \in 1..n, w[k] = 0
       PROVE  k = n /\ maxWt = 0
  <2>1. qs[k] = qs[n]
    BY <1>4, <1>10
  <2>2. maxWt = 0
    BY <1>4, <1>10, <2>1
  <2>3. k = n
    <3> SUFFICES ASSUME k # n PROVE FALSE
      OBVIOUS
    <3>1. k <= n - 1 /\ n - 1 \in 1..n
      BY <1>2, <1>3
    <3>2. qs[k] <= qs[n - 1]
      BY <1>2, <3>1
    <3> QED
      BY <1>2, <1>3, <1>6, <2>1, <2>2, <3>1, <3>2
  <2> QED
    BY <2>2, <2>3
<1>11. ASSUME NEW i \in 1..n, NEW k \in 1..n, i < k, upTo[k] = upTo[i]
       PROVE  maxWt = 0 /\ i = n - 1
  <2>1. k = n /\ maxWt = 0
    BY <1>9, <1>10, <1>11
  <2>2. ~(i < k - 1)
    <3> SUFFICES ASSUME i < k - 1 PROVE FALSE
      OBVIOUS
    <3>1. w[k - 1] = 0 /\ k - 1 \in 1..n
      BY <1>2, <1>9, <1>11
    <3>2. k - 1 = n
      BY <1>10, <3>1
    <3> QED
      BY <1>2, <3>2
  <2> QED
    BY <1>2, <1>11, <2>1, <2>2
<1>12. CASE maxWt = 0
  <2>1. n - 1 \in 1..n /\ n \in 1..n
    BY <1>2, <1>3
  <2>2. upTo[n] = upTo[n - 1]
    <3>1. w[n] = 0
      BY <1>4, <1>12, <2>1
    <3>2. upTo[n] = upTo[n - 1] + w[n] /\ upTo[n - 1] \in Nat
      BY <1>4, <2>1
    <3> QED
      BY <3>1, <3>2
  <2>3. order[n - 1] \notin fed
    BY <1>2, <1>8, <2>1, <2>2
  <2>4. \A i \in 1..n : i # n - 1 => order[i] \in fed
    BY <1>8, <1>11
  <2>5. DOMAIN lengths \ fed = {order[n - 1]}
    BY <1>2, <2>1, <2>3, <2>4
  <2> QED
    BY <1>12, <2>5 DEF maxWt, qs, n, entries
<1>13. CASE maxWt # 0
  <2>1. \A i, k \in 1..n : i < k => upTo[i] < upTo[k]
    <3> SUFFICES ASSUME NEW i \in 1..n, NEW k \in 1..n, i < k
                 PROVE  upTo[i] < upTo[k]
      OBVIOUS
    <3>1. i \in 0..n /\ k \in 0..n
      BY <1>2
    <3>2. upTo[i] <= upTo[k] /\ upTo[i] \in Nat /\ upTo[k] \in Nat
      BY <1>4, <3>1
    <3>3. upTo[k] # upTo[i]
      BY <1>11, <1>13
    <3> QED
      BY <3>2, <3>3
  <2>2. \A i \in 1..n : order[i] \in fed
    <3> SUFFICES ASSUME NEW i \in 1..n PROVE order[i] \in fed
      OBVIOUS
    <3>1. \A k \in 1..n : upTo[k] = upTo[i] => k <= i
      BY <1>2, <1>11, <1>13
    <3> QED
      BY <1>8, <3>1
  <2>3. DOMAIN lengths \ fed = {}
    BY <1>2, <2>2
  <2> QED
    BY <1>13, <2>1, <2>3 DEF maxWt, qs, n, entries, upTo
<1> QED
  BY <1>12, <1>13

(* When no entry was replaced, a cluster gets as many draws as it weighs. *)
LEMMA SharesAreWeights ==
  ASSUME NEW lengths, IsFiniteSet(DOMAIN lengths), Cardinality(DOMAIN lengths) > 1,
         \A b \in DOMAIN lengths : lengths[b] \in Nat,
         NEW order \in SortedOrders(lengths),
         WeightForMaxQueueCluster(QueuesOf(lengths, order)) # 0,
         NEW i \in 1..Cardinality(DOMAIN lengths)
  PROVE  LET entries == GroupTable(lengths, order)
             draws   == {rnd \in 0..(GroupSum(lengths, order) - 1) :
                           order[i] \in HigherEntry(entries, rnd)}
         IN Cardinality(draws) = WeightsOf(lengths, order)[i]
<1> DEFINE n       == Cardinality(DOMAIN lengths)
           entries == GroupTable(lengths, order)
           total   == GroupSum(lengths, order)
           w       == WeightsOf(lengths, order)
           upTo    == CumulativeWeights(lengths, order)
           draws   == {rnd \in 0..(total - 1) : order[i] \in HigherEntry(entries, rnd)}
<1>1. DOMAIN lengths # {}
  BY FS_EmptySet
<1>2. /\ n \in Nat \ {0} /\ n > 1
      /\ \A j, k \in 1..n : order[j] = order[k] => j = k
  BY <1>1, OrderLists
<1>3. /\ w \in [1..n -> 0..MAX_WT]
      /\ upTo \in [0..n -> Nat]
      /\ upTo[0] = 0
      /\ \A j \in 1..n : upTo[j] = upTo[j - 1] + w[j]
      /\ \A j, k \in 0..n : j <= k => upTo[j] <= upTo[k]
  BY WeightsAre
<1>4. /\ DOMAIN entries = {upTo[j] : j \in 1..n}
      /\ \A j \in 1..n : \E k \in 1..n :
           /\ j <= k /\ upTo[k] = upTo[j] /\ entries[upTo[j]] = order[k]
           /\ \A h \in 1..n : upTo[h] = upTo[j] => h <= k
  BY LastPutStays
<1>5. \A j, k \in 1..n : j < k => upTo[j] < upTo[k]
  BY WhoStarves
<1>6. total = upTo[n]
  BY <1>2 DEF GroupSum
<1>7. i \in 1..n
  OBVIOUS
<1> HIDE DEF n, entries, total, w, upTo
<1>8. \A j \in 1..n : upTo[j] \in Nat /\ upTo[j - 1] \in Nat /\ w[j] \in Nat
  <2> SUFFICES ASSUME NEW j \in 1..n
               PROVE  upTo[j] \in Nat /\ upTo[j - 1] \in Nat /\ w[j] \in Nat
    OBVIOUS
  <2>1. j \in 0..n /\ j - 1 \in 0..n
    BY <1>2
  <2>2. w[j] \in 0..MAX_WT
    BY <1>3
  <2> QED
    BY <1>3, <2>1, <2>2, WeightBounds
<1>9. \A j \in 1..n : entries[upTo[j]] = order[j]
  <2> SUFFICES ASSUME NEW j \in 1..n PROVE entries[upTo[j]] = order[j]
    OBVIOUS
  <2>1. PICK k \in 1..n : j <= k /\ upTo[k] = upTo[j] /\ entries[upTo[j]] = order[k]
    BY <1>4
  <2>2. j = k
    BY <1>2, <1>5, <1>8, <2>1
  <2> QED
    BY <2>1, <2>2
<1>10. ASSUME NEW rnd \in Nat
       PROVE  order[i] \in HigherEntry(entries, rnd) <=> upTo[i - 1] <= rnd /\ rnd < upTo[i]
  <2>1. ASSUME order[i] \in HigherEntry(entries, rnd)
        PROVE  upTo[i - 1] <= rnd /\ rnd < upTo[i]
    <3>1. PICK key \in DOMAIN entries : /\ order[i] = entries[key] /\ key > rnd
                                        /\ \A other \in DOMAIN entries : other > rnd => key <= other
      BY <2>1 DEF HigherEntry
    <3>2. PICK j \in 1..n : key = upTo[j]
      BY <1>4, <3>1
    <3>3. i = j
      BY <1>2, <1>7, <1>9, <3>1, <3>2
    <3>4. rnd < upTo[i]
      BY <1>7, <1>8, <3>1, <3>2, <3>3
    <3>5. CASE i = 1
      BY <1>3, <3>4, <3>5
    <3>6. CASE i # 1
      <4>1. i - 1 \in 1..n /\ i - 1 < i
        BY <1>2, <1>7, <3>6
      <4>2. upTo[i - 1] < upTo[i] /\ upTo[i - 1] \in DOMAIN entries
        BY <1>4, <1>5, <1>7, <4>1
      <4>3. upTo[i - 1] \in Nat /\ upTo[i] \in Nat
        BY <1>7, <1>8
      <4>4. upTo[i - 1] > rnd => upTo[i] <= upTo[i - 1]
        BY <3>1, <3>2, <3>3, <4>2
      <4> QED
        BY <3>4, <4>2, <4>3, <4>4
    <3> QED
      BY <3>5, <3>6
  <2>2. ASSUME upTo[i - 1] <= rnd, rnd < upTo[i]
        PROVE  order[i] \in HigherEntry(entries, rnd)
    <3>1. ASSUME NEW k \in 1..n, upTo[k] > rnd
          PROVE  upTo[i] <= upTo[k]
      <4>1. ~(k <= i - 1)
        <5> SUFFICES ASSUME k <= i - 1 PROVE FALSE
          OBVIOUS
        <5>1. k \in 0..n /\ i - 1 \in 0..n
          BY <1>2, <1>7
        <5>2. upTo[k] <= upTo[i - 1]
          BY <1>3, <5>1
        <5>3. upTo[k] \in Nat /\ upTo[i - 1] \in Nat
          BY <1>7, <1>8
        <5> QED
          BY <2>2, <3>1, <5>2, <5>3
      <4>2. i <= k /\ i \in 0..n /\ k \in 0..n
        BY <1>2, <1>7, <4>1
      <4> QED
        BY <1>3, <4>2
    <3>2. upTo[i] \in DOMAIN entries /\ upTo[i] > rnd /\ entries[upTo[i]] = order[i]
      BY <1>4, <1>7, <1>8, <1>9, <2>2
    <3>3. \A other \in DOMAIN entries : other > rnd => upTo[i] <= other
      BY <1>4, <3>1
    <3> QED
      BY <3>2, <3>3 DEF HigherEntry
  <2> QED
    BY <2>1, <2>2
<1>11. upTo[i] <= upTo[n] /\ upTo[n] \in Nat
  <2>1. i \in 0..n /\ n \in 0..n /\ i <= n
    BY <1>2, <1>7
  <2> QED
    BY <1>3, <2>1
<1>12. draws = upTo[i - 1]..(upTo[i] - 1)
  <2>1. upTo[i - 1] \in Nat /\ upTo[i] \in Nat
    BY <1>7, <1>8
  <2>2. \A rnd \in 0..(total - 1) : rnd \in Nat
    BY <1>6, <1>11
  <2>3. ASSUME NEW rnd \in upTo[i - 1]..(upTo[i] - 1)
        PROVE  rnd \in 0..(total - 1) /\ upTo[i - 1] <= rnd /\ rnd < upTo[i]
    BY <1>6, <1>11, <2>1
  <2>4. ASSUME NEW rnd \in Nat, upTo[i - 1] <= rnd, rnd < upTo[i]
        PROVE  rnd \in upTo[i - 1]..(upTo[i] - 1)
    BY <2>1, <2>4
  <2> QED
    BY <1>10, <2>2, <2>3, <2>4
<1>13. Cardinality(upTo[i - 1]..(upTo[i] - 1)) = w[i]
  <2>1. upTo[i - 1] \in Nat /\ upTo[i] \in Nat /\ w[i] \in Nat /\ upTo[i] = upTo[i - 1] + w[i]
    BY <1>3, <1>7, <1>8
  <2>2. upTo[i] - 1 \in Int /\ upTo[i - 1] \in Int
    BY <2>1
  <2>3. Cardinality(upTo[i - 1]..(upTo[i] - 1))
          = IF upTo[i - 1] > upTo[i] - 1 THEN 0 ELSE (upTo[i] - 1) - upTo[i - 1] + 1
    BY <2>2, FS_Interval
  <2> QED
    BY <2>1, <2>3
<1>14. Cardinality(draws) = w[i]
  BY <1>12, <1>13
<1> QED
  BY <1>14 DEF entries, total, w

(* With the code's least weight a longer queue has no larger weight. *)
LEMMA WeightsDescend ==
  ASSUME MIN_WT = 1,
         NEW lengths, IsFiniteSet(DOMAIN lengths), Cardinality(DOMAIN lengths) > 1,
         \A b \in DOMAIN lengths : lengths[b] \in Nat,
         NEW order \in SortedOrders(lengths),
         NEW i \in 1..Cardinality(DOMAIN lengths), NEW j \in 1..Cardinality(DOMAIN lengths),
         lengths[order[i]] <= lengths[order[j]]
  PROVE  WeightsOf(lengths, order)[i] >= WeightsOf(lengths, order)[j]
<1> DEFINE n     == Cardinality(DOMAIN lengths)
           qs    == QueuesOf(lengths, order)
           w     == WeightsOf(lengths, order)
           maxWt == WeightForMaxQueueCluster(qs)
<1>1. DOMAIN lengths # {}
  BY FS_EmptySet
<1>2. /\ n \in Nat \ {0} /\ n > 1
      /\ qs \in [1..n -> Nat] /\ Len(qs) = n
      /\ \A h \in 1..n : qs[h] = lengths[order[h]]
      /\ \A h, k \in 1..n : h < k => qs[h] <= qs[k]
  BY <1>1, OrderLists
<1>3. /\ w \in [1..n -> 0..MAX_WT]
      /\ \A h \in 1..n : w[h] = IF qs[h] = qs[n] THEN maxWt ELSE ShareBelowMax(qs[h], qs[n])
  BY WeightsAre
<1>4. i \in 1..n /\ j \in 1..n
  OBVIOUS
<1>5. qs[i] <= qs[j]
  BY <1>2
<1> HIDE DEF n, qs, w
<1>6. \A h \in 1..n : qs[h] < qs[n] => maxWt <= ShareBelowMax(qs[h], qs[n])
  BY <1>2, MaxWeight
<1> HIDE DEF maxWt
<1>7. /\ qs[i] \in Nat /\ qs[j] \in Nat /\ qs[n] \in Nat /\ qs[j] <= qs[n]
      /\ w[i] \in Nat /\ w[j] \in Nat
  BY <1>2, <1>3, <1>4, WeightBounds
<1>8. w[i] >= w[j]
  <2>1. CASE qs[i] = qs[n]
    <3>1. qs[j] = qs[n]
      BY <1>5, <1>7, <2>1
    <3> QED
      BY <1>3, <1>4, <1>7, <2>1, <3>1
  <2>2. CASE qs[i] # qs[n] /\ qs[j] = qs[n]
    BY <1>3, <1>4, <1>5, <1>6, <1>7, <2>2
  <2>3. CASE qs[i] # qs[n] /\ qs[j] # qs[n]
    <3>1. qs[j] < qs[n] /\ qs[n] > 0
      BY <1>7, <2>3
    <3>2. ShareBelowMax(qs[j], qs[n]) <= ShareBelowMax(qs[i], qs[n])
      BY <1>5, <1>7, <3>1, ShareAntitone
    <3> QED
      BY <1>3, <1>4, <1>7, <2>3, <3>2
  <2> QED
    BY <2>1, <2>2, <2>3
<1> QED
  BY <1>8 DEF w

(* The sum of the lengths in whatever order is the number of queries. *)
LEMMA SumCountsQueries ==
  ASSUME NEW lengths, IsFiniteSet(DOMAIN lengths), DOMAIN lengths # {},
         \A b \in DOMAIN lengths : lengths[b] \in Nat,
         NEW order \in SortedOrders(lengths)
  PROVE  QueueSum(QueuesOf(lengths, order))
           = Cardinality(UNION {{c} \X (1..lengths[c]) : c \in DOMAIN lengths})
<1> DEFINE n  == Cardinality(DOMAIN lengths)
           qs == QueuesOf(lengths, order)
           Of(i) == {order[i]} \X (1..qs[i])
           Count(k) == UNION {Of(i) : i \in 1..k}
<1>1. /\ n \in Nat \ {0}
      /\ order \in [1..n -> DOMAIN lengths]
      /\ \A i, j \in 1..n : order[i] = order[j] => i = j
      /\ \A b \in DOMAIN lengths : \E i \in 1..n : b = order[i]
      /\ qs \in [1..n -> Nat] /\ Len(qs) = n
      /\ \A i \in 1..n : qs[i] = lengths[order[i]]
  BY OrderLists
<1> HIDE DEF n, qs
<1>2. PICK upTo \in [0..n -> Nat] : /\ upTo[0] = 0
                                    /\ \A i \in 1..n : upTo[i] = upTo[i - 1] + qs[i]
                                    /\ QueueSum(qs) = upTo[n]
  <2>1. n \in Nat /\ qs \in [1..n -> Nat] /\ Len(qs) = n
    BY <1>1
  <2> QED
    BY <2>1, QueueSumIs
<1>3. ASSUME NEW i \in 1..n
      PROVE  IsFiniteSet(Of(i)) /\ Cardinality(Of(i)) = qs[i]
  <2>1. IsFiniteSet({order[i]}) /\ Cardinality({order[i]}) = 1
    BY FS_Singleton
  <2>2. qs[i] \in Nat
    BY <1>1
  <2>3. IsFiniteSet(1..qs[i]) /\ Cardinality(1..qs[i]) = qs[i]
    <3>1. ASSUME NEW q \in Nat
          PROVE  IsFiniteSet(1..q) /\ Cardinality(1..q) = q
      <4>1. 1 \in Int /\ q \in Int
        OBVIOUS
      <4>2. IsFiniteSet(1..q) /\ Cardinality(1..q) = IF 1 > q THEN 0 ELSE q - 1 + 1
        BY <4>1, FS_Interval
      <4> QED
        BY <4>2
    <3> QED
      BY <2>2, <3>1
  <2>4. IsFiniteSet(Of(i)) /\ Cardinality(Of(i)) = 1 * qs[i]
    <3>1. ASSUME NEW A, NEW B, IsFiniteSet(A), IsFiniteSet(B)
          PROVE  IsFiniteSet(A \X B) /\ Cardinality(A \X B) = Cardinality(A) * Cardinality(B)
      BY <3>1, FS_Product
    <3> DEFINE A == {order[i]}
               B == 1..qs[i]
    <3>2. Of(i) = A \X B
      OBVIOUS
    <3> HIDE DEF A, B
    <3>3. IsFiniteSet(A \X B) /\ Cardinality(A \X B) = Cardinality(A) * Cardinality(B)
      BY <2>1, <2>3, <3>1 DEF A, B
    <3>4. Cardinality(A) = 1 /\ Cardinality(B) = qs[i]
      BY <2>1, <2>3 DEF A, B
    <3> HIDE DEF Of
    <3> QED
      BY <3>2, <3>3, <3>4, Zenon
  <2> QED
    BY <2>2, <2>4
<1> DEFINE S == {k \in Nat : k > n \/ (IsFiniteSet(Count(k)) /\ Cardinality(Count(k)) = upTo[k])}
<1>4. 0 \in S
  <2>1. Count(0) = {}
    OBVIOUS
  <2> HIDE DEF Count
  <2> QED
    BY <1>2, <2>1, FS_EmptySet
<1>5. ASSUME NEW k \in Nat, k \in S
      PROVE  k + 1 \in S
  <2>1. CASE k + 1 > n
    BY <2>1
  <2>2. CASE k + 1 <= n
    <3>1. k + 1 \in 1..n /\ (k + 1) - 1 = k /\ 1..(k + 1) = (1..k) \cup {k + 1} /\ k \in 0..n
      <4>1. \A m \in Nat : k + 1 <= m => k + 1 \in 1..m /\ k \in 0..m
        OBVIOUS
      <4>2. (k + 1) - 1 = k
        OBVIOUS
      <4>3. 1..(k + 1) = (1..k) \cup {k + 1}
        <5>1. \A x : x \in 1..(k + 1) <=> x \in 1..k \/ x = k + 1
          OBVIOUS
        <5> QED
          BY <5>1, Zenon
      <4>4. n \in Nat
        BY <1>1
      <4> QED
        BY <2>2, <4>1, <4>2, <4>3, <4>4
    <3>2. IsFiniteSet(Count(k)) /\ Cardinality(Count(k)) = upTo[k]
      BY <1>1, <1>5, <2>2
    <3>3. Count(k + 1) = Count(k) \cup Of(k + 1)
      BY <3>1
    <3>4. Count(k) \cap Of(k + 1) = {}
      <4> SUFFICES ASSUME NEW x \in Count(k), x \in Of(k + 1) PROVE FALSE
        OBVIOUS
      <4>1. PICK i \in 1..k : x \in Of(i)
        OBVIOUS
      <4>2. x[1] = order[i] /\ x[1] = order[k + 1]
        BY <4>1
      <4>3. i \in 1..n /\ i # k + 1
        BY <1>1, <2>2
      <4> QED
        BY <1>1, <3>1, <4>2, <4>3
    <3>5. IsFiniteSet(Of(k + 1)) /\ Cardinality(Of(k + 1)) = qs[k + 1]
      BY <1>3, <3>1
    <3>6. upTo[k + 1] = upTo[k] + qs[k + 1] /\ upTo[k] \in Nat /\ qs[k + 1] \in Nat
      BY <1>1, <1>2, <3>1
    <3> HIDE DEF Count, Of
    <3>7. /\ IsFiniteSet(Count(k + 1))
          /\ Cardinality(Count(k + 1)) = upTo[k] + qs[k + 1] - Cardinality({})
      BY <3>2, <3>3, <3>4, <3>5, FS_Union
    <3> QED
      BY <3>6, <3>7, FS_EmptySet
  <2> QED
    BY <1>1, <2>1, <2>2
<1>6. Nat \subseteq S
  <2> HIDE DEF S
  <2> QED
    BY <1>4, <1>5, SetInduction
<1>7. Cardinality(Count(n)) = upTo[n]
  <2>1. n \in S
    <3> HIDE DEF S
    <3> QED
      BY <1>1, <1>6
  <2>2. ~(n > n)
    BY <1>1
  <2> HIDE DEF Count
  <2> QED
    BY <2>1, <2>2
<1>8. Count(n) = UNION {{c} \X (1..lengths[c]) : c \in DOMAIN lengths}
  <2>1. \A i \in 1..n : Of(i) = {order[i]} \X (1..lengths[order[i]]) /\ order[i] \in DOMAIN lengths
    BY <1>1
  <2> QED
    BY <1>1, <2>1
<1> QED
  BY <1>2, <1>7, <1>8 DEF qs

(* A group's sum is at most the largest weight for each cluster. *)
LEMMA SumBounded ==
  ASSUME NEW lengths, IsFiniteSet(DOMAIN lengths), DOMAIN lengths # {},
         \A b \in DOMAIN lengths : lengths[b] \in Nat,
         NEW order \in SortedOrders(lengths)
  PROVE  GroupSum(lengths, order) <= MAX_WT * Cardinality(DOMAIN lengths)
<1> DEFINE n    == Cardinality(DOMAIN lengths)
           w    == WeightsOf(lengths, order)
           upTo == CumulativeWeights(lengths, order)
<1>1. n \in Nat \ {0}
  BY OrderLists
<1>2. CASE n = 1
  BY <1>2, WeightBounds DEF GroupSum
<1>3. CASE n # 1
  <2>1. n > 1
    BY <1>1, <1>3
  <2>2. /\ w \in [1..n -> 0..MAX_WT]
        /\ upTo \in [0..n -> Nat]
        /\ upTo[0] = 0
        /\ \A i \in 1..n : upTo[i] = upTo[i - 1] + w[i]
    BY <2>1, WeightsAre
  <2>3. GroupSum(lengths, order) = upTo[n]
    BY <1>3 DEF GroupSum
  <2> HIDE DEF n, w, upTo
  <2> DEFINE S == {k \in Nat : k > n \/ upTo[k] <= MAX_WT * k}
  <2>4. 0 \in S
    BY <2>2, WeightBounds
  <2>5. ASSUME NEW k \in Nat, k \in S
        PROVE  k + 1 \in S
    <3>1. CASE k + 1 > n
      BY <3>1
    <3>2. CASE k + 1 <= n
      <4>1. k + 1 \in 1..n /\ (k + 1) - 1 = k /\ k \in 0..n
        BY <1>1, <3>2
      <4>2. upTo[k + 1] = upTo[k] + w[k + 1] /\ w[k + 1] \in 0..MAX_WT /\ upTo[k] \in Nat
        BY <2>2, <4>1
      <4>3. upTo[k] <= MAX_WT * k
        BY <1>1, <2>5, <3>2
      <4>4. MAX_WT * (k + 1) = MAX_WT * k + MAX_WT /\ MAX_WT * k \in Nat
        BY WeightBounds
      <4>5. upTo[k + 1] <= MAX_WT * (k + 1)
        <5> DEFINE x == MAX_WT * k
                   y == MAX_WT * (k + 1)
        <5>1. y = x + MAX_WT /\ x \in Nat /\ upTo[k] <= x
          BY <4>3, <4>4
        <5> HIDE DEF x, y
        <5>2. upTo[k + 1] <= y
          BY <4>2, <5>1, WeightBounds
        <5> QED
          BY <5>2 DEF y
      <4> QED
        BY <4>5
    <3> QED
      BY <1>1, <3>1, <3>2
  <2>6. Nat \subseteq S
    <3> HIDE DEF S
    <3> QED
      BY <2>4, <2>5, SetInduction
  <2>7. upTo[n] <= MAX_WT * n
    BY <1>1, <2>6
  <2> QED
    BY <2>3, <2>7 DEF n
<1> QED
  BY <1>2, <1>3

-----------------------------------------------------------------------------
(* One group under successive heartbeats. *)

(* Between beats there is no table; after one, it is that of the lengths.  *)
GroupInv ==
  \/ groupLengths = <<>> /\ groupEntries = <<>> /\ groupTotal = 0
  \/ /\ DOMAIN groupLengths \in (SUBSET Clusters) \ {{}}
     /\ \A c \in DOMAIN groupLengths : groupLengths[c] \in Nat
     /\ \E order \in SortedOrders(groupLengths) :
          /\ groupEntries = GroupTable(groupLengths, order)
          /\ groupTotal = GroupSum(groupLengths, order)

LEMMA GroupInvHolds == GroupSpec => []GroupInv
<1>1. GroupInit => GroupInv
  BY DEF GroupInit, GroupInv
<1>2. GroupInv /\ [GroupNext]_groupVars => GroupInv'
  <2> SUFFICES ASSUME GroupInv, [GroupNext]_groupVars PROVE GroupInv'
    OBVIOUS
  <2>1. CASE UNCHANGED groupVars
    BY <2>1 DEF groupVars, GroupInv
  <2>2. CASE ClearGroup
    BY <2>2 DEF ClearGroup, GroupInv
  <2>3. ASSUME NEW reported \in (SUBSET Clusters) \ {{}},
               NEW queued \in [reported -> Nat], NEW running \in [reported -> Nat],
               ComputeGroup(queued, running)
        PROVE  GroupInv'
    <3>1. groupLengths' \in [reported -> Nat]
      BY <2>3 DEF ComputeGroup, QueueOrRunning
    <3>2. \E order \in SortedOrders(groupLengths') :
            /\ groupEntries' = GroupTable(groupLengths', order)
            /\ groupTotal' = GroupSum(groupLengths', order)
      BY <2>3 DEF ComputeGroup
    <3>3. /\ DOMAIN groupLengths' \in (SUBSET Clusters) \ {{}}
          /\ \A c \in DOMAIN groupLengths' : groupLengths'[c] \in Nat
      BY <3>1
    <3> QED
      BY <3>2, <3>3 DEF GroupInv
  <2>4. CASE \E reported \in (SUBSET Clusters) \ {{}} :
               \E queued \in [reported -> 0..MaxQueued] :
                 ComputeGroup(queued, [c \in reported |-> 0])
    <3>1. PICK reported \in (SUBSET Clusters) \ {{}} :
            \E queued \in [reported -> 0..MaxQueued] : ComputeGroup(queued, [c \in reported |-> 0])
      BY <2>4
    <3>2. PICK queued \in [reported -> 0..MaxQueued] : ComputeGroup(queued, [c \in reported |-> 0])
      BY <3>1
    <3>3. queued \in [reported -> Nat] /\ [c \in reported |-> 0] \in [reported -> Nat]
      BY GroupConstants
    <3> QED
      BY <2>3, <3>2, <3>3
  <2>5. CASE \E reported \in (SUBSET Clusters) \ {{}} :
               \E running \in [reported -> 0..MaxRunning] :
                 ComputeGroup([c \in reported |-> 0], running)
    <3>1. PICK reported \in (SUBSET Clusters) \ {{}} :
            \E running \in [reported -> 0..MaxRunning] : ComputeGroup([c \in reported |-> 0], running)
      BY <2>5
    <3>2. PICK running \in [reported -> 0..MaxRunning] : ComputeGroup([c \in reported |-> 0], running)
      BY <3>1
    <3>3. running \in [reported -> Nat] /\ [c \in reported |-> 0] \in [reported -> Nat]
      BY GroupConstants
    <3> QED
      BY <2>3, <3>2, <3>3
  <2> QED
    BY <2>1, <2>2, <2>4, <2>5 DEF GroupNext
<1> QED
  BY <1>1, <1>2, PTL DEF GroupSpec

(* What the lemmas say of the group in a state that has a table. *)
LEMMA GroupComputed ==
  ASSUME GroupInv, groupLengths # <<>>
  PROVE  /\ DOMAIN groupLengths \subseteq Clusters /\ DOMAIN groupLengths # {}
         /\ IsFiniteSet(DOMAIN groupLengths)
         /\ Cardinality(DOMAIN groupLengths) \in 1..Cardinality(Clusters)
         /\ \A c \in DOMAIN groupLengths : groupLengths[c] \in Nat
         /\ \E order \in SortedOrders(groupLengths) :
              /\ groupEntries = GroupTable(groupLengths, order)
              /\ groupTotal = GroupSum(groupLengths, order)
<1>1. /\ DOMAIN groupLengths \in (SUBSET Clusters) \ {{}}
      /\ \A c \in DOMAIN groupLengths : groupLengths[c] \in Nat
      /\ \E order \in SortedOrders(groupLengths) :
           /\ groupEntries = GroupTable(groupLengths, order)
           /\ groupTotal = GroupSum(groupLengths, order)
  BY DEF GroupInv
<1>2. IsFiniteSet(DOMAIN groupLengths)
  BY <1>1, GroupConstants, FS_Subset
<1>3. /\ Cardinality(DOMAIN groupLengths) \in Nat \ {0}
      /\ Cardinality(Clusters) \in Nat
      /\ Cardinality(DOMAIN groupLengths) <= Cardinality(Clusters)
  BY <1>1, <1>2, GroupConstants, FS_Subset, FS_CardinalityType, FS_EmptySet
<1>4. Cardinality(DOMAIN groupLengths) \in 1..Cardinality(Clusters)
  BY <1>3
<1> QED
  BY <1>1, <1>2, <1>4, Zenon

(* A group's entries name its clusters, and its sum is bounded: the weights *)
(* computeWeightsBasedOnQueueLength adds up are at most MAX_WT each.        *)
THEOREM GroupTypeCorrect == GroupSpec => []GroupTypeOK
<1>1. GroupInv => GroupTypeOK
  <2> SUFFICES ASSUME GroupInv PROVE GroupTypeOK
    OBVIOUS
  <2>1. CASE groupLengths = <<>>
    <3>1. groupEntries = <<>> /\ groupTotal = 0
      BY <2>1 DEF GroupInv
    <3>2. Cardinality(Clusters) \in Nat
      BY GroupConstants, FS_CardinalityType
    <3>3. MAX_WT * Cardinality(Clusters) \in Nat
      BY <3>2, WeightBounds
    <3>4. DOMAIN groupLengths = {} /\ DOMAIN groupEntries = {}
      BY <2>1, <3>1
    <3> QED
      BY <3>1, <3>3, <3>4 DEF GroupTypeOK
  <2>2. CASE groupLengths # <<>>
    <3>1. /\ DOMAIN groupLengths \subseteq Clusters /\ DOMAIN groupLengths # {}
          /\ IsFiniteSet(DOMAIN groupLengths)
          /\ Cardinality(DOMAIN groupLengths) \in 1..Cardinality(Clusters)
          /\ \A c \in DOMAIN groupLengths : groupLengths[c] \in Nat
      BY <2>2, GroupComputed
    <3>2. PICK order \in SortedOrders(groupLengths) :
            /\ groupEntries = GroupTable(groupLengths, order)
            /\ groupTotal = GroupSum(groupLengths, order)
      BY <2>2, GroupComputed
    <3>3. \A key \in DOMAIN groupEntries : groupEntries[key] \in DOMAIN groupLengths
      BY <3>1, <3>2, TableFits
    <3>4. groupTotal \in Nat /\ DOMAIN groupEntries \subseteq Nat
      BY <3>1, <3>2, TotalPositive
    <3>5. groupTotal <= MAX_WT * Cardinality(DOMAIN groupLengths)
      BY <3>1, <3>2, SumBounded
    <3>6. /\ MAX_WT * Cardinality(DOMAIN groupLengths) <= MAX_WT * Cardinality(Clusters)
          /\ MAX_WT * Cardinality(DOMAIN groupLengths) \in Nat
          /\ MAX_WT * Cardinality(Clusters) \in Nat
      <4> DEFINE x == Cardinality(DOMAIN groupLengths)
                 y == Cardinality(Clusters)
      <4>1. x \in Nat /\ y \in Nat /\ x <= y
        BY <3>1, GroupConstants, FS_CardinalityType
      <4> HIDE DEF x, y
      <4>2. MAX_WT * x <= MAX_WT * y /\ MAX_WT * x \in Nat /\ MAX_WT * y \in Nat
        BY <4>1, WeightBounds
      <4> QED
        BY <4>2 DEF x, y
    <3>7. groupTotal \in 0..(MAX_WT * Cardinality(Clusters))
      BY <3>4, <3>5, <3>6
    <3> QED
      BY <3>1, <3>3, <3>4, <3>7 DEF GroupTypeOK
  <2> QED
    BY <2>1, <2>2
<1> QED
  BY <1>1, GroupInvHolds, PTL

(* Whatever a group's lengths and the order among equal ones, a computed   *)
(* table has a positive sum and an entry for each draw below it, so        *)
(* getEligibleBackEnd finds a cluster.                                     *)
THEOREM EveryDrawAlwaysRoutes == GroupSpec => []EveryDrawRoutes
<1>1. GroupInv => EveryDrawRoutes
  <2> SUFFICES ASSUME GroupInv, groupEntries # <<>>
               PROVE  /\ groupTotal > 0
                      /\ \A rnd \in 0..(groupTotal - 1) : HigherEntry(groupEntries, rnd) # {}
    BY DEF EveryDrawRoutes
  <2>1. groupLengths # <<>>
    <3> SUFFICES ASSUME groupLengths = <<>> PROVE FALSE
      OBVIOUS
    <3> QED
      BY DEF GroupInv
  <2>2. /\ DOMAIN groupLengths # {} /\ IsFiniteSet(DOMAIN groupLengths)
        /\ \A c \in DOMAIN groupLengths : groupLengths[c] \in Nat
    BY <2>1, GroupComputed
  <2>3. PICK order \in SortedOrders(groupLengths) :
          /\ groupEntries = GroupTable(groupLengths, order)
          /\ groupTotal = GroupSum(groupLengths, order)
    BY <2>1, GroupComputed
  <2>4. groupTotal \in Nat \ {0} /\ DOMAIN groupEntries \subseteq Nat
    BY <2>2, <2>3, TotalPositive
  <2>5. groupTotal \in DOMAIN groupEntries
    BY <2>2, <2>3, TableFits
  <2>6. ASSUME NEW rnd \in 0..(groupTotal - 1)
        PROVE  HigherEntry(groupEntries, rnd) # {}
    <3>1. rnd \in Nat /\ rnd < groupTotal
      BY <2>4
    <3> QED
      BY <2>4, <2>5, <3>1, EntryAbove
  <2> QED
    BY <2>4, <2>6
<1> QED
  BY <1>1, GroupInvHolds, PTL

(* With the code's least weight, 1: if every cluster has an entry, shorter *)
(* queues get no fewer draws, for any lengths and any number of clusters.  *)
THEOREM ShorterQueueAlwaysLargerShare ==
  ASSUME MIN_WT = 1
  PROVE  GroupSpec => []ShorterQueueLargerShare
<1>1. GroupInv => ShorterQueueLargerShare
  <2> SUFFICES ASSUME GroupInv, Starved = {},
                      NEW a \in DOMAIN groupLengths, NEW b \in DOMAIN groupLengths,
                      groupLengths[a] <= groupLengths[b]
               PROVE  Share(a) >= Share(b)
    BY DEF ShorterQueueLargerShare
  <2>1. groupLengths # <<>>
    OBVIOUS
  <2>2. /\ DOMAIN groupLengths # {} /\ IsFiniteSet(DOMAIN groupLengths)
        /\ Cardinality(DOMAIN groupLengths) \in Nat \ {0}
        /\ \A c \in DOMAIN groupLengths : groupLengths[c] \in Nat
    BY <2>1, GroupComputed
  <2>3. PICK order \in SortedOrders(groupLengths) :
          /\ groupEntries = GroupTable(groupLengths, order)
          /\ groupTotal = GroupSum(groupLengths, order)
    BY <2>1, GroupComputed
  <2> DEFINE n == Cardinality(DOMAIN groupLengths)
             w == WeightsOf(groupLengths, order)
  <2>4. PICK i \in 1..n : a = order[i]
    BY <2>2, OrderLists
  <2>5. PICK j \in 1..n : b = order[j]
    BY <2>2, OrderLists
  <2>6. CASE n = 1
    <3>1. a = b
      BY <2>4, <2>5, <2>6
    <3>2. Share(b) \in Nat
      <4>1. groupTotal \in Nat
        BY <2>2, <2>3, TotalPositive
      <4>2. IsFiniteSet(0..(groupTotal - 1))
        BY <4>1, FS_Interval
      <4>3. IsFiniteSet(DrawsFor(b))
        BY <4>2, FS_Subset DEF DrawsFor
      <4> QED
        BY <4>3, FS_CardinalityType DEF Share
    <3> QED
      BY <3>1, <3>2
  <2>7. CASE n # 1
    <3>1. n > 1
      BY <2>2, <2>7
    <3>2. WeightForMaxQueueCluster(QueuesOf(groupLengths, order)) # 0
      <4> SUFFICES ASSUME WeightForMaxQueueCluster(QueuesOf(groupLengths, order)) = 0
                   PROVE  FALSE
        OBVIOUS
      <4>1. DOMAIN groupLengths \ {groupEntries[key] : key \in DOMAIN groupEntries}
              = {order[n - 1]}
        BY <2>2, <2>3, <3>1, WhoStarves
      <4> QED
        BY <4>1 DEF Starved
    <3>3. ASSUME NEW k \in 1..n
          PROVE  Share(order[k]) = w[k]
      <4>1. Cardinality({rnd \in 0..(groupTotal - 1) :
                           order[k] \in HigherEntry(groupEntries, rnd)}) = w[k]
        BY <2>2, <2>3, <3>1, <3>2, SharesAreWeights
      <4> QED
        BY <4>1 DEF Share, DrawsFor
    <3>4. w[i] >= w[j]
      BY <2>2, <2>4, <2>5, <3>1, WeightsDescend
    <3> QED
      BY <2>4, <2>5, <3>3, <3>4
  <2> QED
    BY <2>6, <2>7
<1> QED
  BY <1>1, GroupInvHolds, PTL

(* Exactly one pattern of lengths starves a cluster, and only one cluster: *)
(* for any lengths, any number of clusters and any least weight.           *)
THEOREM StarvesAlwaysAtAverage == GroupSpec => []StarvesExactlyAtAverage
<1> DEFINE Pattern(idle, second, longest) ==
             /\ groupLengths[idle] = 0
             /\ 0 < groupLengths[second] /\ groupLengths[second] < groupLengths[longest]
             /\ \A d \in DOMAIN groupLengths \ {longest} :
                  groupLengths[d] <= groupLengths[second]
             /\ groupLengths[second] = Average
<1>1. GroupInv => StarvesExactlyAtAverage
  <2> SUFFICES ASSUME GroupInv, groupLengths # <<>>
               PROVE  /\ Cardinality(Starved) <= 1
                      /\ Starved # {} <=>
                           \E idle, second, longest \in DOMAIN groupLengths :
                             Pattern(idle, second, longest)
    BY DEF StarvesExactlyAtAverage
  <2>1. /\ DOMAIN groupLengths # {} /\ IsFiniteSet(DOMAIN groupLengths)
        /\ Cardinality(DOMAIN groupLengths) \in Nat \ {0}
        /\ \A c \in DOMAIN groupLengths : groupLengths[c] \in Nat
    BY GroupComputed
  <2>2. PICK order \in SortedOrders(groupLengths) :
          /\ groupEntries = GroupTable(groupLengths, order)
          /\ groupTotal = GroupSum(groupLengths, order)
    BY GroupComputed
  <2> DEFINE n     == Cardinality(DOMAIN groupLengths)
             qs    == QueuesOf(groupLengths, order)
             maxWt == WeightForMaxQueueCluster(qs)
             Zero  == /\ n > 2 /\ qs[1] = 0
                      /\ 0 < qs[n - 1] /\ qs[n - 1] < qs[n]
                      /\ qs[n - 1] = Average
  <2>3. /\ n \in Nat \ {0}
        /\ order \in [1..n -> DOMAIN groupLengths]
        /\ \A i, j \in 1..n : order[i] = order[j] => i = j
        /\ \A b \in DOMAIN groupLengths : \E i \in 1..n : b = order[i]
        /\ qs \in [1..n -> Nat] /\ Len(qs) = n
        /\ \A i \in 1..n : qs[i] = groupLengths[order[i]]
        /\ \A i, j \in 1..n : i < j => qs[i] <= qs[j]
    BY <2>1, OrderLists
  <2>4. QueueSum(qs) \div n = Average
    BY <2>1, SumCountsQueries DEF Average, QueuedQueries
  <2>5. n > 1 => (maxWt = 0 <=> Zero)
    <3> SUFFICES ASSUME n > 1 PROVE maxWt = 0 <=> Zero
      OBVIOUS
    <3> HIDE DEF n, qs
    <3>1. n \in Nat
      BY <2>3
    <3> QED
      BY <2>3, <2>4, <3>1, MaxWeight
  <2>6. Cardinality(Starved) <= 1 /\ (Starved # {} <=> n > 1 /\ maxWt = 0)
    <3>1. CASE n = 1
      <4>1. groupEntries = [key \in {MAX_WT} |-> order[1]]
        BY <2>2, <3>1 DEF GroupTable
      <4>2. \A b \in DOMAIN groupLengths : b = order[1]
        BY <2>3, <3>1
      <4>3. Starved = {}
        BY <4>1, <4>2 DEF Starved
      <4> QED
        BY <3>1, <4>3, FS_EmptySet
    <3>2. CASE n # 1 /\ maxWt = 0
      <4>1. n > 1
        BY <2>3, <3>2
      <4>2. Starved = {order[n - 1]}
        BY <2>1, <2>2, <3>2, <4>1, WhoStarves DEF Starved
      <4>3. Cardinality(Starved) = 1
        BY <4>2, FS_Singleton
      <4> QED
        BY <3>2, <4>1, <4>2, <4>3
    <3>3. CASE n # 1 /\ maxWt # 0
      <4>1. n > 1
        BY <2>3, <3>3
      <4>2. Starved = {}
        BY <2>1, <2>2, <3>3, <4>1, WhoStarves DEF Starved
      <4> QED
        BY <3>3, <4>2, FS_EmptySet
    <3> QED
      BY <3>1, <3>2, <3>3
  <2> HIDE DEF n, qs, maxWt
  <2>7. ASSUME n > 1, maxWt = 0
        PROVE  \E idle, second, longest \in DOMAIN groupLengths :
                 Pattern(idle, second, longest)
    <3>1. Zero
      BY <2>5, <2>7
    <3>2. /\ 1 \in 1..n /\ n - 1 \in 1..n /\ n \in 1..n
          /\ order[1] \in DOMAIN groupLengths /\ order[n - 1] \in DOMAIN groupLengths
          /\ order[n] \in DOMAIN groupLengths
      BY <2>3, <2>7
    <3>3. ASSUME NEW d \in DOMAIN groupLengths \ {order[n]}
          PROVE  groupLengths[d] <= groupLengths[order[n - 1]]
      <4>1. PICK i \in 1..n : d = order[i]
        BY <2>3
      <4>2. i = n - 1 \/ i < n - 1
        BY <2>3, <4>1
      <4>3. qs[i] <= qs[n - 1]
        BY <2>3, <3>2, <4>2
      <4> QED
        BY <2>3, <3>2, <4>1, <4>3
    <3>4. Pattern(order[1], order[n - 1], order[n])
      BY <2>3, <3>1, <3>2, <3>3
    <3> HIDE DEF Pattern
    <3> QED
      BY <3>2, <3>4
  <2>8. ASSUME NEW idle \in DOMAIN groupLengths, NEW second \in DOMAIN groupLengths,
               NEW longest \in DOMAIN groupLengths, Pattern(idle, second, longest)
        PROVE  n > 1 /\ maxWt = 0
    <3>1. PICK i \in 1..n : idle = order[i]
      BY <2>3
    <3>2. PICK j \in 1..n : second = order[j]
      BY <2>3
    <3>3. PICK k \in 1..n : longest = order[k]
      BY <2>3
    <3>4. qs[i] = 0 /\ 0 < qs[j] /\ qs[j] < qs[k] /\ qs[j] = Average
      BY <2>3, <2>8, <3>1, <3>2, <3>3
    <3>5. \A h \in 1..n : h # k => qs[h] <= qs[j]
      <4> SUFFICES ASSUME NEW h \in 1..n, h # k PROVE qs[h] <= qs[j]
        OBVIOUS
      <4>1. order[h] \in DOMAIN groupLengths \ {longest}
        BY <2>3, <3>3
      <4> QED
        BY <2>3, <2>8, <3>2, <4>1
    <3>6. i < j /\ j < k
      <4>1. i # j /\ j # k /\ ~(j < i) /\ ~(k < j)
        BY <2>3, <3>4
      <4> QED
        BY <2>3, <4>1
    <3>7. k = n
      <4>1. n \in 1..n /\ (k < n => qs[k] <= qs[n]) /\ (k # n => qs[n] <= qs[j])
        BY <2>3, <3>5
      <4> QED
        BY <2>3, <3>4, <4>1
    <3>8. n > 2 /\ 1 \in 1..n /\ n - 1 \in 1..n
      BY <2>3, <3>6, <3>7
    <3>9. qs[n - 1] = qs[j]
      <4>1. qs[n - 1] <= qs[j]
        BY <2>3, <3>5, <3>7, <3>8
      <4>2. j = n - 1 \/ j < n - 1
        BY <2>3, <3>6, <3>7
      <4>3. qs[j] <= qs[n - 1]
        BY <2>3, <3>8, <4>1, <4>2
      <4> QED
        BY <2>3, <3>8, <4>1, <4>3
    <3>10. qs[1] = 0
      <4>1. i = 1 \/ 1 < i
        BY <2>3
      <4> QED
        BY <2>3, <3>4, <3>8, <4>1
    <3>11. Zero
      BY <3>4, <3>7, <3>8, <3>9, <3>10
    <3> QED
      BY <2>3, <2>5, <3>8, <3>11
  <2> HIDE DEF Pattern, Zero
  <2> QED
    BY <2>6, <2>7, <2>8
<1> QED
  BY <1>1, GroupInvHolds, PTL
=============================================================================
