------------------------------- MODULE Weights -------------------------------
(***************************************************************************)
(* The weight computation of PrestoQueueLengthRoutingTable: how the queue  *)
(* lengths of the clusters of one routing group become a table from        *)
(* cumulative weights to clusters, and how a random draw is looked up in   *)
(* it.  Pure operators: RoutingTable uses them for the shared tables, and  *)
(* GroupWeights checks what they promise over bounded queue lengths.       *)
(***************************************************************************)
EXTENDS Integers, Sequences, FiniteSets

CONSTANTS MIN_WT, MAX_WT   \* 1 and 100 in the code

ASSUME WeightBounds == /\ MIN_WT \in Nat \ {0}
                       /\ MAX_WT \in Nat \ {0}
                       /\ MIN_WT <= MAX_WT

-----------------------------------------------------------------------------
(* Math.ceil of the exact quotient a / b, for a >= 0 and b > 0. *)
CeilDiv(a, b) == (a + b - 1) \div b

(* Is the float (24 significant bits) nearest to s / m greater than s / m? *)
(* k normalises the quotient into [1, 2); 23 more doublings of the         *)
(* remainder leave what the rounding discards.  A tie cannot occur for     *)
(* lengths below 2^24, as s / m would then be represented exactly.         *)
FloatRoundsUp(s, m) ==
  /\ s > 0
  /\ LET k == CHOOSE i \in 0..24 : s * 2^i >= m /\ s * 2^i < 2 * m
         rest[i \in 0..(k + 23)] ==
           IF i = 0 THEN s % m ELSE (2 * rest[i - 1]) % m
     IN 2 * rest[k + 23] > m

(* Math.ceil of a product whose exact value is a / b and whose factor      *)
(* s / m is a float: one more than the exact result when that is an        *)
(* integer and the float was rounded up.  Exact for lengths below 288.     *)
CeilOfFloat(a, b, s, m) ==
  CeilDiv(a, b) + IF a % b = 0 /\ FloatRoundsUp(s, m) THEN 1 ELSE 0

(* The weight of a cluster with q queued queries when the longest queue of *)
(* the group holds m > 0.                                                  *)
ShareBelowMax(q, m) == MAX_WT - (q * MAX_WT) \div m

QueueSum(qs) ==
  LET upTo[i \in 0..Len(qs)] == IF i = 0 THEN 0 ELSE upTo[i - 1] + qs[i]
  IN upTo[Len(qs)]

(* Mutant: an idle cluster in an overprovisioned group is not special. *)
WeightForMaxQueueClusterNoMinimum(qs) ==
  LET n == Len(qs)
      lastButOne == IF n > 2 THEN qs[n - 1] ELSE qs[1]
  IN CASE qs[n] = 0 -> MAX_WT
       [] qs[n] # 0 /\ (lastButOne = 0 \/ lastButOne = qs[n]) -> MIN_WT
       [] OTHER -> CeilOfFloat(qs[1] * ShareBelowMax(lastButOne, qs[n]), qs[n],
                               qs[1], qs[n])

(* The weight of the cluster with the longest queue; qs is ascending. *)
WeightForMaxQueueCluster(qs) ==
  LET n == Len(qs)
      equal    == QueueSum(qs) \div n
      smallest == qs[1]
      longest  == qs[n]
      lastButOne   == IF n > 2 THEN qs[n - 1] ELSE smallest
      lastButOneWt == ShareBelowMax(lastButOne, longest)
      overProvisioned == \/ lastButOne < equal
                         \/ lastButOne > equal /\ smallest <= equal
  IN CASE longest = 0 -> MAX_WT
       [] longest # 0 /\ (lastButOne = 0 \/ lastButOne = longest) -> MIN_WT
       [] OTHER ->
            IF overProvisioned
            THEN IF smallest = 0 THEN MIN_WT
                 ELSE CeilOfFloat(smallest * smallest * lastButOneWt,
                                  longest * longest, smallest, longest)
            ELSE CeilOfFloat(smallest * lastButOneWt, longest, smallest, longest)

-----------------------------------------------------------------------------
(* The orders in which the stream may sort a group's clusters: ascending,  *)
(* clusters of equal length in either order (a ConcurrentHashMap's own).   *)
SortedOrders(lengths) ==
  LET n == Cardinality(DOMAIN lengths)
  IN {order \in [1..n -> DOMAIN lengths] :
        \A i, j \in 1..n :
          i < j => order[i] # order[j] /\ lengths[order[i]] <= lengths[order[j]]}

(* The running sum after each cluster of a sorted group of two or more. *)
CumulativeWeights(lengths, order) ==
  LET n  == Cardinality(DOMAIN lengths)
      qs == [i \in 1..n |-> lengths[order[i]]]
      maxWt == WeightForMaxQueueCluster(qs)
      weight == [i \in 1..n |->
                   IF qs[i] = qs[n] THEN maxWt ELSE ShareBelowMax(qs[i], qs[n])]
      upTo[i \in 0..n] == IF i = 0 THEN 0 ELSE upTo[i - 1] + weight[i]
  IN upTo

(* The table of one group: a cluster under its cumulative weight; a later  *)
(* put under the same key replaces an earlier one.                         *)
GroupTable(lengths, order) ==
  LET n    == Cardinality(DOMAIN lengths)
      upTo == CumulativeWeights(lengths, order)
  IN IF n = 1
     THEN [key \in {MAX_WT} |-> order[1]]
     ELSE [key \in {upTo[i] : i \in 1..n} |->
             order[CHOOSE i \in 1..n : /\ upTo[i] = key
                                       /\ \A j \in 1..n : upTo[j] = key => j <= i]]

(* Mutant: the sum is one more than the last key. *)
GroupSumOneMore(lengths, order) ==
  LET n == Cardinality(DOMAIN lengths)
  IN IF n = 1 THEN MAX_WT + 1 ELSE CumulativeWeights(lengths, order)[n] + 1

GroupSum(lengths, order) ==
  LET n == Cardinality(DOMAIN lengths)
  IN IF n = 1 THEN MAX_WT ELSE CumulativeWeights(lengths, order)[n]

(* Mutant: ceilingEntry in place of higherEntry. *)
CeilingEntry(table, rnd) ==
  {table[key] : key \in {k \in DOMAIN table :
     k >= rnd /\ \A other \in DOMAIN table : other >= rnd => k <= other}}

(* TreeMap.higherEntry(rnd).getValue(): the cluster under the least key    *)
(* greater than rnd, as a set that is empty when there is no such key.     *)
HigherEntry(table, rnd) ==
  {table[key] : key \in {k \in DOMAIN table :
     k > rnd /\ \A other \in DOMAIN table : other > rnd => k <= other}}

(* The lengths a group is weighed by: its running counts when all its      *)
(* queues are equally long and it has more than one cluster.               *)
QueueOrRunning(queued, running) ==
  IF /\ Cardinality(DOMAIN queued) > 1
     /\ \A a, b \in DOMAIN queued : queued[a] = queued[b]
  THEN running
  ELSE queued
=============================================================================
