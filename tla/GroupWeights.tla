----------------------------- MODULE GroupWeights -----------------------------
(***************************************************************************)
(* One routing group under successive heartbeats: each brings new queue    *)
(* and running counts (updateRoutingTable) and has the group's table       *)
(* computed anew (computeWeightsBasedOnQueueLength).  The properties say   *)
(* what share of the draws each cluster gets.  Names that RoutingTable has *)
(* too are prefixed, because its proofs extend the proofs about this       *)
(* module.                                                                 *)
(***************************************************************************)
EXTENDS Weights

CONSTANTS Clusters,     \* the clusters of the group; any of them may be reported
          MaxQueued,    \* bound on the queued count of a cluster
          MaxRunning    \* bound on the running count of a cluster

ASSUME GroupConstants == /\ IsFiniteSet(Clusters)
                         /\ MaxQueued \in Nat /\ MaxRunning \in Nat

VARIABLES groupLengths,   \* clusterQueueLengthMap.get(group)
          groupEntries,   \* weightedDistributionRouting.get(group)
          groupTotal      \* routingGroupWeightSum.get(group)

groupVars == <<groupLengths, groupEntries, groupTotal>>

GroupInit == groupLengths = <<>> /\ groupEntries = <<>> /\ groupTotal = 0

(* The maps are cleared before they are filled again. *)
ClearGroup ==
  /\ groupLengths # <<>>
  /\ groupLengths' = <<>> /\ groupEntries' = <<>> /\ groupTotal' = 0

ComputeGroup(queued, running) ==
  /\ groupLengths = <<>>
  /\ groupLengths' = QueueOrRunning(queued, running)
  /\ \E order \in SortedOrders(groupLengths') :
       /\ groupEntries' = GroupTable(groupLengths', order)
       /\ groupTotal' = GroupSum(groupLengths', order)

(* Running counts matter only when all queues are equally long. *)
GroupNext ==
  \/ ClearGroup
  \/ \E reported \in (SUBSET Clusters) \ {{}} :
       \/ \E queued \in [reported -> 0..MaxQueued] :
            ComputeGroup(queued, [c \in reported |-> 0])
       \/ \E running \in [reported -> 0..MaxRunning] :
            ComputeGroup([c \in reported |-> 0], running)

GroupSpec == GroupInit /\ [][GroupNext]_groupVars

-----------------------------------------------------------------------------
(* The draws that go to cluster c, of 0..total-1, and how many they are. *)
DrawsFor(c) == {rnd \in 0..(groupTotal - 1) : c \in HigherEntry(groupEntries, rnd)}

Share(c) == Cardinality(DrawsFor(c))

Starved == DOMAIN groupLengths \ {groupEntries[key] : key \in DOMAIN groupEntries}

(* The group's queued queries, each by its cluster and its place there, *)
(* and how many there are for each cluster, rounded down.               *)
QueuedQueries ==
  UNION {{c} \X (1..groupLengths[c]) : c \in DOMAIN groupLengths}

Average == Cardinality(QueuedQueries) \div Cardinality(DOMAIN groupLengths)

GroupTypeOK ==
  /\ DOMAIN groupLengths \subseteq Clusters
  /\ \A c \in DOMAIN groupLengths : groupLengths[c] \in Nat
  /\ \A key \in DOMAIN groupEntries :
       key \in Nat /\ groupEntries[key] \in DOMAIN groupLengths
  /\ groupTotal \in 0..(MAX_WT * Cardinality(Clusters))

(* Every draw of RANDOM.nextInt(sum) finds a higher entry, and nextInt is  *)
(* never given 0: the lookup in a computed table cannot fail               *)
(* (getEligibleBackEnd's chain of calls has no null check).                *)
EveryDrawRoutes ==
  groupEntries # <<>> =>
    /\ groupTotal > 0
    /\ \A rnd \in 0..(groupTotal - 1) : HigherEntry(groupEntries, rnd) # {}

(* While no cluster's entry was replaced, a shorter queue never gets the   *)
(* smaller share, and equally long queues get equal shares ("clusters with *)
(* the least queue length get assigned more queries").                     *)
ShorterQueueLargerShare ==
  Starved = {} =>
    \A a, b \in DOMAIN groupLengths :
      groupLengths[a] <= groupLengths[b] => Share(a) >= Share(b)

(* When the computation starves a cluster: three or more clusters, one     *)
(* idle, and the second longest queue equal to the rounded-down average.   *)
(* The longest queue then has weight 0, its put replaces the entry of the  *)
(* second longest, and one cluster gets no query at all.                   *)
StarvesExactlyAtAverage ==
  groupLengths # <<>> =>
    /\ Cardinality(Starved) <= 1
    /\ Starved # {} <=>
         \E idle, second, longest \in DOMAIN groupLengths :
           /\ groupLengths[idle] = 0
           /\ 0 < groupLengths[second] /\ groupLengths[second] < groupLengths[longest]
           /\ \A d \in DOMAIN groupLengths \ {longest} :
                groupLengths[d] <= groupLengths[second]
           /\ groupLengths[second] = Average
=============================================================================
