--------------------------- MODULE RoutingTableProofs ---------------------------
(***************************************************************************)
(* Proofs about RoutingTable, for any finite set of backends, any groups   *)
(* and requests, any queue lengths and number of changes.                  *)
(***************************************************************************)
EXTENDS RoutingTable, WeightsProofs

-----------------------------------------------------------------------------
(* Type correctness.  TypeOK is inductive on its own. *)

(* What a read may be answered is a list of backends with their groups. *)
LEMMA ListTypes ==
  ASSUME TypeOK, NEW list \in Lists
  PROVE  /\ DOMAIN list \subseteq Backends
         /\ \A b \in DOMAIN list : list[b] \in Groups
         /\ \A g : Members(list, g) \subseteq Backends
BY DEF TypeOK, Lists, ActiveMap, Rows, Members

LEMMA AdminTypes ==
  ASSUME TypeOK, Admin
  PROVE  TypeOK'
<1> USE DEF TypeOK, Looking, Finished
<1>1. PICK b \in Backends, row \in Rows \cup {NoRow} : Change(b, row)
  <2>1. CASE \E b \in Backends : DeactivateBackend(b) \/ ActivateBackend(b)
    BY <2>1 DEF DeactivateBackend, ActivateBackend, Rows
  <2>2. CASE \E b \in Backends : DeleteBackend(b)
    BY <2>2 DEF DeleteBackend
  <2>3. CASE \E b \in Backends : \E row \in Rows : UpdateBackend(b, row)
    BY <2>3 DEF UpdateBackend
  <2> QED
    BY <2>1, <2>2, <2>3 DEF Admin
<1>2. stale' \subseteq Lists
  BY <1>1 DEF Change, Lists
<1>3. \A list \in stale' : /\ DOMAIN list \subseteq Backends
                          /\ \A c \in DOMAIN list : list[c] \in Groups
  BY <1>2, ListTypes
<1> QED
  BY <1>1, <1>3 DEF Change, tableVars, computeVars, requestVars, monitorVars

LEMMA ForgetTypes ==
  ASSUME TypeOK, ForgetLists
  PROVE  TypeOK'
BY DEF ForgetLists, TypeOK, tableVars, computeVars, requestVars, monitorVars

LEMMA ComputeTypes ==
  ASSUME TypeOK, Compute
  PROVE  TypeOK'
<1> USE DEF TypeOK, Looking, Finished
<1>1. ASSUME NEW tables, Overtake(tables) PROVE plight' \in [Requests -> SUBSET {"raced", "disjoint", "unknown"}]
  BY <1>1 DEF Overtake
<1>2. CASE ClearTables
  BY <1>1, <1>2 DEF ClearTables, storeVars, monitorVars
<1>3. CASE ClearSums
  BY <1>1, <1>3 DEF ClearSums, GroupsToCompute, storeVars, monitorVars
<1>4. CASE \E g \in todo : \E order \in SortedOrders(queueMap[g]) : PutTable(g, order)
  BY <1>1, <1>4 DEF PutTable, Extend, storeVars, monitorVars
<1>5. CASE PutSum
  BY <1>1, <1>5, RoutingConstants DEF PutSum, Extend, NoFilling, storeVars, monitorVars
<1>6. CASE Release
  BY <1>6 DEF Release, storeVars, tableVars
<1> QED
  BY <1>2, <1>3, <1>4, <1>5, <1>6 DEF Compute

LEMMA HeartbeatTypes ==
  ASSUME TypeOK, Heartbeat
  PROVE  TypeOK'
<1> USE DEF TypeOK
<1>1. CASE FetchActive
  <2>1. DOMAIN seen' \subseteq Backends /\ \A b \in DOMAIN seen' : seen'[b] \in Groups
    BY <1>1, ListTypes DEF FetchActive
  <2> QED
    BY <1>1, <2>1 DEF FetchActive, storeVars, tableVars, computeVars, requestVars
<1>2. CASE SkipBeat
  BY <1>2 DEF SkipBeat, storeVars, tableVars, computeVars, requestVars
<1>3. CASE ReportAborts
  BY <1>3 DEF ReportAborts, storeVars, computeVars, requestVars
<1>4. ASSUME NEW answering \in SUBSET DOMAIN seen,
             NEW queued \in [answering -> 0..MaxLen],
             NEW running \in [answering -> 0..MaxLen],
             Report(queued, running)
      PROVE  TypeOK'
  <2>1. DOMAIN queueMap' = {seen[b] : b \in answering}
    BY <1>4 DEF Report, ReportedMap
  <2>2. \A g \in DOMAIN queueMap' : DOMAIN queueMap'[g] = {b \in answering : seen[b] = g}
    <3>1. queueMap' = [g \in {seen[b] : b \in answering} |-> LengthsOf(g, queued, running)]
      BY <1>4 DEF Report, ReportedMap
    <3>2. SUFFICES ASSUME NEW g \in DOMAIN queueMap'
                   PROVE  DOMAIN queueMap'[g] = {b \in answering : seen[b] = g}
      OBVIOUS
    <3>3. queueMap'[g] = LengthsOf(g, queued, running)
      BY <3>1, <3>2
    <3>4. DOMAIN queued = answering
      OBVIOUS
    <3>5. DOMAIN LengthsOf(g, queued, running) = {b \in answering : seen[b] = g}
      BY <3>4 DEF LengthsOf, QueueOrRunning
    <3> QED
      BY <3>3, <3>5
  <2>3. \A g \in DOMAIN queueMap' : DOMAIN queueMap'[g] \in (SUBSET Backends) \ {{}}
    <3>1. SUFFICES ASSUME NEW g \in DOMAIN queueMap'
                   PROVE  DOMAIN queueMap'[g] \in (SUBSET Backends) \ {{}}
      OBVIOUS
    <3>2. PICK b \in answering : seen[b] = g
      BY <2>1, <3>1
    <3>3. {c \in answering : seen[c] = g} \subseteq Backends
      OBVIOUS
    <3> QED
      BY <2>2, <3>1, <3>2, <3>3
  <2>4. DOMAIN queueMap' \subseteq Groups
    BY <2>1
  <2> QED
    BY <1>4, <2>3, <2>4 DEF Report, storeVars, requestVars
<1> QED
  BY <1>1, <1>2, <1>3, <1>4 DEF Heartbeat

LEMMA RequestTypes ==
  ASSUME TypeOK, NEW r \in Requests,
         Arrive(r) \/ Read(r) \/ UpdateTable(r) \/ Lookup(r)
  PROVE  TypeOK'
<1> USE DEF TypeOK, Looking, Finished
<1>1. ASSUME NEW label \in Looking \cup {"readActive", "readAdhoc", "update", "fallback"},
             Goto(r, label),
             target' \in [Requests -> Groups],
             snapshot' \in [Requests -> SUBSET Backends]
      PROVE  TypeOK'
  BY <1>1 DEF Goto, storeVars, tableVars, computeVars, monitorVars
<1>2. ASSUME NEW outcome \in Finished, NEW b \in Backends \cup {NoBackend},
             Finish(r, outcome, b)
      PROVE  TypeOK'
  BY <1>2 DEF Finish, storeVars, tableVars, computeVars, monitorVars
<1>3. CASE Arrive(r)
  BY <1>1, <1>3 DEF Arrive, ArriveForAdhoc, ArriveForGroup
<1>4. CASE Read(r)
  <2>1. CASE ReadActive(r)
    <3>1. PICK list \in Lists :
            IF Members(list, target[r]) = {}
            THEN /\ target' = [target EXCEPT ![r] = Adhoc]
                 /\ Goto(r, "readAdhoc")
                 /\ UNCHANGED snapshot
            ELSE /\ snapshot' = [snapshot EXCEPT ![r] = Members(list, target[r])]
                 /\ Goto(r, "update")
                 /\ UNCHANGED target
      BY <2>1 DEF ReadActive
    <3>2. Members(list, target[r]) \subseteq Backends
      BY ListTypes
    <3> QED
      BY <1>1, <3>1, <3>2, RoutingConstants
  <2>2. CASE ReadAdhoc(r)
    BY <1>1, <2>2, ListTypes DEF ReadAdhoc
  <2>3. CASE Refuse(r) \/ StoreFails(r)
    BY <1>2, <2>3 DEF Refuse, StoreFails
  <2> QED
    BY <1>4, <2>1, <2>2, <2>3 DEF Read
<1>5. CASE KeepTable(r)
  BY <1>1, <1>5 DEF KeepTable
<1>6. CASE PruneTable(r)
  <2> DEFINE g == target[r]
             kept == Known(g) \cap snapshot[r]
  <2>1. queueMap' = PrunedMap(g, kept)
    BY <1>6 DEF PruneTable
  <2>2. kept # {} => g \in DOMAIN queueMap
    BY DEF Known
  <2>3. /\ DOMAIN queueMap' = DOMAIN queueMap
        /\ \A h \in DOMAIN queueMap' : DOMAIN queueMap'[h] \in (SUBSET Backends) \ {{}}
    BY <2>1, <2>2 DEF PrunedMap
  <2>4. plight' \in [Requests -> SUBSET {"raced", "disjoint", "unknown"}]
    BY <1>6 DEF PruneTable, Known
  <2> QED
    BY <1>6, <2>3, <2>4 DEF PruneTable, storeVars, monitorVars
<1>7. CASE DrawFrom(r)
  BY <1>7 DEF DrawFrom, storeVars, tableVars, computeVars, monitorVars
<1>8. CASE SeeSum(r) \/ SeeTable(r)
  BY <1>1, <1>8 DEF SeeSum, SeeTable
<1>9. CASE Lookup(r) /\ ~DrawFrom(r) /\ ~SeeSum(r) /\ ~SeeTable(r)
  BY <1>2, <1>9 DEF Lookup, DrawCrashes, Pick, PickCrashes, Fallback, FallbackCrashes
<1> QED
  BY <1>3, <1>4, <1>5, <1>6, <1>7, <1>8, <1>9 DEF UpdateTable

(* Every variable keeps its type, and no group in clusterQueueLengthMap    *)
(* ever loses its last cluster: the branch of computeWeightsBasedOnQueue-  *)
(* Length for a group without clusters is never taken.                     *)
THEOREM TypeCorrect == Spec => []TypeOK
<1>1. Init => TypeOK
  BY RoutingConstants DEF Init, TypeOK, NoFilling
<1>2. TypeOK /\ [Next]_vars => TypeOK'
  <2> SUFFICES ASSUME TypeOK, [Next]_vars PROVE TypeOK'
    OBVIOUS
  <2>1. CASE UNCHANGED vars
    BY <2>1 DEF vars, storeVars, tableVars, computeVars, requestVars, monitorVars,
                TypeOK
  <2>2. CASE Next
    BY <2>2, AdminTypes, ForgetTypes, ComputeTypes, HeartbeatTypes, RequestTypes DEF Next
  <2> QED
    BY <2>1, <2>2
<1> QED
  BY <1>1, <1>2, PTL DEF Spec

-----------------------------------------------------------------------------
(* The tables.  TablesAgree speaks of the moments when the lock is free;   *)
(* the invariant that carries it says what the maps hold at every step of  *)
(* the thread that recomputes them, and who that thread is.                *)

Locking ==
  /\ lock = Free <=> stage = "none"
  /\ lock = Monitor <=> monitorPc = "compute"
  /\ \A r \in Requests : lock = r <=> pc[r] = "compute"

Computing ==
  /\ stage = "clearSums" => DOMAIN weighted = {}
  /\ stage = "put" =>
       /\ todo \subseteq DOMAIN queueMap
       /\ DOMAIN weighted = DOMAIN queueMap \ todo
       /\ DOMAIN weightSum = DOMAIN weighted
       /\ \A g \in DOMAIN weightSum : Fits(g)
  /\ stage = "putSum" =>
       /\ todo \subseteq DOMAIN queueMap
       /\ DOMAIN weighted = DOMAIN queueMap \ todo
       /\ filling.group \in DOMAIN weighted
       /\ DOMAIN weightSum = DOMAIN weighted \ {filling.group}
       /\ \A g \in DOMAIN weightSum : Fits(g)
       /\ filling.sum \in DOMAIN weighted[filling.group]
       /\ \A key \in DOMAIN weighted[filling.group] :
            weighted[filling.group][key] \in DOMAIN queueMap[filling.group]

TableInv == TypeOK /\ Locking /\ Computing /\ TablesAgree

(* A request's steps outside the lock change no table and take no lock. *)
LEMMA RequestLeavesTables ==
  ASSUME TypeOK, NEW r \in Requests,
         Arrive(r) \/ Read(r) \/ KeepTable(r) \/ Lookup(r)
  PROVE  /\ UNCHANGED <<tableVars, computeVars, monitorVars>>
         /\ pc[r] # "compute" /\ pc'[r] # "compute"
         /\ \A s \in Requests \ {r} : pc'[s] = pc[s]
<1>1. ASSUME NEW label, label # "compute", Goto(r, label), pc[r] # "compute"
      PROVE  /\ UNCHANGED <<tableVars, computeVars, monitorVars>>
             /\ pc[r] # "compute" /\ pc'[r] # "compute"
             /\ \A s \in Requests \ {r} : pc'[s] = pc[s]
  BY <1>1 DEF Goto, TypeOK
<1>2. ASSUME NEW outcome, NEW b, outcome # "compute", Finish(r, outcome, b),
             pc[r] # "compute"
      PROVE  /\ UNCHANGED <<tableVars, computeVars, monitorVars>>
             /\ pc[r] # "compute" /\ pc'[r] # "compute"
             /\ \A s \in Requests \ {r} : pc'[s] = pc[s]
  BY <1>2 DEF Finish, TypeOK
<1>3. CASE Arrive(r)
  BY <1>1, <1>3 DEF Arrive, ArriveForAdhoc, ArriveForGroup
<1>4. CASE Read(r)
  BY <1>1, <1>2, <1>4 DEF Read, ReadActive, ReadAdhoc, Refuse, StoreFails
<1>5. CASE KeepTable(r)
  BY <1>1, <1>5 DEF KeepTable
<1>6. CASE DrawFrom(r)
  BY <1>6 DEF DrawFrom, TypeOK
<1>7. CASE SeeSum(r) \/ SeeTable(r)
  BY <1>1, <1>7 DEF SeeSum, SeeTable
<1>8. CASE DrawCrashes(r) \/ Pick(r) \/ PickCrashes(r) \/ Fallback(r) \/ FallbackCrashes(r)
  BY <1>2, <1>8 DEF DrawCrashes, Pick, PickCrashes, Fallback, FallbackCrashes
<1> QED
  BY <1>3, <1>4, <1>5, <1>6, <1>7, <1>8 DEF Lookup

(* Steps that change neither the tables nor the lock keep the invariant. *)
LEMMA TableInvStable ==
  ASSUME TableInv, TypeOK', Locking', UNCHANGED <<tableVars, computeVars>>
  PROVE  TableInv'
BY DEF TableInv, Computing, TablesAgree, Fits, tableVars, computeVars

(* Taking the lock to recompute: nothing is promised until the first clear. *)
LEMMA TableInvTaken ==
  ASSUME TypeOK', Locking', stage' = "clearTables"
  PROVE  TableInv'
BY DEF TableInv, Computing, TablesAgree, Locking

LEMMA ClearTablesStep ==
  ASSUME TableInv, TypeOK', ClearTables
  PROVE  TableInv'
<1>1. Locking'
  BY DEF ClearTables, TableInv, Locking, monitorVars
<1> QED
  BY <1>1 DEF ClearTables, TableInv, Computing, TablesAgree, Locking

LEMMA ClearSumsStep ==
  ASSUME TableInv, TypeOK', ClearSums
  PROVE  TableInv'
<1>1. Locking'
  BY DEF ClearSums, TableInv, Locking, monitorVars
<1>2. todo' = DOMAIN queueMap
  BY DEF ClearSums, GroupsToCompute, TableInv, TypeOK
<1>3. DOMAIN weighted' = {} /\ DOMAIN weightSum' = {} /\ queueMap' = queueMap
  BY DEF ClearSums, TableInv, Computing
<1> QED
  BY <1>1, <1>2, <1>3 DEF ClearSums, TableInv, Computing, TablesAgree, Locking

LEMMA PutTableStep ==
  ASSUME TableInv, TypeOK', NEW g \in todo,
         NEW order \in SortedOrders(queueMap[g]), PutTable(g, order)
  PROVE  TableInv'
<1> DEFINE table == GroupTable(queueMap[g], order)
<1>1. Locking'
  BY DEF PutTable, TableInv, Locking, monitorVars
<1>2. g \in DOMAIN queueMap /\ todo \subseteq DOMAIN queueMap
  BY DEF PutTable, TableInv, Computing
<1>3. DOMAIN queueMap[g] # {} /\ IsFiniteSet(DOMAIN queueMap[g])
  BY <1>2, RoutingConstants, FS_Subset DEF TableInv, TypeOK
<1>4. /\ GroupSum(queueMap[g], order) \in DOMAIN table
      /\ \A key \in DOMAIN table : table[key] \in DOMAIN queueMap[g]
  BY <1>3, TableFits
<1>5. /\ queueMap' = queueMap /\ weightSum' = weightSum /\ todo' = todo \ {g}
      /\ stage = "put" /\ stage' = "putSum"
      /\ filling'.group = g /\ filling'.sum = GroupSum(queueMap[g], order)
  BY DEF PutTable
<1>6. /\ DOMAIN weighted' = DOMAIN weighted \cup {g}
      /\ weighted'[g] = table
      /\ \A h \in DOMAIN weighted \ {g} : weighted'[h] = weighted[h]
  BY DEF PutTable, Extend
<1>7. g \notin DOMAIN weighted
  BY <1>5 DEF TableInv, Computing
<1>8. \A h \in DOMAIN weightSum' : Fits(h)'
  BY <1>5, <1>6, <1>7 DEF TableInv, Computing, Fits
<1>9. Computing'
  <2> HIDE DEF table
  <2> QED
    BY <1>2, <1>4, <1>5, <1>6, <1>7, <1>8 DEF TableInv, Computing
<1> QED
  BY <1>1, <1>5, <1>9 DEF TableInv, TablesAgree, Locking

LEMMA PutSumStep ==
  ASSUME TableInv, TypeOK', PutSum
  PROVE  TableInv'
<1>1. Locking'
  BY DEF PutSum, TableInv, Locking, monitorVars
<1>2. /\ queueMap' = queueMap /\ weighted' = weighted /\ todo' = todo
      /\ stage = "putSum" /\ stage' = "put"
      /\ weightSum' = Extend(weightSum, filling.group, filling.sum)
  BY DEF PutSum
<1>3. /\ DOMAIN weightSum' = DOMAIN weightSum \cup {filling.group}
      /\ weightSum'[filling.group] = filling.sum
      /\ \A h \in DOMAIN weightSum \ {filling.group} : weightSum'[h] = weightSum[h]
  BY <1>2 DEF Extend
<1>4. \A h \in DOMAIN weightSum' : Fits(h)'
  BY <1>2, <1>3 DEF TableInv, Computing, Fits
<1> QED
  BY <1>1, <1>2, <1>3, <1>4 DEF TableInv, Computing, TablesAgree, Locking

LEMMA ReleaseStep ==
  ASSUME TableInv, TypeOK', Release
  PROVE  TableInv'
<1>1. Locking'
  <2>1. CASE lock = Monitor
    BY <2>1, RoutingConstants DEF Release, TableInv, Locking, TypeOK
  <2>2. CASE lock \in Requests
    BY <2>2, RoutingConstants DEF Release, TableInv, Locking, TypeOK
  <2> QED
    BY <2>1, <2>2 DEF Release
<1>2. /\ UNCHANGED <<queueMap, weighted, weightSum>>
      /\ stage = "put" /\ stage' = "none" /\ todo = {}
  BY DEF Release, tableVars
<1>3. /\ DOMAIN weighted = DOMAIN queueMap /\ DOMAIN weightSum = DOMAIN queueMap
      /\ \A g \in DOMAIN queueMap : Fits(g)
  BY <1>2 DEF TableInv, Computing
<1>4. TablesAgree'
  BY <1>2, <1>3 DEF TablesAgree, Fits
<1> QED
  BY <1>1, <1>2, <1>4 DEF TableInv, Computing

(* The invariant of the tables holds throughout. *)
THEOREM TableInvHolds == Spec => []TableInv
<1>1. Init => TableInv
  <2>1. Init => TypeOK
    BY RoutingConstants DEF Init, TypeOK, NoFilling
  <2> QED
    BY <2>1, RoutingConstants DEF Init, TableInv, Locking, Computing, TablesAgree
<1>2. TableInv /\ TypeOK' /\ [Next]_vars => TableInv'
  <2> SUFFICES ASSUME TableInv, TypeOK', [Next]_vars PROVE TableInv'
    OBVIOUS
  <2> USE DEF vars, storeVars, tableVars, computeVars, requestVars, monitorVars
  <2>1. CASE UNCHANGED vars
    BY <2>1, TableInvStable DEF TableInv, Locking
  <2>2. CASE Admin \/ ForgetLists
    <3>1. UNCHANGED <<tableVars, computeVars, requestVars, monitorVars>>
      BY <2>2 DEF Admin, DeactivateBackend, ActivateBackend, UpdateBackend,
                  DeleteBackend, Change, ForgetLists
    <3> QED
      BY <3>1, TableInvStable DEF TableInv, Locking
  <2>3. CASE Compute
    BY <2>3, ClearTablesStep, ClearSumsStep, PutTableStep, PutSumStep, ReleaseStep
       DEF Compute
  <2>4. CASE FetchActive \/ SkipBeat
    BY <2>4, TableInvStable DEF FetchActive, SkipBeat, TableInv, Locking
  <2>5. CASE ReportAborts
    BY <2>5 DEF ReportAborts, TableInv, Locking, Computing, TablesAgree
  <2>6. ASSUME NEW queued, NEW running, Report(queued, running) PROVE TableInv'
    <3>1. Locking'
      BY <2>6, RoutingConstants DEF Report, TableInv, Locking, TypeOK
    <3> QED
      BY <2>6, <3>1, TableInvTaken DEF Report
  <2>7. ASSUME NEW r \in Requests, PruneTable(r) PROVE TableInv'
    <3>1. Locking'
      BY <2>7, RoutingConstants DEF PruneTable, TableInv, Locking, TypeOK
    <3> QED
      BY <2>7, <3>1, TableInvTaken DEF PruneTable
  <2>8. ASSUME NEW r \in Requests, Arrive(r) \/ Read(r) \/ KeepTable(r) \/ Lookup(r)
        PROVE  TableInv'
    <3>1. /\ UNCHANGED <<tableVars, computeVars, monitorVars>>
          /\ pc[r] # "compute" /\ pc'[r] # "compute"
          /\ \A s \in Requests \ {r} : pc'[s] = pc[s]
      BY <2>8, RequestLeavesTables DEF TableInv
    <3>2. Locking'
      BY <3>1 DEF TableInv, Locking
    <3> QED
      BY <3>1, <3>2, TableInvStable
  <2> QED
    BY <2>1, <2>2, <2>3, <2>4, <2>5, <2>6, <2>7, <2>8 DEF Next, Heartbeat, UpdateTable
<1> QED
  BY <1>1, <1>2, TypeCorrect, PTL DEF Spec

(* Whatever threads interleave: when no thread is in a synchronized block, *)
(* every group that clusterQueueLengthMap knows has a table and a sum that *)
(* fit its clusters, and no other group has either.                        *)
THEOREM TablesAlwaysAgree == Spec => []TablesAgree
<1>1. TableInv => TablesAgree
  BY DEF TableInv
<1> QED
  BY <1>1, TableInvHolds, PTL

-----------------------------------------------------------------------------
(* The numbers: lengths are natural, and so are the keys of the tables;    *)
(* the sums are positive, so that there is always something to draw.       *)
Numbers ==
  /\ \A g \in DOMAIN queueMap : \A b \in DOMAIN queueMap[g] : queueMap[g][b] \in Nat
  /\ \A g \in DOMAIN weighted : DOMAIN weighted[g] \subseteq Nat
  /\ \A g \in DOMAIN weightSum : weightSum[g] \in Nat \ {0}
  /\ stage = "putSum" => filling.sum \in Nat \ {0}

LEMMA ComputeKeepsNumbers ==
  ASSUME TableInv, Numbers, Compute
  PROVE  Numbers'
<1>1. queueMap' = queueMap
  BY DEF Compute, ClearTables, ClearSums, PutTable, PutSum, Release, tableVars
<1>2. CASE ClearTables \/ ClearSums
  BY <1>1, <1>2 DEF ClearTables, ClearSums, Numbers
<1>3. ASSUME NEW g \in todo, NEW order \in SortedOrders(queueMap[g]), PutTable(g, order)
      PROVE  Numbers'
  <2>1. g \in DOMAIN queueMap
    BY <1>3 DEF PutTable, TableInv, Computing
  <2>2. DOMAIN queueMap[g] # {} /\ IsFiniteSet(DOMAIN queueMap[g])
    BY <2>1, RoutingConstants, FS_Subset DEF TableInv, TypeOK
  <2>3. /\ GroupSum(queueMap[g], order) \in Nat \ {0}
        /\ DOMAIN GroupTable(queueMap[g], order) \subseteq Nat
    BY <2>1, <2>2, TotalPositive DEF Numbers
  <2>4. /\ weighted' = Extend(weighted, g, GroupTable(queueMap[g], order))
        /\ filling'.sum = GroupSum(queueMap[g], order) /\ weightSum' = weightSum
    BY <1>3 DEF PutTable
  <2> QED
    BY <1>1, <2>3, <2>4 DEF Numbers, Extend
<1>4. CASE PutSum
  BY <1>1, <1>4 DEF PutSum, Numbers, Extend
<1>5. CASE Release
  BY <1>1, <1>5 DEF Release, tableVars, Numbers
<1> QED
  BY <1>2, <1>3, <1>4, <1>5 DEF Compute

LEMMA ReportKeepsNumbers ==
  ASSUME TableInv, Numbers, NEW answering \in SUBSET DOMAIN seen,
         NEW queued \in [answering -> 0..MaxLen], NEW running \in [answering -> 0..MaxLen],
         Report(queued, running)
  PROVE  Numbers'
<1>1. UNCHANGED <<weighted, weightSum>> /\ stage' = "clearTables"
  BY DEF Report
<1>2. queueMap' = [g \in {seen[b] : b \in answering} |-> LengthsOf(g, queued, running)]
  BY DEF Report, ReportedMap
<1>3. ASSUME NEW g, NEW b \in DOMAIN LengthsOf(g, queued, running)
      PROVE  LengthsOf(g, queued, running)[b] \in Nat
  <2> DEFINE members == {c \in DOMAIN queued : seen[c] = g}
             lengths == LengthsOf(g, queued, running)
  <2>1. \/ lengths = [c \in members |-> queued[c]]
        \/ lengths = [c \in members |-> running[c]]
    BY DEF LengthsOf, QueueOrRunning
  <2>2. \A c \in members : queued[c] \in 0..MaxLen /\ running[c] \in 0..MaxLen
    OBVIOUS
  <2> HIDE DEF members, lengths
  <2>3. \A c \in DOMAIN lengths : lengths[c] \in 0..MaxLen
    BY <2>1, <2>2
  <2> QED
    BY <2>3, RoutingConstants DEF lengths
<1> QED
  BY <1>1, <1>2, <1>3 DEF Numbers

LEMMA PruneKeepsNumbers ==
  ASSUME TableInv, Numbers, NEW r \in Requests, PruneTable(r)
  PROVE  Numbers'
<1> DEFINE g == target[r]
           kept == Known(g) \cap snapshot[r]
<1>1. /\ queueMap' = PrunedMap(g, kept) /\ stage' = "clearTables"
      /\ UNCHANGED <<weighted, weightSum>>
  BY DEF PruneTable
<1>2. kept # {} => g \in DOMAIN queueMap /\ kept \subseteq DOMAIN queueMap[g]
  BY DEF Known
<1>3. \A h \in DOMAIN queueMap' : \A b \in DOMAIN queueMap'[h] : queueMap'[h][b] \in Nat
  BY <1>1, <1>2 DEF PrunedMap, Numbers
<1> QED
  BY <1>1, <1>3 DEF Numbers

LEMMA NumbersHold == Spec => []Numbers
<1>1. Init => Numbers
  BY DEF Init, Numbers
<1>2. ASSUME TableInv, Numbers, [Next]_vars
      PROVE  Numbers'
  <2> USE DEF vars, storeVars, tableVars, computeVars, requestVars, monitorVars
  <2>1. CASE UNCHANGED vars \/ Admin \/ ForgetLists
    BY <1>2, <2>1 DEF Numbers, Admin, DeactivateBackend, ActivateBackend,
                      UpdateBackend, DeleteBackend, Change, ForgetLists
  <2>2. CASE FetchActive \/ SkipBeat \/ ReportAborts
    BY <1>2, <2>2 DEF Numbers, FetchActive, SkipBeat, ReportAborts
  <2>3. ASSUME NEW r \in Requests, Arrive(r) \/ Read(r) \/ KeepTable(r) \/ Lookup(r)
        PROVE  Numbers'
    <3>1. UNCHANGED <<tableVars, computeVars>>
      BY <1>2, <2>3, RequestLeavesTables DEF TableInv
    <3> QED
      BY <1>2, <3>1 DEF Numbers
  <2> QED
    BY <1>2, <2>1, <2>2, <2>3, ComputeKeepsNumbers, ReportKeepsNumbers,
       PruneKeepsNumbers DEF Next, Heartbeat, UpdateTable
<1> QED
  BY <1>1, <1>2, TableInvHolds, PTL DEF Spec

-----------------------------------------------------------------------------
(* A request nobody overtook finds what its own update left. *)

(* What the update leaves of the request's group: clusters it read, unless *)
(* none of those was known, or no length at all.                           *)
Pruned(r) ==
  IF target[r] \in DOMAIN queueMap
  THEN "disjoint" \in plight[r] \/ DOMAIN queueMap[target[r]] \subseteq snapshot[r]
  ELSE "unknown" \in plight[r]

(* The same of the table that was computed from it. *)
Served(r) ==
  LET g == target[r]
  IN IF g \in DOMAIN weightSum
     THEN /\ g \in DOMAIN weighted
          /\ weightSum[g] \in DOMAIN weighted[g]
          /\ \/ "disjoint" \in plight[r]
             \/ \A key \in DOMAIN weighted[g] : weighted[g][key] \in snapshot[r]
     ELSE "unknown" \in plight[r]

(* The table it looks into is the one of its group. *)
Sees(r) ==
  /\ target[r] \in DOMAIN weightSum /\ target[r] \in DOMAIN weighted
  /\ view[r] = weighted[target[r]]

CalmOf(r) ==
  \/ "raced" \in plight[r]
  \/ /\ pc[r] = "compute" => Pruned(r)
     /\ pc[r] \in Looking => Served(r)
     /\ pc[r] \in {"seeTable", "pick"} => Sees(r)
     /\ pc[r] \in {"draw", "pick"} => target[r] \in DOMAIN weightSum
     /\ pc[r] = "pick" => rnd[r] \in 0..(weightSum[target[r]] - 1)
     /\ pc[r] # "crashed"
     /\ pc[r] = "fallback" => "unknown" \in plight[r]
     /\ pc[r] = "nullTarget" => "disjoint" \in plight[r]

Calm ==
  /\ DOMAIN view = Requests /\ DOMAIN rnd = Requests
  /\ \A r \in Requests : CalmOf(r)

(* A step that leaves the request and the tables alone, and the lengths if *)
(* it is computing, keeps what it relies on.                               *)
LEMMA CalmKept ==
  ASSUME NEW r, CalmOf(r),
         UNCHANGED <<weighted, weightSum, target[r], snapshot[r], plight[r],
                     rnd[r], view[r], pc[r]>>,
         pc[r] = "compute" => queueMap' = queueMap
  PROVE  CalmOf(r)'
BY DEF CalmOf, Pruned, Served, Sees, Looking

(* A step of the computation leaves a request that is not looking up its   *)
(* table alone, and overtakes one that is.                                 *)
LEMMA ComputeKeepsCalm ==
  ASSUME TypeOK, Calm, NEW r \in Requests, NEW tables, Overtake(tables),
         UNCHANGED <<queueMap, pc, target, snapshot, rnd>>
  PROVE  CalmOf(r)'
<1>1. CASE pc[r] \in Looking
  <2>1. "raced" \in plight'[r]
    BY <1>1 DEF Overtake
  <2> QED
    BY <2>1 DEF CalmOf
<1>2. CASE pc[r] \notin Looking
  <2>1. plight'[r] = plight[r]
    BY <1>2 DEF Overtake
  <2> QED
    BY <1>2, <2>1 DEF Calm, CalmOf, Pruned, Looking
<1> QED
  BY <1>1, <1>2

LEMMA ReleaseKeepsCalm ==
  ASSUME TableInv, Calm, Release, NEW r \in Requests
  PROVE  CalmOf(r)'
<1>1. UNCHANGED <<queueMap, weighted, weightSum, target, snapshot, plight, rnd, view>>
  BY DEF Release, tableVars
<1>2. CASE lock = r
  <2>1. pc[r] = "compute" /\ pc'[r] = "seeSum"
    BY <1>2, RoutingConstants DEF Release, TableInv, Locking, TypeOK
  <2>2. /\ DOMAIN weighted = DOMAIN queueMap /\ DOMAIN weightSum = DOMAIN queueMap
        /\ \A g \in DOMAIN queueMap : Fits(g)
    BY DEF Release, TableInv, Computing
  <2>3. "raced" \in plight[r] \/ Pruned(r)
    BY <2>1 DEF Calm, CalmOf
  <2>4. Pruned(r) => Served(r)
    BY <2>2 DEF Pruned, Served, Fits
  <2>5. Served(r)' <=> Served(r)
    BY <1>1 DEF Served
  <2> QED
    BY <1>1, <2>1, <2>3, <2>4, <2>5 DEF CalmOf
<1>3. CASE lock # r
  <2>1. pc'[r] = pc[r]
    BY <1>3 DEF Release, TableInv, TypeOK
  <2> QED
    BY <1>1, <2>1, CalmKept DEF Calm
<1> QED
  BY <1>2, <1>3

LEMMA LookupKeepsCalm ==
  ASSUME TypeOK, Numbers, Calm, NEW r \in Requests, Lookup(r)
  PROVE  CalmOf(r)'
<1> DEFINE g == target[r]
<1>1. /\ UNCHANGED <<queueMap, weighted, weightSum, target, snapshot, plight>>
      /\ pc[r] \in Looking \cup {"fallback"}
  BY DEF Lookup, SeeSum, SeeTable, DrawFrom, DrawCrashes, Pick, PickCrashes, Fallback,
         FallbackCrashes, Goto, Finish, Looking, tableVars
<1>2. Served(r)' <=> Served(r)
  BY <1>1 DEF Served
<1> SUFFICES ASSUME "raced" \notin plight[r]
             PROVE  CalmOf(r)'
  BY <1>1 DEF CalmOf
<1>3. /\ pc[r] \in Looking => Served(r)
      /\ pc[r] \in {"seeTable", "pick"} => Sees(r)
      /\ pc[r] \in {"draw", "pick"} => g \in DOMAIN weightSum
      /\ pc[r] = "pick" => rnd[r] \in 0..(weightSum[g] - 1)
  BY DEF Calm, CalmOf
<1>4. Served(r) /\ g \in DOMAIN weightSum => Visible(g) = {weighted[g]}
  BY DEF Served, Visible, TableIn
<1>5. CASE SeeSum(r)
  <2>1. pc[r] = "seeSum" /\ Served(r)
    BY <1>3, <1>5 DEF SeeSum, Looking
  <2>2. CASE g \in DOMAIN weightSum
    <3>1. pc'[r] = "seeTable" /\ view'[r] = weighted[g]
      BY <1>4, <1>5, <2>1, <2>2 DEF SeeSum, Goto, TypeOK, Calm
    <3>2. view' = [view EXCEPT ![r] = weighted[g]] /\ g \in DOMAIN weighted
      BY <1>4, <1>5, <2>1, <2>2 DEF SeeSum, Served
    <3> QED
      BY <1>1, <1>2, <2>1, <2>2, <3>1, <3>2 DEF CalmOf, Sees, Looking
  <2>3. CASE g \notin DOMAIN weightSum
    <3>1. pc'[r] = "fallback" /\ "unknown" \in plight[r]
      BY <1>5, <2>1, <2>3 DEF SeeSum, Goto, TypeOK, Served
    <3> QED
      BY <1>1, <3>1 DEF CalmOf, Looking
  <2> QED
    BY <2>2, <2>3
<1>6. CASE SeeTable(r)
  <2>1. Served(r) /\ Sees(r)
    BY <1>3, <1>6 DEF SeeTable, Looking
  <2>2. view[r] # NoTable
    BY <2>1 DEF Served, Sees, NoTable
  <2>3. pc'[r] = "draw"
    BY <1>6, <2>2 DEF SeeTable, Goto, TypeOK
  <2> QED
    BY <1>1, <1>2, <2>1, <2>3 DEF CalmOf, Looking, Sees
<1>7. CASE DrawFrom(r)
  <2>1. Served(r) /\ g \in DOMAIN weightSum /\ pc'[r] = "pick"
    BY <1>3, <1>7 DEF DrawFrom, Looking, TypeOK
  <2>2. view'[r] = weighted[g] /\ g \in DOMAIN weighted
    BY <1>4, <1>7, <2>1 DEF DrawFrom, Served, Calm
  <2>3. rnd'[r] \in 0..(weightSum[g] - 1)
    BY <1>7 DEF DrawFrom, Calm
  <2> QED
    BY <1>1, <1>2, <2>1, <2>2, <2>3 DEF CalmOf, Sees, Looking
<1>8. CASE Pick(r)
  <2>1. Served(r) /\ Sees(r)
    BY <1>3, <1>8 DEF Pick, Looking
  <2>2. PICK b \in HigherEntry(view[r], rnd[r]) :
          IF b \in snapshot[r] THEN Finish(r, "routed", b)
          ELSE Finish(r, "nullTarget", NoBackend)
    BY <1>8 DEF Pick
  <2>3. \E key \in DOMAIN weighted[g] : b = weighted[g][key]
    BY <2>1 DEF Sees, HigherEntry
  <2>4. b \in snapshot[r] \/ "disjoint" \in plight[r]
    BY <2>1, <2>3 DEF Served, Sees
  <2>5. pc'[r] = "routed" \/ (pc'[r] = "nullTarget" /\ "disjoint" \in plight[r])
    BY <2>2, <2>4 DEF Finish, TypeOK
  <2> QED
    BY <1>1, <2>5 DEF CalmOf, Looking
<1>9. CASE Fallback(r) \/ FallbackCrashes(r)
  <2>1. pc'[r] \in {"routed", "badIndex"}
    BY <1>9 DEF Fallback, FallbackCrashes, Finish, TypeOK
  <2> QED
    BY <2>1 DEF CalmOf, Looking
<1>10. ~DrawCrashes(r)
  <2> SUFFICES ASSUME DrawCrashes(r) PROVE FALSE
    OBVIOUS
  <2>1. g \in DOMAIN weightSum /\ weightSum[g] <= 0
    BY <1>3 DEF DrawCrashes
  <2> QED
    BY <2>1 DEF Numbers
<1>11. ~PickCrashes(r)
  <2> SUFFICES ASSUME PickCrashes(r) PROVE FALSE
    OBVIOUS
  <2>1. /\ Served(r) /\ Sees(r) /\ rnd[r] \in 0..(weightSum[g] - 1)
        /\ HigherEntry(view[r], rnd[r]) = {}
    BY <1>3 DEF PickCrashes, Looking
  <2>2. /\ view[r] = weighted[g] /\ DOMAIN view[r] \subseteq Nat
        /\ weightSum[g] \in DOMAIN view[r] /\ weightSum[g] \in Nat
    BY <2>1 DEF Served, Sees, Numbers
  <2>3. rnd[r] \in Nat /\ rnd[r] < weightSum[g]
    BY <2>1, <2>2
  <2> QED
    BY <2>1, <2>2, <2>3, EntryAbove
<1> QED
  BY <1>5, <1>6, <1>7, <1>8, <1>9, <1>10, <1>11 DEF Lookup

LEMMA UpdateKeepsCalm ==
  ASSUME TableInv, Calm, NEW r \in Requests, UpdateTable(r)
  PROVE  CalmOf(r)'
<1> DEFINE g == target[r]
           kept == Known(g) \cap snapshot[r]
<1>1. CASE KeepTable(r)
  <2>1. /\ UNCHANGED <<queueMap, weighted, weightSum, target, snapshot, plight>>
        /\ pc'[r] = "seeSum"
    BY <1>1 DEF KeepTable, Goto, tableVars, TableInv, TypeOK
  <2>2. g \in DOMAIN queueMap /\ DOMAIN queueMap[g] \subseteq snapshot[r]
    BY <1>1 DEF KeepTable, NothingMissing, Known
  <2>3. DOMAIN weightSum = DOMAIN queueMap /\ Fits(g)
    BY <1>1, <2>2 DEF KeepTable, TableInv, TablesAgree
  <2>4. Served(r)
    BY <2>2, <2>3 DEF Served, Fits
  <2>5. Served(r)'
    BY <2>1, <2>4 DEF Served
  <2> QED
    BY <2>1, <2>5 DEF CalmOf
<1>2. CASE PruneTable(r)
  <2>1. /\ queueMap' = PrunedMap(g, kept) /\ UNCHANGED <<target, snapshot>>
        /\ pc'[r] = "compute"
        /\ plight' = [plight EXCEPT ![r] =
                        @ \cup CASE kept # {} -> {}
                                 [] kept = {} /\ g \in DOMAIN queueMap -> {"disjoint"}
                                 [] g \notin DOMAIN queueMap -> {"unknown"}]
    BY <1>2 DEF PruneTable, TableInv, TypeOK
  <2>2. DOMAIN plight = Requests
    BY DEF TableInv, TypeOK
  <2>3. CASE kept # {}
    <3>1. g \in DOMAIN queueMap
      BY <2>3 DEF Known
    <3>2. g \in DOMAIN queueMap' /\ DOMAIN queueMap'[g] = kept
      BY <2>1, <2>3, <3>1 DEF PrunedMap
    <3> QED
      BY <2>1, <3>2 DEF CalmOf, Pruned, Looking
  <2>4. CASE kept = {} /\ g \in DOMAIN queueMap
    BY <2>1, <2>2, <2>4 DEF CalmOf, Pruned, PrunedMap, Looking
  <2>5. CASE kept = {} /\ g \notin DOMAIN queueMap
    BY <2>1, <2>2, <2>5 DEF CalmOf, Pruned, PrunedMap, Looking
  <2> QED
    BY <2>3, <2>4, <2>5
<1> QED
  BY <1>1, <1>2 DEF UpdateTable

(* A request's step concerns the others through the lengths only, and      *)
(* those it changes under the lock.                                        *)
LEMMA RequestKeepsCalm ==
  ASSUME TableInv, Numbers, Calm, NEW r \in Requests,
         Arrive(r) \/ Read(r) \/ UpdateTable(r) \/ Lookup(r)
  PROVE  Calm'
<1>1. DOMAIN view' = Requests /\ DOMAIN rnd' = Requests
  BY DEF Calm, Arrive, ArriveForGroup, ArriveForAdhoc, Read, ReadActive, ReadAdhoc,
         Refuse, StoreFails, UpdateTable, KeepTable, PruneTable, Lookup, SeeSum,
         SeeTable, DrawFrom, DrawCrashes, Pick, PickCrashes, Fallback,
         FallbackCrashes, Finish, Goto
<1>2. CalmOf(r)'
  <2>1. CASE Arrive(r)
    <3>1. pc'[r] \in {"readActive", "readAdhoc"}
      BY <2>1 DEF Arrive, ArriveForGroup, ArriveForAdhoc, Goto, TableInv, TypeOK
    <3> QED
      BY <3>1 DEF CalmOf, Looking
  <2>2. CASE Read(r)
    <3>1. pc'[r] \in {"readAdhoc", "update", "refused", "storeError"}
      BY <2>2 DEF Read, ReadActive, ReadAdhoc, Refuse, StoreFails, Goto, Finish,
                  TableInv, TypeOK
    <3> QED
      BY <3>1 DEF CalmOf, Looking
  <2> QED
    BY <2>1, <2>2, UpdateKeepsCalm, LookupKeepsCalm DEF TableInv
<1>3. ASSUME NEW s \in Requests \ {r}
      PROVE  CalmOf(s)'
  <2>1. /\ UNCHANGED <<weighted, weightSum>>
        /\ target'[s] = target[s] /\ snapshot'[s] = snapshot[s]
        /\ plight'[s] = plight[s] /\ pc'[s] = pc[s]
    BY DEF Arrive, ArriveForGroup, ArriveForAdhoc, Read, ReadActive, ReadAdhoc,
           Refuse, StoreFails, UpdateTable, KeepTable, PruneTable, Lookup, SeeSum,
           SeeTable, DrawFrom, DrawCrashes, Pick, PickCrashes, Fallback,
           FallbackCrashes, Finish, Goto, tableVars, TableInv, TypeOK
  <2>2. view'[s] = view[s] /\ rnd'[s] = rnd[s]
    BY DEF Arrive, ArriveForGroup, ArriveForAdhoc, Read, ReadActive, ReadAdhoc,
           Refuse, StoreFails, UpdateTable, KeepTable, PruneTable, Lookup, SeeSum,
           SeeTable, DrawFrom, DrawCrashes, Pick, PickCrashes, Fallback,
           FallbackCrashes, Finish, Goto, Calm
  <2>3. pc[s] = "compute" => queueMap' = queueMap
    <3>1. CASE PruneTable(r)
      BY <3>1, RoutingConstants DEF PruneTable, TableInv, Locking
    <3>2. CASE ~PruneTable(r)
      BY <3>2 DEF Arrive, ArriveForGroup, ArriveForAdhoc, Read, ReadActive, ReadAdhoc,
           Refuse, StoreFails, UpdateTable, KeepTable, Lookup, SeeSum,
           SeeTable, DrawFrom, DrawCrashes, Pick, PickCrashes, Fallback,
           FallbackCrashes, Finish, Goto, tableVars
    <3> QED
      BY <3>1, <3>2
  <2> QED
    BY <2>1, <2>2, <2>3, CalmKept DEF Calm
<1> QED
  BY <1>1, <1>2, <1>3 DEF Calm

(* Administrators and the monitor touch no request; the lengths they       *)
(* change only while no request computes.                                  *)
LEMMA OthersKeepCalm ==
  ASSUME TableInv, Calm, Admin \/ ForgetLists \/ Heartbeat \/ UNCHANGED vars
  PROVE  Calm'
<1>1. UNCHANGED <<weighted, weightSum, requestVars>>
  BY DEF Admin, DeactivateBackend, ActivateBackend, UpdateBackend, DeleteBackend,
         Change, ForgetLists, Heartbeat, FetchActive, SkipBeat, ReportAborts, Report,
         vars, tableVars
<1>2. queueMap' # queueMap => lock = Free
  BY DEF Admin, DeactivateBackend, ActivateBackend, UpdateBackend, DeleteBackend,
         Change, ForgetLists, Heartbeat, FetchActive, SkipBeat, ReportAborts, Report,
         vars, tableVars
<1>3. \A r \in Requests : pc[r] = "compute" => queueMap' = queueMap
  BY <1>2, RoutingConstants DEF TableInv, Locking
<1> QED
  BY <1>1, <1>3, CalmKept DEF Calm, requestVars

LEMMA ComputeStepKeepsCalm ==
  ASSUME TableInv, Calm, Compute
  PROVE  Calm'
<1>1. DOMAIN view' = Requests /\ DOMAIN rnd' = Requests
  BY DEF Compute, ClearTables, ClearSums, PutTable, PutSum, Release, Overtake, Calm
<1>2. ASSUME NEW r \in Requests PROVE CalmOf(r)'
  <2>1. CASE Release
    BY <2>1, ReleaseKeepsCalm
  <2>2. CASE ClearTables \/ ClearSums \/ PutSum
             \/ \E g \in todo : \E order \in SortedOrders(queueMap[g]) : PutTable(g, order)
    <3>1. /\ \E tables : Overtake(tables)
          /\ UNCHANGED <<queueMap, pc, target, snapshot, rnd>>
      BY <2>2 DEF ClearTables, ClearSums, PutTable, PutSum
    <3> QED
      BY <3>1, ComputeKeepsCalm DEF TableInv
  <2> QED
    BY <2>1, <2>2 DEF Compute
<1> QED
  BY <1>1, <1>2 DEF Calm

LEMMA CalmHolds == Spec => []Calm
<1>1. Init => Calm
  BY DEF Init, Calm, CalmOf, Looking
<1>2. TableInv /\ Numbers /\ Calm /\ [Next]_vars => Calm'
  BY OthersKeepCalm, ComputeStepKeepsCalm, RequestKeepsCalm DEF Next
<1> QED
  BY <1>1, <1>2, TableInvHolds, NumbersHold, PTL DEF Spec

(* Behind a null target there is a race, or a table whose clusters the     *)
(* request did not read a single one of.                                   *)
THEOREM NullAlwaysExplained == Spec => []NullOnlyWhenRacedOrDisjoint
<1>1. Calm => NullOnlyWhenRacedOrDisjoint
  BY DEF Calm, CalmOf, NullOnlyWhenRacedOrDisjoint
<1> QED
  BY <1>1, CalmHolds, PTL

(* The random distribution serves only a group of which no lengths were    *)
(* known when the request updated its table, or a request that was         *)
(* overtaken.                                                              *)
THEOREM FallbackAlwaysExplained == Spec => []FallbackOnlyWhenUnknown
<1>1. Calm => FallbackOnlyWhenUnknown
  BY DEF Calm, CalmOf, FallbackOnlyWhenUnknown
<1> QED
  BY <1>1, CalmHolds, PTL

(* getEligibleBackEnd throws only for a request that another thread's      *)
(* recomputation overtook: left alone, it finds the table of its own       *)
(* update, with a positive sum and an entry above every draw.              *)
THEOREM CrashAlwaysByRace == Spec => []CrashOnlyByRace
<1>1. Calm => CrashOnlyByRace
  BY DEF Calm, CalmOf, CrashOnlyByRace
<1> QED
  BY <1>1, CalmHolds, PTL

-----------------------------------------------------------------------------
(* The contract: every step of the table is one of RoutingContract's, or   *)
(* changes nothing that it speaks of.                                      *)

Status == [r \in Requests |-> StatusOf(pc[r])]
Active == [g \in Groups |-> ActiveBackends(g)]
ByGroup(list) == [g \in Groups |-> Members(list, g)]
Stale == {ByGroup(list) : list \in stale}

(* A step that leaves the rows and the old lists alone. *)
LEMMA ListsStay ==
  ASSUME UNCHANGED <<store, stale>>
  PROVE  Active' = Active /\ Stale' = Stale
BY DEF Active, Stale, ByGroup, ActiveBackends, Members, ActiveMap

(* What the table may read for a group, the contract may show. *)
LEMMA ListIsShown ==
  ASSUME TypeOK, NEW r \in Requests, NEW list \in Lists
  PROVE  Members(list, target[r]) \in Contract!Shown(r)
<1>1. Active = ByGroup(ActiveMap)
  BY DEF Active, ByGroup, ActiveBackends
<1>2. ByGroup(list) \in Stale \cup {Active}
  BY <1>1 DEF Lists, Stale
<1>3. ByGroup(list)[target[r]] = Members(list, target[r])
  BY DEF ByGroup, TypeOK
<1>4. Contract!Shown(r) = {lists[target[r]] : lists \in Stale \cup {Active}}
  BY DEF Contract!Shown, Stale, Active, ByGroup
<1> QED
  BY <1>2, <1>3, <1>4

(* A change of the backends, and the end of the lists from before it. *)
LEMMA StoreIsContractual ==
  ASSUME TypeOK, Admin \/ ForgetLists
  PROVE  Contract!Next
<1>1. UNCHANGED <<Status, target, snapshot, answer>>
  BY DEF Admin, DeactivateBackend, ActivateBackend, UpdateBackend, DeleteBackend,
         Change, ForgetLists, requestVars, Status
<1>2. CASE Admin
  <2>1. stale' \subseteq Lists
    BY <1>2 DEF Admin, DeactivateBackend, ActivateBackend, UpdateBackend, DeleteBackend,
                Change, Lists
  <2>2. Stale' = {ByGroup(list) : list \in stale'}
    BY DEF Stale, ByGroup, Members
  <2>3. \A list \in Lists : ByGroup(list) \in Stale \cup {Active}
    BY DEF Lists, Stale, Active, ByGroup, ActiveBackends
  <2>4. Stale' \in SUBSET (Stale \cup {Active})
    BY <2>1, <2>2, <2>3
  <2>5. Active' \in [Groups -> SUBSET Backends]
    BY DEF Active, ActiveBackends, Members, ActiveMap
  <2>6. Contract!ChangeActive
    BY <1>1, <2>4, <2>5 DEF Contract!ChangeActive, Contract!requests, Active, Stale,
                            ByGroup, Status
  <2> QED
    BY <2>6 DEF Contract!Next
<1>3. CASE ForgetLists
  <2>1. Stale' = {} /\ Active' = Active
    BY <1>3 DEF ForgetLists, Stale, Active, ActiveBackends, Members, ActiveMap
  <2>2. Contract!ForgetLists
    BY <1>1, <2>1 DEF Contract!ForgetLists, Contract!requests, Active, Stale, ByGroup,
                      Status
  <2> QED
    BY <2>2 DEF Contract!Next
<1> QED
  BY <1>2, <1>3

(* Until a request is routed it has no answer, and in the beginning and    *)
(* for the second read its group is the adhoc one.                         *)
Pending ==
  \A r \in Requests :
    /\ pc[r] \in {"new", "readAdhoc"} => target[r] = Adhoc
    /\ pc[r] # "routed" => answer[r] = NoBackend

LEMMA StatusIs ==
  /\ StatusOf("new") = "new" /\ StatusOf("readActive") = "asking"
  /\ StatusOf("readAdhoc") = "adhoc" /\ StatusOf("update") = "offered"
  /\ StatusOf("compute") = "offered" /\ StatusOf("fallback") = "offered"
  /\ \A label \in Looking : StatusOf(label) = "offered"
  /\ StatusOf("nullTarget") = "failed" /\ StatusOf("storeError") = "failed"
  /\ StatusOf("crashed") = "failed" /\ StatusOf("badIndex") = "failed"
  /\ StatusOf("routed") = "routed" /\ StatusOf("refused") = "refused"
BY DEF StatusOf, Looking

LEMMA StatusMoves ==
  ASSUME TypeOK, NEW r \in Requests, NEW label, pc' = [pc EXCEPT ![r] = label]
  PROVE  Status' = [Status EXCEPT ![r] = StatusOf(label)]
<1> DEFINE moved == [Status EXCEPT ![r] = StatusOf(label)]
<1>1. pc'[r] = label /\ \A s \in Requests \ {r} : pc'[s] = pc[s]
  BY DEF TypeOK
<1>2. moved[r] = StatusOf(label) /\ \A s \in Requests \ {r} : moved[s] = StatusOf(pc[s])
  BY DEF Status
<1>3. moved = [s \in Requests |-> moved[s]]
  BY DEF Status
<1> HIDE DEF moved
<1>4. \A s \in Requests : StatusOf(pc'[s]) = moved[s]
  BY <1>1, <1>2
<1>5. Status' = moved
  BY <1>3, <1>4 DEF Status
<1> QED
  BY <1>5 DEF moved

(* A step that moves a request within its status. *)
LEMMA StatusStays ==
  ASSUME TypeOK, NEW r \in Requests, NEW label, pc' = [pc EXCEPT ![r] = label],
         StatusOf(label) = StatusOf(pc[r])
  PROVE  Status' = Status
<1>1. \A s \in Requests : pc'[s] = IF s = r THEN label ELSE pc[s]
  BY DEF TypeOK
<1> QED
  BY <1>1 DEF Status

LEMMA PendingStep ==
  ASSUME TableInv, Pending, [Next]_vars
  PROVE  Pending'
<1> USE DEF Pending, TypeOK, TableInv
<1>1. CASE UNCHANGED vars \/ Admin \/ ForgetLists \/ Heartbeat
  BY <1>1 DEF vars, requestVars, Admin, DeactivateBackend, ActivateBackend,
              UpdateBackend, DeleteBackend, Change, ForgetLists, Heartbeat, FetchActive,
              SkipBeat, ReportAborts, Report
<1>2. CASE Compute
  <2>1. CASE Release
    <3>1. UNCHANGED <<target, answer>> /\ lock # Free
      BY <2>1, RoutingConstants DEF Release
    <3>2. pc' = pc \/ (pc[lock] = "compute" /\ pc' = [pc EXCEPT ![lock] = "seeSum"])
      BY <2>1, RoutingConstants DEF Release, Locking
    <3> QED
      BY <3>1, <3>2
  <2>2. CASE ~Release
    BY <1>2, <2>2 DEF Compute, ClearTables, ClearSums, PutTable, PutSum
  <2> QED
    BY <2>1, <2>2
<1>3. ASSUME NEW r \in Requests, Arrive(r)
      PROVE  Pending'
  BY <1>3 DEF Arrive, ArriveForAdhoc, ArriveForGroup, Goto
<1>4. ASSUME NEW r \in Requests, Read(r)
      PROVE  Pending'
  BY <1>4 DEF Read, ReadActive, ReadAdhoc, Refuse, StoreFails, Goto, Finish
<1>5. ASSUME NEW r \in Requests, UpdateTable(r)
      PROVE  Pending'
  BY <1>5 DEF UpdateTable, KeepTable, PruneTable, Goto
<1>6. ASSUME NEW r \in Requests, Lookup(r)
      PROVE  Pending'
  BY <1>6 DEF Lookup, SeeSum, SeeTable, DrawFrom, DrawCrashes, Pick, PickCrashes,
              Fallback, FallbackCrashes, Goto, Finish
<1> QED
  BY <1>1, <1>2, <1>3, <1>4, <1>5, <1>6 DEF Next

(* The steps of everybody but the requests. *)
LEMMA OthersAreContractual ==
  ASSUME TableInv, UNCHANGED vars \/ Admin \/ ForgetLists \/ Compute \/ Heartbeat
  PROVE  [Contract!Next]_Contract!vars
<1> USE DEF storeVars, tableVars, computeVars, requestVars, monitorVars
<1>1. CASE UNCHANGED vars
  <2>1. UNCHANGED <<store, stale, pc, target, snapshot, answer>>
    BY <1>1 DEF vars
  <2> QED
    BY <2>1, ListsStay DEF Contract!vars, Contract!requests, Active, Stale, ByGroup, Status
<1>2. CASE Admin \/ ForgetLists
  BY <1>2, StoreIsContractual DEF TableInv
<1>3. CASE Compute \/ Heartbeat
  <2>1. UNCHANGED <<store, stale, target, snapshot, answer>>
    BY <1>3 DEF Compute, ClearTables, ClearSums, PutTable, PutSum, Release, Heartbeat,
                FetchActive, SkipBeat, ReportAborts, Report
  <2>2. pc' = pc \/ (lock \in Requests /\ pc[lock] = "compute"
                     /\ pc' = [pc EXCEPT ![lock] = "seeSum"])
    BY <1>3, RoutingConstants
       DEF Compute, ClearTables, ClearSums, PutTable, PutSum, Release, Heartbeat,
           FetchActive, SkipBeat, ReportAborts, Report, TableInv, Locking
  <2>3. Status' = Status
    <3>1. StatusOf("seeSum") = StatusOf("compute")
      BY DEF StatusOf, Looking
    <3> QED
      BY <2>2, <3>1, StatusStays DEF TableInv, Status
  <2> QED
    BY <2>1, <2>3, ListsStay DEF Contract!vars, Contract!requests, Active, Stale, ByGroup, Status
<1> QED
  BY <1>1, <1>2, <1>3

(* What a request's step to a new place does to its status. *)
LEMMA GotoIs ==
  ASSUME TypeOK, NEW r \in Requests, NEW label, Goto(r, label)
  PROVE  /\ Status' = [Status EXCEPT ![r] = StatusOf(label)]
         /\ Active' = Active /\ Stale' = Stale /\ answer' = answer
         /\ StatusOf(label) = StatusOf(pc[r]) => Status' = Status
BY StatusMoves, StatusStays, ListsStay DEF Goto, storeVars

LEMMA FinishIs ==
  ASSUME TypeOK, Pending, NEW r \in Requests, NEW outcome, NEW b,
         Finish(r, outcome, b), pc[r] # "routed"
  PROVE  /\ Status' = [Status EXCEPT ![r] = StatusOf(outcome)]
         /\ Active' = Active /\ Stale' = Stale /\ UNCHANGED <<target, snapshot>>
         /\ answer' = [answer EXCEPT ![r] = b]
         /\ b = NoBackend => answer' = answer
<1>1. b = NoBackend => answer' = answer
  BY DEF Finish, Pending, TypeOK
<1> QED
  BY <1>1, StatusMoves, ListsStay DEF Finish, storeVars

LEMMA ArriveIsContractual ==
  ASSUME TypeOK, Pending, NEW r \in Requests, Arrive(r)
  PROVE  Contract!Next
<1>1. pc[r] = "new" /\ Status[r] = "new" /\ target[r] = Adhoc
  BY StatusIs DEF Arrive, ArriveForAdhoc, ArriveForGroup, Pending, Status
<1>2. ASSUME NEW g \in Groups, ArriveForGroup(r, g)
      PROVE  Contract!Ask(r, g)
  <2>1. /\ Status' = [Status EXCEPT ![r] = "asking"]
        /\ Active' = Active /\ Stale' = Stale /\ answer' = answer
    BY <1>2, GotoIs, StatusIs DEF ArriveForGroup
  <2>2. target' = [target EXCEPT ![r] = g] /\ snapshot' = snapshot
    BY <1>2 DEF ArriveForGroup
  <2> QED
    BY <1>1, <2>1, <2>2 DEF Contract!Ask, Status, Active, Stale, ByGroup
<1>3. CASE ArriveForAdhoc(r)
  <2>1. /\ Status' = [Status EXCEPT ![r] = "adhoc"]
        /\ Active' = Active /\ Stale' = Stale /\ answer' = answer
    BY <1>3, GotoIs, StatusIs DEF ArriveForAdhoc
  <2>2. target' = [target EXCEPT ![r] = Adhoc] /\ snapshot' = snapshot
    BY <1>1, <1>3 DEF ArriveForAdhoc, TypeOK
  <2>3. Contract!Ask(r, Adhoc)
    BY <1>1, <2>1, <2>2 DEF Contract!Ask, Status, Active, Stale, ByGroup
  <2> QED
    BY <2>3, RoutingConstants DEF Contract!Next
<1> QED
  BY <1>2, <1>3 DEF Arrive, Contract!Next

LEMMA ReadIsContractual ==
  ASSUME TypeOK, Pending, NEW r \in Requests, Read(r)
  PROVE  Contract!Next
<1>2. CASE ReadActive(r)
  <2>1. Status[r] = "asking"
    BY <1>2, StatusIs DEF ReadActive, Status
  <2>2. PICK list \in Lists :
          IF Members(list, target[r]) = {}
          THEN /\ target' = [target EXCEPT ![r] = Adhoc]
               /\ Goto(r, "readAdhoc")
               /\ UNCHANGED snapshot
          ELSE /\ snapshot' = [snapshot EXCEPT ![r] = Members(list, target[r])]
               /\ Goto(r, "update")
               /\ UNCHANGED target
    BY <1>2 DEF ReadActive
  <2>3. Members(list, target[r]) \in Contract!Shown(r)
    BY ListIsShown
  <2>4. CASE Members(list, target[r]) = {}
    <3>1. /\ Status' = [Status EXCEPT ![r] = "adhoc"]
          /\ Active' = Active /\ Stale' = Stale /\ answer' = answer
      BY <2>2, <2>4, GotoIs, StatusIs
    <3>2. target' = [target EXCEPT ![r] = Adhoc] /\ snapshot' = snapshot
      BY <2>2, <2>4
    <3>3. Contract!TurnToAdhoc(r)
      BY <2>1, <2>3, <2>4, <3>1, <3>2
         DEF Contract!TurnToAdhoc, Status, Active, Stale, ByGroup
    <3> QED
      BY <3>3 DEF Contract!Next
  <2>5. CASE Members(list, target[r]) # {}
    <3>1. /\ Status' = [Status EXCEPT ![r] = "offered"]
          /\ Active' = Active /\ Stale' = Stale /\ answer' = answer
      BY <2>2, <2>5, GotoIs, StatusIs
    <3>2. /\ snapshot' = [snapshot EXCEPT ![r] = Members(list, target[r])]
          /\ target' = target
      BY <2>2, <2>5
    <3>3. Contract!Offer(r)
      BY <2>1, <2>3, <2>5, <3>1, <3>2
         DEF Contract!Offer, Status, Active, Stale, ByGroup
    <3> QED
      BY <3>3 DEF Contract!Next
  <2> QED
    BY <2>4, <2>5
<1>3. CASE ReadAdhoc(r)
  <2>1. Status[r] = "adhoc" /\ target[r] = Adhoc
    BY <1>3, StatusIs DEF ReadAdhoc, Status, Pending
  <2>2. /\ Status' = [Status EXCEPT ![r] = "offered"]
        /\ Active' = Active /\ Stale' = Stale /\ answer' = answer
    BY <1>3, GotoIs, StatusIs DEF ReadAdhoc
  <2>3. PICK list \in Lists :
          /\ Members(list, Adhoc) # {}
          /\ snapshot' = [snapshot EXCEPT ![r] = Members(list, Adhoc)]
    BY <1>3 DEF ReadAdhoc
  <2>4. Members(list, Adhoc) \in Contract!Shown(r) /\ target' = target
    BY <1>3, <2>1, ListIsShown DEF ReadAdhoc
  <2>5. Contract!Offer(r)
    BY <2>1, <2>2, <2>3, <2>4 DEF Contract!Offer, Status, Active, Stale, ByGroup
  <2> QED
    BY <2>5 DEF Contract!Next
<1>4. CASE Refuse(r)
  <2>1. Status[r] = "adhoc" /\ target[r] = Adhoc
    BY <1>4, StatusIs DEF Refuse, Status, Pending
  <2>2. {} \in Contract!Shown(r)
    BY <1>4, <2>1, ListIsShown DEF Refuse
  <2>3. /\ Status' = [Status EXCEPT ![r] = "refused"]
        /\ Active' = Active /\ Stale' = Stale
        /\ UNCHANGED <<target, snapshot, answer>>
    BY <1>4, FinishIs, StatusIs DEF Refuse
  <2>4. Contract!Refuse(r)
    BY <2>1, <2>2, <2>3 DEF Contract!Refuse, Status, Active, Stale, ByGroup
  <2> QED
    BY <2>4 DEF Contract!Next
<1>5. CASE StoreFails(r)
  <2>1. Status[r] \in {"asking", "adhoc"}
    BY <1>5, StatusIs DEF StoreFails, Status
  <2>2. /\ Status' = [Status EXCEPT ![r] = "failed"] /\ Active' = Active /\ Stale' = Stale
        /\ UNCHANGED <<target, snapshot, answer>>
    BY <1>5, FinishIs, StatusIs DEF StoreFails
  <2>3. Contract!Fail(r)
    BY <2>1, <2>2 DEF Contract!Fail, Status, Active, Stale, ByGroup
  <2> QED
    BY <2>3 DEF Contract!Next
<1> QED
  BY <1>2, <1>3, <1>4, <1>5 DEF Read

LEMMA LookupIsContractual ==
  ASSUME TypeOK, Pending, NEW r \in Requests, UpdateTable(r) \/ Lookup(r)
  PROVE  [Contract!Next]_Contract!vars
<1>1. /\ StatusOf(pc[r]) = "offered" /\ Status[r] = "offered"
      /\ pc[r] # "routed" /\ pc[r] # "compute"
  <2>1. pc[r] \in Looking \cup {"update", "fallback"}
    BY DEF UpdateTable, KeepTable, PruneTable, Lookup, SeeSum, SeeTable, DrawFrom,
           DrawCrashes, Pick, PickCrashes, Fallback, FallbackCrashes, Looking
  <2> QED
    BY <2>1, StatusIs DEF Status, Looking
<1>2. ASSUME NEW b \in snapshot[r], Finish(r, "routed", b)
      PROVE  Contract!Next
  <2>1. /\ Status' = [Status EXCEPT ![r] = "routed"] /\ Active' = Active /\ Stale' = Stale
        /\ UNCHANGED <<target, snapshot>> /\ answer' = [answer EXCEPT ![r] = b]
    BY <1>1, <1>2, FinishIs, StatusIs
  <2>2. Contract!Route(r, b)
    BY <1>1, <2>1 DEF Contract!Route, Status, Active, Stale, ByGroup
  <2>3. b \in Backends
    BY DEF TypeOK
  <2> QED
    BY <2>2, <2>3 DEF Contract!Next
<1>3. ASSUME NEW outcome \in {"nullTarget", "crashed", "badIndex"},
             Finish(r, outcome, NoBackend)
      PROVE  Contract!Next
  <2>1. /\ Status' = [Status EXCEPT ![r] = "failed"] /\ Active' = Active /\ Stale' = Stale
        /\ UNCHANGED <<target, snapshot, answer>>
    BY <1>1, <1>3, FinishIs, StatusIs
  <2>2. Contract!Fail(r)
    BY <1>1, <2>1 DEF Contract!Fail, Status, Active, Stale, ByGroup
  <2> QED
    BY <2>2 DEF Contract!Next
<1>4. ASSUME NEW label \in Looking \cup {"compute", "fallback"},
             pc' = [pc EXCEPT ![r] = label],
             UNCHANGED <<store, stale, target, snapshot, answer>>
      PROVE  UNCHANGED Contract!vars
  <2>1. Status' = Status
    BY <1>1, <1>4, StatusIs, StatusStays
  <2> QED
    BY <1>4, <2>1, ListsStay DEF Contract!vars, Contract!requests, Active, Stale, ByGroup, Status
<1>5. CASE KeepTable(r) \/ PruneTable(r) \/ SeeSum(r) \/ SeeTable(r) \/ DrawFrom(r)
  <2>1. /\ \E label \in Looking \cup {"compute", "fallback"} : pc' = [pc EXCEPT ![r] = label]
        /\ UNCHANGED <<store, stale, target, snapshot, answer>>
    BY <1>5 DEF KeepTable, PruneTable, SeeSum, SeeTable, DrawFrom, Goto, Looking,
                storeVars
  <2> QED
    BY <1>4, <2>1
<1>6. CASE DrawCrashes(r) \/ PickCrashes(r) \/ FallbackCrashes(r)
  BY <1>3, <1>6 DEF DrawCrashes, PickCrashes, FallbackCrashes
<1>7. CASE Pick(r) \/ Fallback(r)
  BY <1>2, <1>3, <1>7 DEF Pick, Fallback
<1> QED
  BY <1>5, <1>6, <1>7 DEF UpdateTable, Lookup

(* The routing table implements its contract: whatever the tables hold and *)
(* however the threads interleave, a request is given only a backend that  *)
(* was active in its group, or in the adhoc group, when it was read, or    *)
(* before a change that the query cache may still hide.                    *)
THEOREM RoutingImplements == Spec => ImplementsContract
<1>1. Init => Contract!Init /\ Pending
  <2>1. Init => Contract!Init
    BY StatusIs DEF Init, Contract!Init, ActiveBackends, Members, ActiveMap
  <2> QED
    BY <2>1 DEF Init, Pending
<1>2. TableInv /\ Pending /\ [Next]_vars => Pending' /\ [Contract!Next]_Contract!vars
  BY PendingStep, OthersAreContractual, ArriveIsContractual, ReadIsContractual,
     LookupIsContractual DEF Next, TableInv
<1> QED
  BY <1>1, <1>2, TableInvHolds, PTL DEF Spec, ImplementsContract, Contract!Spec

-----------------------------------------------------------------------------
(* The monitor's contract: what each step does to the known clusters.      *)

LEMMA BeatsBegin ==
  ASSUME Init
  PROVE  Beats!Init
BY DEF Init, Rows, Beats!Init, Beats!Rows

(* The steps of a beat. *)
LEMMA HeartbeatIsABeat ==
  ASSUME TypeOK, Heartbeat
  PROVE  Beats!End \/ (Beats!Next /\ UNCHANGED queueMap)
<1>1. CASE FetchActive
  <2>1. UNCHANGED <<store, stale, queueMap>>
    BY <1>1 DEF FetchActive, storeVars, tableVars
  <2>2. monitorPc = "sleep" /\ monitorPc' = "observe"
    BY <1>1 DEF FetchActive
  <2>3. seen' \in stale \cup {Beats!ActiveMap}
    BY <1>1 DEF FetchActive, Lists, ActiveMap, Beats!ActiveMap
  <2>4. Beats!Begin
    BY <2>1, <2>2, <2>3 DEF Beats!Begin, Known
  <2> QED
    BY <2>1, <2>4 DEF Beats!Next
<1>2. CASE SkipBeat
  <2>1. /\ monitorPc = "observe" /\ monitorPc' = "sleep" /\ seen' = <<>>
        /\ UNCHANGED <<store, stale, queueMap>>
    BY <1>2 DEF SkipBeat, storeVars, tableVars
  <2>2. Beats!End
    BY <2>1 DEF Beats!End, Known
  <2> QED
    BY <2>2
<1>3. CASE ReportAborts
  <2>1. /\ monitorPc = "observe" /\ monitorPc' = "sleep" /\ seen' = <<>>
        /\ UNCHANGED <<store, stale>> /\ queueMap' = <<>>
    BY <1>3 DEF ReportAborts, storeVars
  <2>2. [g \in DOMAIN queueMap |-> Known(g)]' = <<>>
    BY <2>1
  <2>3. Beats!End
    BY <2>1, <2>2 DEF Beats!End
  <2> QED
    BY <2>3
<1>4. ASSUME NEW answering \in SUBSET DOMAIN seen,
             NEW queued \in [answering -> 0..MaxLen],
             NEW running \in [answering -> 0..MaxLen],
             Report(queued, running)
      PROVE  Beats!End
  <2>1. /\ monitorPc = "observe" /\ monitorPc' = "compute" /\ seen' = <<>>
        /\ UNCHANGED <<store, stale>> /\ queueMap' = ReportedMap(queued, running)
    BY <1>4 DEF Report, storeVars
  <2>2. /\ DOMAIN queueMap' = {seen[b] : b \in answering}
        /\ \A g \in DOMAIN queueMap' :
             queueMap'[g] = LengthsOf(g, queued, running)
    BY <2>1 DEF ReportedMap
  <2>3. ASSUME NEW g
        PROVE  DOMAIN LengthsOf(g, queued, running) = {b \in answering : seen[b] = g}
    BY DEF LengthsOf, QueueOrRunning
  <2>4. [g \in DOMAIN queueMap |-> Known(g)]' = Beats!ReportOn(answering)
    BY <2>2, <2>3 DEF Beats!ReportOn, Known
  <2> QED
    BY <2>1, <2>4 DEF Beats!End
<1> QED
  BY <1>1, <1>2, <1>3, <1>4 DEF Heartbeat

(* A request that brings the table up to date forgets clusters, or none. *)
LEMMA UpdateForgets ==
  ASSUME TypeOK, NEW r \in Requests, PruneTable(r)
  PROVE  Forget \/ UNCHANGED <<store, stale, seen, monitorPc, queueMap>>
<1>1. PICK g, kept : g = target[r] /\ kept = Known(g) \cap snapshot[r]
  OBVIOUS
<1>2. UNCHANGED <<storeVars, monitorVars>> /\ queueMap' = PrunedMap(g, kept)
  BY <1>1 DEF PruneTable
<1>3. CASE kept = {}
  BY <1>2, <1>3 DEF PrunedMap, storeVars, monitorVars
<1>4. CASE kept # {}
  <2>1. g \in DOMAIN queueMap /\ kept \subseteq Known(g)
    BY <1>1, <1>4 DEF Known
  <2>2. queueMap' = [queueMap EXCEPT ![g] = [b \in kept |-> queueMap[g][b]]]
    BY <1>2, <1>4 DEF PrunedMap
  <2>3. Known(g)' = kept
    <3>1. g \in DOMAIN queueMap' /\ queueMap'[g] = [b \in kept |-> queueMap[g][b]]
      BY <2>1, <2>2
    <3> QED
      BY <3>1 DEF Known
  <2> QED
    BY <1>2, <1>4, <2>1, <2>2, <2>3 DEF Forget
<1> QED
  BY <1>3, <1>4

(* Every other step leaves the known clusters alone. *)
LEMMA OthersForgetNothing ==
  ASSUME TableInv,
         \/ UNCHANGED vars \/ Compute
         \/ \E r \in Requests : Arrive(r) \/ Read(r) \/ KeepTable(r) \/ Lookup(r)
  PROVE  UNCHANGED <<store, stale, queueMap, seen>> /\ (monitorPc = "observe" <=> monitorPc' = "observe")
<1> USE DEF vars, storeVars, tableVars, monitorVars
<1>1. CASE UNCHANGED vars
  BY <1>1
<1>2. CASE Compute
  <2>1. UNCHANGED <<store, stale, queueMap, seen>>
    BY <1>2 DEF Compute, ClearTables, ClearSums, PutTable, PutSum, Release
  <2>2. ~Release => UNCHANGED monitorPc
    BY <1>2 DEF Compute, ClearTables, ClearSums, PutTable, PutSum
  <2>3. Release => lock # Free /\ (UNCHANGED monitorPc
                                  \/ (lock = Monitor /\ monitorPc' = "sleep"))
    BY RoutingConstants DEF Release
  <2> QED
    BY <2>1, <2>2, <2>3 DEF TableInv, Locking
<1>3. ASSUME NEW r \in Requests, Arrive(r) \/ Read(r) \/ KeepTable(r) \/ Lookup(r)
      PROVE  UNCHANGED <<store, stale, queueMap, seen, monitorPc>>
  BY <1>3 DEF Arrive, ArriveForAdhoc, ArriveForGroup, Read, ReadActive, ReadAdhoc, Refuse,
              StoreFails, KeepTable, Lookup, SeeSum, SeeTable, DrawFrom, DrawCrashes, Pick,
              PickCrashes, Fallback, FallbackCrashes, Goto, Finish
<1> QED
  BY <1>1, <1>2, <1>3

LEMMA ChangeIsAChange ==
  ASSUME TypeOK, Admin \/ ForgetLists
  PROVE  Beats!Next /\ UNCHANGED queueMap
<1>1. CASE Admin
  <2>1. PICK b \in Backends, row \in Rows \cup {NoRow} : Change(b, row)
    BY <1>1 DEF Admin, DeactivateBackend, ActivateBackend, UpdateBackend, DeleteBackend,
                Rows, TypeOK
  <2>2. /\ store' = [store EXCEPT ![b] = row]
        /\ UNCHANGED <<queueMap, monitorPc, seen>>
    BY <2>1 DEF Change, tableVars, monitorVars
  <2>3. stale' \in SUBSET (stale \cup {Beats!ActiveMap})
    BY <2>1 DEF Change, ActiveMap, Beats!ActiveMap
  <2>4. Beats!Change
    BY <2>2, <2>3 DEF Beats!Change, Beats!Rows, Rows, Known
  <2> QED
    BY <2>2, <2>4 DEF Beats!Next
<1>2. CASE ForgetLists
  <2>1. Beats!ForgetLists /\ UNCHANGED queueMap
    BY <1>2 DEF ForgetLists, Beats!ForgetLists, tableVars, monitorVars, Known
  <2> QED
    BY <2>1 DEF Beats!Next
<1> QED
  BY <1>1, <1>2

(* updateRoutingTable with statistics is the only way for a cluster into   *)
(* clusterQueueLengthMap, and puts there exactly the clusters that answered*)
(* in this beat, each in the group of the list it began with; a request's  *)
(* updateRoutingTable only takes clusters of its group away, never all.    *)
THEOREM AlwaysReportedByBeats == Spec => OnlyBeatsReport
<1>1. Init => Beats!Init
  BY BeatsBegin
<1>2. TableInv /\ [Next]_vars =>
        [\/ Beats!End
         \/ Forget
         \/ Beats!Next /\ UNCHANGED queueMap]_<<Beats!vars, queueMap>>
  <2> SUFFICES ASSUME TableInv, [Next]_vars
               PROVE  \/ Beats!End
                      \/ Forget
                      \/ Beats!Next /\ UNCHANGED queueMap
                      \/ UNCHANGED <<Beats!vars, queueMap>>
    OBVIOUS
  <2>1. CASE Admin \/ ForgetLists
    BY <2>1, ChangeIsAChange DEF TableInv
  <2>2. CASE Heartbeat
    BY <2>2, HeartbeatIsABeat DEF TableInv
  <2>3. ASSUME UNCHANGED <<store, stale, queueMap, seen>>,
               monitorPc = "observe" <=> monitorPc' = "observe"
        PROVE  UNCHANGED <<Beats!vars, queueMap>>
    BY <2>3 DEF Beats!vars, Known
  <2>4. ASSUME NEW r \in Requests, PruneTable(r)
        PROVE  Forget \/ UNCHANGED <<Beats!vars, queueMap>>
    BY <2>3, <2>4, UpdateForgets DEF TableInv
  <2>5. CASE \/ UNCHANGED vars \/ Compute
             \/ \E r \in Requests : Arrive(r) \/ Read(r) \/ KeepTable(r) \/ Lookup(r)
    BY <2>3, <2>5, OthersForgetNothing
  <2> QED
    BY <2>1, <2>2, <2>4, <2>5 DEF Next, UpdateTable
<1> QED
  BY <1>1, <1>2, TableInvHolds, PTL DEF Spec, OnlyBeatsReport
=================================================================================
