----------------------------- MODULE RoutingTable -----------------------------
(***************************************************************************)
(* PrestoQueueLengthRoutingTable as the gateway runs it: one instance,     *)
(* shared by the request threads, which read the active backends of their  *)
(* group from the database, bring the table up to date under the lock and  *)
(* then look a cluster up without it, and by the cluster monitor, which    *)
(* replaces the whole table at every heartbeat.  Administrators change the *)
(* backends in the database meanwhile.                                     *)
(*                                                                         *)
(* A backend's URL is identified with its name.  The user-based branch of  *)
(* getEligibleBackEnd is left out: both callers pass a null user.  Reads   *)
(* of the backends go through ActiveJDBC's query cache (EntityStore):      *)
(* a list that was selected before a change and put into the cache after   *)
(* its purge is answered until it has been there for a minute.             *)
(***************************************************************************)
EXTENDS Weights

CONSTANTS Backends,           \* names of backends
          Groups,             \* routing groups
          Adhoc,              \* the group "adhoc"
          Requests,           \* the requests for new queries, each handled once
          Monitor,            \* the monitor's thread
          Free,               \* nobody holds lockObject
          NoRow,              \* the backend is not in the database
          NoBackend,          \* a request has no answer (yet)
          MaxLen,             \* bound on reported queue and running counts
          MaxChanges,         \* bound on administrators' changes
          IntRange,           \* the magnitude of Integer.MIN_VALUE, 2^31 in the code
          LateFills,          \* may a list from before a change be answered?
          StoreErrors,        \* may a database read throw?
          NotifierErrors,     \* may the observer before the table's throw?
          AnonymousQueries    \* may a cluster report a query without a user?

ASSUME RoutingConstants ==
  /\ Adhoc \in Groups
  /\ Monitor \notin Requests
  /\ Free \notin Requests \cup {Monitor}
  /\ IsFiniteSet(Backends) /\ NoBackend \notin Backends
  /\ NoRow \notin [group : Groups, active : BOOLEAN]
  /\ MaxLen \in Nat /\ MaxChanges \in Nat
  /\ IntRange \in Nat \ {0}
  /\ {LateFills, StoreErrors, NotifierErrors, AnonymousQueries} \subseteq BOOLEAN

VARIABLES
  store,       \* the gateway_backend table
  changes,     \* how many changes the administrators made (bounds the model)
  stale,       \* lists of active backends from before a change that may still
               \* be answered
  queueMap,    \* clusterQueueLengthMap: group -> cluster -> length
  weighted,    \* weightedDistributionRouting: group -> weight -> cluster
  weightSum,   \* routingGroupWeightSum: group -> sum of weights
  lock,        \* who holds lockObject
  stage,       \* where its holder is in computeWeightsBasedOnQueueLength
  todo,        \* the groups it has not computed yet
  filling,     \* the group whose table is put and whose sum is not, its sum
  cleared,     \* the tables that weighted.clear() removed (history)
  pc,          \* where each request is
  target,      \* the group it is being routed in
  snapshot,    \* the names it read from the database (keys of proxyMap)
  rnd,         \* its random draw
  view,        \* the table its next unsynchronised read will return
  plight,      \* what befell it on the way (history)
  answer,      \* the backend it was given
  monitorPc,   \* where the monitor is in its loop
  seen         \* the active backends it read, with their groups

storeVars   == <<store, changes, stale>>
tableVars   == <<queueMap, weighted, weightSum, cleared>>
computeVars == <<lock, stage, todo, filling>>
requestVars == <<pc, target, snapshot, rnd, view, plight, answer>>
monitorVars == <<monitorPc, seen>>
vars == <<storeVars, tableVars, computeVars, requestVars, monitorVars>>

Rows == [group : Groups, active : BOOLEAN]
NoTable == [key \in {} |-> NoBackend]
NoFilling == [group |-> Adhoc, sum |-> 0]

(* The active backends, each with its group, and those of a group in such  *)
(* a list: GatewayBackend.where("active = ? and routing_group = ?").       *)
ActiveMap ==
  [b \in {b \in Backends : store[b] # NoRow /\ store[b].active} |-> store[b].group]
Members(list, g) == {b \in DOMAIN list : list[b] = g}
ActiveBackends(g) == Members(ActiveMap, g)

(* What a read may be answered. *)
Lists == stale \cup {ActiveMap}

Looking == {"seeSum", "seeTable", "draw", "pick"}
Finished == {"routed", "nullTarget", "refused", "storeError", "crashed", "badIndex"}

Init ==
  /\ store \in [Backends -> Rows]
  /\ changes = 0 /\ stale = {}
  /\ queueMap = <<>> /\ weighted = <<>> /\ weightSum = <<>> /\ cleared = <<>>
  /\ lock = Free /\ stage = "none" /\ todo = {} /\ filling = NoFilling
  /\ pc = [r \in Requests |-> "new"]
  /\ target = [r \in Requests |-> Adhoc]
  /\ snapshot = [r \in Requests |-> {}]
  /\ rnd = [r \in Requests |-> 0]
  /\ view = [r \in Requests |-> NoTable]
  /\ plight = [r \in Requests |-> {}]
  /\ answer = [r \in Requests |-> NoBackend]
  /\ monitorPc = "sleep" /\ seen = <<>>

-----------------------------------------------------------------------------
(* Administrators, through HaGatewayManager: each call is one statement. *)

Change(b, row) ==
  /\ changes < MaxChanges
  /\ store[b] # row
  /\ store' = [store EXCEPT ![b] = row]
  /\ stale' = IF LateFills THEN stale \cup {ActiveMap} ELSE stale
  /\ changes' = changes + 1
  /\ UNCHANGED <<tableVars, computeVars, requestVars, monitorVars>>

DeactivateBackend(b) ==
  store[b] # NoRow /\ Change(b, [group |-> store[b].group, active |-> FALSE])

ActivateBackend(b) ==
  store[b] # NoRow /\ Change(b, [group |-> store[b].group, active |-> TRUE])

(* addBackend, and updateBackend, which creates a missing backend. *)
UpdateBackend(b, row) == Change(b, row)

DeleteBackend(b) == Change(b, NoRow)

Admin ==
  \E b \in Backends :
    \/ DeactivateBackend(b) \/ ActivateBackend(b) \/ DeleteBackend(b)
    \/ \E row \in Rows : UpdateBackend(b, row)

(* The minute of the lists from before a change is over. *)
ForgetLists ==
  /\ stale # {}
  /\ stale' = {}
  /\ UNCHANGED <<store, changes, tableVars, computeVars, requestVars, monitorVars>>

-----------------------------------------------------------------------------
(* computeWeightsBasedOnQueueLength, by the holder of the lock.  Requests  *)
(* in their lookup do not hold it: a plain read of the HashMap             *)
(* weightedDistributionRouting may or may not return what was written      *)
(* since the reader last synchronised, so each write is one that the next  *)
(* read of an overtaken request sees or misses.                            *)

TableIn(tables, g) == IF g \in DOMAIN tables THEN tables[g] ELSE NoTable

Overtake(tables) ==
  /\ plight' = [r \in Requests |->
       IF pc[r] \in Looking THEN plight[r] \cup {"raced"} ELSE plight[r]]
  /\ \E seers \in SUBSET {r \in Requests : pc[r] \in {"seeTable", "pick"}} :
       view' = [r \in Requests |->
         IF r \in seers THEN TableIn(tables, target[r]) ELSE view[r]]

ClearTables ==
  /\ stage = "clearTables"
  /\ weighted' = <<>>
  /\ cleared' = weighted
  /\ stage' = "clearSums"
  /\ Overtake(<<>>)
  /\ UNCHANGED <<storeVars, queueMap, weightSum, lock, todo, filling,
                 pc, target, snapshot, rnd, answer, monitorVars>>

(* Mutant: a group with a single cluster is skipped like an empty one. *)
GroupsToComputeLarger ==
  {g \in DOMAIN queueMap : Cardinality(DOMAIN queueMap[g]) > 1}

GroupsToCompute == {g \in DOMAIN queueMap : DOMAIN queueMap[g] # {}}

ClearSums ==
  /\ stage = "clearSums"
  /\ weightSum' = <<>>
  /\ cleared' = <<>>
  /\ todo' = GroupsToCompute
  /\ stage' = "put"
  /\ Overtake(weighted)
  /\ UNCHANGED <<storeVars, queueMap, weighted, lock, filling,
                 pc, target, snapshot, rnd, answer, monitorVars>>

Extend(f, x, y) == [z \in DOMAIN f \cup {x} |-> IF z = x THEN y ELSE f[z]]

PutTable(g, order) ==
  /\ stage = "put"
  /\ weighted' = Extend(weighted, g, GroupTable(queueMap[g], order))
  /\ filling' = [group |-> g, sum |-> GroupSum(queueMap[g], order)]
  /\ todo' = todo \ {g}
  /\ stage' = "putSum"
  /\ Overtake(weighted')
  /\ UNCHANGED <<storeVars, queueMap, weightSum, cleared, lock,
                 pc, target, snapshot, rnd, answer, monitorVars>>

PutSum ==
  /\ stage = "putSum"
  /\ weightSum' = Extend(weightSum, filling.group, filling.sum)
  /\ filling' = NoFilling
  /\ stage' = "put"
  /\ Overtake(weighted)
  /\ UNCHANGED <<storeVars, queueMap, weighted, cleared, lock, todo,
                 pc, target, snapshot, rnd, answer, monitorVars>>

(* Mutant: the lock is not given back. *)
ReleaseForgotten ==
  /\ stage = "put" /\ todo = {}
  /\ stage' = "none"
  /\ IF lock = Monitor
     THEN monitorPc' = "sleep" /\ UNCHANGED pc
     ELSE pc' = [pc EXCEPT ![lock] = "seeSum"] /\ UNCHANGED monitorPc
  /\ UNCHANGED <<storeVars, tableVars, lock, todo, filling,
                 target, snapshot, rnd, view, plight, answer, seen>>

(* The computation ends and its caller leaves the synchronized block. *)
Release ==
  /\ stage = "put" /\ todo = {}
  /\ lock' = Free
  /\ stage' = "none"
  /\ \/ /\ lock = Monitor
        /\ monitorPc' = "sleep"
        /\ UNCHANGED pc
     \/ /\ lock \in Requests
        /\ pc' = [pc EXCEPT ![lock] = "seeSum"]
        /\ UNCHANGED monitorPc
  /\ UNCHANGED <<storeVars, tableVars, todo, filling,
                 target, snapshot, rnd, view, plight, answer, seen>>

Compute ==
  \/ ClearTables \/ ClearSums \/ PutSum \/ Release
  \/ \E g \in todo : \E order \in SortedOrders(queueMap[g]) : PutTable(g, order)

-----------------------------------------------------------------------------
(* A request: provideBackendForRoutingGroup and provideAdhocBackend. *)

Finish(r, outcome, b) ==
  /\ pc' = [pc EXCEPT ![r] = outcome]
  /\ answer' = [answer EXCEPT ![r] = b]
  /\ view' = [view EXCEPT ![r] = NoTable]
  /\ rnd' = [rnd EXCEPT ![r] = 0]
  /\ UNCHANGED <<storeVars, tableVars, computeVars, target, snapshot, plight,
                 monitorVars>>

Goto(r, label) ==
  /\ pc' = [pc EXCEPT ![r] = label]
  /\ UNCHANGED <<storeVars, tableVars, computeVars, rnd, plight, answer, monitorVars>>

ArriveForGroup(r, g) ==
  /\ pc[r] = "new"
  /\ target' = [target EXCEPT ![r] = g]
  /\ Goto(r, "readActive")
  /\ UNCHANGED <<snapshot, view>>

ArriveForAdhoc(r) ==
  /\ pc[r] = "new"
  /\ Goto(r, "readAdhoc")
  /\ UNCHANGED <<target, snapshot, view>>

ReadActive(r) ==
  /\ pc[r] = "readActive"
  /\ \E list \in Lists :
       IF Members(list, target[r]) = {}
       THEN /\ target' = [target EXCEPT ![r] = Adhoc]
            /\ Goto(r, "readAdhoc")
            /\ UNCHANGED snapshot
       ELSE /\ snapshot' = [snapshot EXCEPT ![r] = Members(list, target[r])]
            /\ Goto(r, "update")
            /\ UNCHANGED target
  /\ UNCHANGED view

ReadAdhoc(r) ==
  /\ pc[r] = "readAdhoc"
  /\ \E list \in Lists :
       /\ Members(list, Adhoc) # {}
       /\ snapshot' = [snapshot EXCEPT ![r] = Members(list, Adhoc)]
  /\ Goto(r, "update")
  /\ UNCHANGED <<target, view>>

(* IllegalStateException("Number of active backends found zero"). *)
Refuse(r) ==
  /\ pc[r] = "readAdhoc"
  /\ \E list \in Lists : Members(list, Adhoc) = {}
  /\ Finish(r, "refused", NoBackend)

(* A failed read.  getActiveAdhocBackends turns it into an empty list and  *)
(* so into the exception of Refuse; it is told apart here all the same.    *)
StoreFails(r) ==
  /\ StoreErrors
  /\ pc[r] \in {"readActive", "readAdhoc"}
  /\ Finish(r, "storeError", NoBackend)

Known(g) == IF g \in DOMAIN queueMap THEN DOMAIN queueMap[g] ELSE {}

(* Mutant: the receiver and the argument of containsAll are swapped. *)
NothingMissingSwapped(g, backends) ==
  g \in DOMAIN queueMap /\ backends \subseteq Known(g)

NothingMissing(g, backends) ==
  g \in DOMAIN queueMap /\ Known(g) \subseteq backends

(* updateRoutingTable(group, backends) when no known backend is missing. *)
KeepTable(r) ==
  /\ pc[r] = "update" /\ lock = Free
  /\ NothingMissing(target[r], snapshot[r])
  /\ Goto(r, "seeSum")
  /\ UNCHANGED <<target, snapshot, view>>

(* Mutant: the missing ones are removed without asking removeAll. *)
PrunedMapAlways(g, kept) ==
  IF g \in DOMAIN queueMap
  THEN [queueMap EXCEPT ![g] = [b \in kept |-> queueMap[g][b]]]
  ELSE queueMap

(* The missing ones are removed if removeAll took away any of the others. *)
PrunedMap(g, kept) ==
  IF kept # {}
  THEN [queueMap EXCEPT ![g] = [b \in kept |-> queueMap[g][b]]]
  ELSE queueMap

(* Otherwise: drop them and compute every group's weights again. *)
PruneTable(r) ==
  LET g == target[r]
      kept == Known(g) \cap snapshot[r]
  IN /\ pc[r] = "update" /\ lock = Free
     /\ ~NothingMissing(g, snapshot[r])
     /\ queueMap' = PrunedMap(g, kept)
     /\ plight' = [plight EXCEPT ![r] =
                     @ \cup CASE kept # {} -> {}
                              [] kept = {} /\ g \in DOMAIN queueMap -> {"disjoint"}
                              [] g \notin DOMAIN queueMap -> {"unknown"}]
     /\ lock' = r
     /\ stage' = "clearTables"
     /\ pc' = [pc EXCEPT ![r] = "compute"]
     /\ UNCHANGED <<storeVars, weighted, weightSum, cleared, todo, filling,
                    target, snapshot, rnd, view, answer, monitorVars>>

(* getEligibleBackEnd, unsynchronised: four reads one after the other.     *)
(* Finding the sum in its ConcurrentHashMap orders the reads after the put *)
(* of the table it belongs to, so an older table is out of sight again.  A *)
(* table reached by a race is read whole: one seen in part would give      *)
(* another of its names or no entry, which the model yields as well.       *)
Visible(g) == {TableIn(weighted, g),
               IF g \in DOMAIN weighted THEN weighted[g] ELSE TableIn(cleared, g)}

SeeSum(r) ==
  /\ pc[r] = "seeSum"
  /\ IF target[r] \in DOMAIN weightSum
     THEN /\ Goto(r, "seeTable")
          /\ \E table \in Visible(target[r]) : view' = [view EXCEPT ![r] = table]
     ELSE Goto(r, "fallback") /\ UNCHANGED view
  /\ UNCHANGED <<target, snapshot>>

SeeTable(r) ==
  /\ pc[r] = "seeTable"
  /\ IF view[r] # NoTable THEN Goto(r, "draw") ELSE Goto(r, "fallback")
  /\ view' = [view EXCEPT ![r] = NoTable]
  /\ UNCHANGED <<target, snapshot>>

DrawFrom(r) ==
  /\ pc[r] = "draw"
  /\ target[r] \in DOMAIN weightSum
  /\ \E n \in 0..(weightSum[target[r]] - 1) : rnd' = [rnd EXCEPT ![r] = n]
  /\ pc' = [pc EXCEPT ![r] = "pick"]
  /\ \E table \in Visible(target[r]) : view' = [view EXCEPT ![r] = table]
  /\ UNCHANGED <<storeVars, tableVars, computeVars, target, snapshot, plight,
                 answer, monitorVars>>

(* The sum is null, or not positive: nextInt throws. *)
DrawCrashes(r) ==
  /\ pc[r] = "draw"
  /\ target[r] \in DOMAIN weightSum => weightSum[target[r]] <= 0
  /\ Finish(r, "crashed", NoBackend)

(* Mutant: the name is used without looking it up in proxyMap. *)
PickUnchecked(r) ==
  /\ pc[r] = "pick"
  /\ \E b \in HigherEntry(view[r], rnd[r]) : Finish(r, "routed", b)

(* The name found is looked up in the request's own proxyMap; a name that  *)
(* is not in it gives a null URL.                                          *)
Pick(r) ==
  /\ pc[r] = "pick"
  /\ \E b \in HigherEntry(view[r], rnd[r]) :
       IF b \in snapshot[r]
       THEN Finish(r, "routed", b)
       ELSE Finish(r, "nullTarget", NoBackend)

(* The table is null, or holds no entry above the draw. *)
PickCrashes(r) ==
  /\ pc[r] = "pick"
  /\ HigherEntry(view[r], rnd[r]) = {}
  /\ Finish(r, "crashed", NoBackend)

(* The random distribution: Math.abs(RANDOM.nextInt()) % backends.size().  *)
Fallback(r) ==
  /\ pc[r] = "fallback"
  /\ \E b \in snapshot[r] : Finish(r, "routed", b)

(* Math.abs leaves Integer.MIN_VALUE negative, and so does % unless the    *)
(* size divides it: List.get throws.                                       *)
FallbackCrashes(r) ==
  /\ pc[r] = "fallback"
  /\ IntRange % Cardinality(snapshot[r]) # 0
  /\ Finish(r, "badIndex", NoBackend)

Lookup(r) ==
  \/ SeeSum(r) \/ SeeTable(r)
  \/ DrawFrom(r) \/ DrawCrashes(r)
  \/ Pick(r) \/ PickCrashes(r)
  \/ Fallback(r) \/ FallbackCrashes(r)

Read(r) ==
  \/ ReadActive(r) \/ ReadAdhoc(r) \/ Refuse(r) \/ StoreFails(r)

UpdateTable(r) == KeepTable(r) \/ PruneTable(r)

Arrive(r) == ArriveForAdhoc(r) \/ \E g \in Groups : ArriveForGroup(r, g)

-----------------------------------------------------------------------------
(* The monitor's loop: ActiveClusterMonitor.start with its observers. *)

(* getAllActiveBackends() *)
FetchActive ==
  /\ monitorPc = "sleep"
  /\ seen' \in Lists
  /\ monitorPc' = "observe"
  /\ UNCHANGED <<storeVars, tableVars, computeVars, requestVars>>

(* The health checker's notifier throws, or the read of the database did: *)
(* the rest of the beat is skipped.                                        *)
SkipBeat ==
  /\ NotifierErrors
  /\ monitorPc = "observe"
  /\ monitorPc' = "sleep"
  /\ seen' = <<>>
  /\ UNCHANGED <<storeVars, tableVars, computeVars, requestVars>>

LengthsOf(g, queued, running) ==
  LET members == {b \in DOMAIN queued : seen[b] = g}
  IN QueueOrRunning([b \in members |-> queued[b]], [b \in members |-> running[b]])

(* Mutant: clusterQueueLengthMap is not cleared first. *)
ReportedMapMerged(queued, running) ==
  [g \in DOMAIN queueMap \cup {seen[b] : b \in DOMAIN queued} |->
     IF g \in {seen[b] : b \in DOMAIN queued}
     THEN LengthsOf(g, queued, running) ELSE queueMap[g]]

ReportedMap(queued, running) ==
  [g \in {seen[b] : b \in DOMAIN queued} |-> LengthsOf(g, queued, running)]

(* updateRoutingTable(queued, running, perUser) from the statistics of the *)
(* clusters that answered in full; the others are left out of the maps.    *)
Report(queued, running) ==
  /\ monitorPc = "observe" /\ lock = Free
  /\ queueMap' = ReportedMap(queued, running)
  /\ lock' = Monitor
  /\ stage' = "clearTables"
  /\ monitorPc' = "compute"
  /\ seen' = <<>>
  /\ UNCHANGED <<storeVars, weighted, weightSum, cleared, todo, filling,
                 requestVars>>

(* A null user ends in a NullPointerException once the map is cleared. *)
ReportAborts ==
  /\ AnonymousQueries
  /\ monitorPc = "observe" /\ lock = Free
  /\ DOMAIN seen # {}
  /\ queueMap' = <<>>
  /\ monitorPc' = "sleep"
  /\ seen' = <<>>
  /\ UNCHANGED <<storeVars, weighted, weightSum, cleared, computeVars, requestVars>>

Heartbeat ==
  \/ FetchActive \/ SkipBeat \/ ReportAborts
  \/ \E answering \in SUBSET DOMAIN seen :
       \E queued, running \in [answering -> 0..MaxLen] : Report(queued, running)

-----------------------------------------------------------------------------
Next ==
  \/ Admin \/ ForgetLists \/ Compute \/ Heartbeat
  \/ \E r \in Requests : Arrive(r) \/ Read(r) \/ UpdateTable(r) \/ Lookup(r)

Spec == Init /\ [][Next]_vars

(* Threads run on; the thread in the synchronized block leaves it; one that *)
(* waits for the lock gets it in the end, for the monitor, the only caller  *)
(* to come back, sleeps for minutes between its turns; a result leaves the  *)
(* query cache after a minute.  Clients and administrators need do nothing. *)
Fairness ==
  /\ WF_vars(Compute) /\ WF_vars(Heartbeat) /\ WF_vars(ForgetLists)
  /\ \A r \in Requests :
       WF_vars(Read(r)) /\ SF_vars(UpdateTable(r)) /\ WF_vars(Lookup(r))

FairSpec == Spec /\ Fairness

-----------------------------------------------------------------------------
TypeOK ==
  /\ store \in [Backends -> Rows \cup {NoRow}]
  /\ \A list \in stale : /\ DOMAIN list \subseteq Backends
                         /\ \A b \in DOMAIN list : list[b] \in Groups
  /\ DOMAIN queueMap \subseteq Groups
  /\ \A g \in DOMAIN queueMap : DOMAIN queueMap[g] \in (SUBSET Backends) \ {{}}
  /\ DOMAIN weighted \subseteq Groups
  /\ DOMAIN weightSum \subseteq Groups
  /\ lock \in Requests \cup {Monitor, Free}
  /\ stage \in {"none", "clearTables", "clearSums", "put", "putSum"}
  /\ todo \subseteq Groups /\ filling.group \in Groups
  /\ pc \in [Requests -> Looking \cup Finished \cup
                {"new", "readActive", "readAdhoc", "update", "compute", "fallback"}]
  /\ target \in [Requests -> Groups]
  /\ snapshot \in [Requests -> SUBSET Backends]
  /\ plight \in [Requests -> SUBSET {"raced", "disjoint", "unknown"}]
  /\ answer \in [Requests -> Backends \cup {NoBackend}]
  /\ monitorPc \in {"sleep", "observe", "compute"}
  /\ DOMAIN seen \subseteq Backends
  /\ \A b \in DOMAIN seen : seen[b] \in Groups

(* A table fits a group's lengths: its sum is one of its keys, so that     *)
(* every draw below the sum finds an entry, and it names known clusters.   *)
Fits(g) ==
  /\ g \in DOMAIN weighted /\ g \in DOMAIN weightSum
  /\ weightSum[g] \in DOMAIN weighted[g]
  /\ \A key \in DOMAIN weighted[g] : weighted[g][key] \in DOMAIN queueMap[g]

(* Whenever the lock is free the three maps agree: every group with known  *)
(* clusters has a table and a sum that fit them, and no other group has.   *)
(* Only an update that was cut short leaves old tables, and then no length.*)
TablesAgree ==
  lock = Free =>
    \/ AnonymousQueries /\ queueMap = <<>>
    \/ /\ DOMAIN weighted = DOMAIN queueMap /\ DOMAIN weightSum = DOMAIN queueMap
       /\ \A g \in DOMAIN queueMap : Fits(g)

(* getEligibleBackEnd ends in a NullPointerException only for a request    *)
(* that another thread's recomputation overtook after its own update.      *)
CrashOnlyByRace ==
  \A r \in Requests : pc[r] = "crashed" => "raced" \in plight[r]

(* A request that read active backends gets a null target only if it was   *)
(* overtaken, or if none of them was in the table its update looked at     *)
(* (when removeAll changes nothing and the stale clusters stay).           *)
NullOnlyWhenRacedOrDisjoint ==
  \A r \in Requests :
    pc[r] = "nullTarget" => plight[r] \cap {"raced", "disjoint"} # {}

(* The random distribution is used only for a group no heartbeat reported, *)
(* or by a request that was overtaken: never past a table that is there.   *)
FallbackOnlyWhenUnknown ==
  \A r \in Requests :
    pc[r] = "fallback" => plight[r] \cap {"raced", "unknown"} # {}

(* Once administrators stop and the lists from before their changes are    *)
(* gone, some heartbeat rids the tables of every backend that is not       *)
(* active in its group, and no request brings it back.                     *)
TablesBecomeActive ==
  <>[](\A g \in DOMAIN weighted : \A key \in DOMAIN weighted[g] :
         weighted[g][key] \in ActiveBackends(g))

(* Every request that arrives gets an answer or an error: nobody waits for *)
(* the lock or spins forever.                                              *)
EveryRequestFinishes ==
  \A r \in Requests : pc[r] # "new" ~> pc[r] \in Finished

-----------------------------------------------------------------------------
(* What a client may rely on, whatever happens to the table. *)
StatusOf(label) ==
  CASE label \in {"readActive"} -> "asking"
    [] label \in {"readAdhoc"} -> "adhoc"
    [] label \in {"update", "compute", "fallback"} \cup Looking -> "offered"
    [] label \in {"nullTarget", "storeError", "crashed", "badIndex"} -> "failed"
    [] OTHER -> label

Contract == INSTANCE RoutingContract WITH
  active  <- [g \in Groups |-> ActiveBackends(g)],
  stale   <- {[g \in Groups |-> Members(list, g)] : list \in stale},
  status  <- [r \in Requests |-> StatusOf(pc[r])],
  group   <- target,
  offered <- snapshot

ImplementsContract == Contract!Spec

(* The beats as the monitor's own module has them (ClusterMonitor), and    *)
(* what requests do to the clusters known from the last one.               *)
Beats == INSTANCE MonitorContract WITH
  beat  <- IF monitorPc = "observe" THEN "beating" ELSE "resting",
  table <- [g \in DOMAIN queueMap |-> Known(g)]

Forget ==
  /\ UNCHANGED <<storeVars, monitorVars>>
  /\ \E g \in DOMAIN queueMap :
       /\ Known(g)' # {} /\ Known(g)' \subseteq Known(g)
       /\ queueMap' = [queueMap EXCEPT ![g] = [b \in Known(g)' |-> queueMap[g][b]]]

(* Only a beat that keeps the monitor's contract puts clusters into        *)
(* clusterQueueLengthMap; between beats a request can remove some clusters *)
(* of one group, never all of them, and adds none, moves none and changes  *)
(* no length.                                                              *)
OnlyBeatsReport ==
  /\ Beats!Init
  /\ [][\/ Beats!End
        \/ Forget
        \/ Beats!Next /\ UNCHANGED queueMap]_<<Beats!vars, queueMap>>
=============================================================================
