-------------------------- MODULE QueryAffinityProofs --------------------------
(* Theorems about QueryAffinity, for any backends, queries and lookups. *)
EXTENDS QueryAffinity, TLAPS

(* A lookup that came has a query, one that waits has a loader. *)
Placed ==
  \A l \in Lookups : /\ pc[l] # "idle" => query[l] \in Queries
                     /\ pc[l] = "wait" => loader[l] \in Lookups

Typed == TypeOK /\ Placed

(* Administrators keep the types. *)
LEMMA ChangeTypes ==
  ASSUME Typed, NEW b \in Backends, NEW row, ChangeBackend(b, row)
  PROVE  Typed'
<1> USE AffinityConstants DEF Typed, TypeOK, Placed, queryVars, cacheVars, lookupVars
<1>1. Current \in [known : SUBSET Backends, active : SUBSET Backends]
  BY DEF Current
<1> QED
  BY <1>1 DEF ChangeBackend

(* So do the steps of a response, evictions and the cleanup. *)
LEMMA QueryTypes ==
  ASSUME Typed, NEW q \in Queries,
         \/ \E b \in Backends : Accept(q, b)
         \/ Respond(q) \/ Evict(q) \/ Expire(q) \/ CleanUp(q)
  PROVE  Typed'
<1> USE AffinityConstants DEF Typed, TypeOK, Placed, Reach, clusterVars, cacheVars, queryVars, lookupVars
<1>1. ASSUME NEW b \in Backends, Accept(q, b) PROVE Typed'
  BY <1>1 DEF Accept
<1>2. CASE PutInCache(q)
  BY <1>2 DEF PutInCache
<1>3. CASE PassUnparsed(q) \/ SaveFails(q) \/ PassOn(q)
  BY <1>3 DEF PassUnparsed, SaveFails, PassOn
<1>4. CASE SaveHistory(q)
  BY <1>4 DEF SaveHistory
<1>5. CASE PurgeResults(q)
  BY <1>5 DEF PurgeResults
<1>6. CASE Evict(q)
  BY <1>6 DEF Evict
<1>7. CASE Expire(q)
  BY <1>7 DEF Expire
<1>8. CASE CleanUp(q)
  BY <1>8 DEF CleanUp
<1> QED
  BY <1>1, <1>2, <1>3, <1>4, <1>5, <1>6, <1>7, <1>8 DEF Respond

(* So does a restart. *)
LEMMA RestartTypes == ASSUME Typed, Restart PROVE Typed'
BY AffinityConstants
   DEF Typed, TypeOK, Placed, Restart, clusterVars, Loading, Ended

(* So do the steps of a lookup. *)
LEMMA LookupTypes ==
  ASSUME Typed, NEW l \in Lookups,
         Look(l) \/ \E q \in Queries : Come(l, q)
  PROVE  Typed'
<1> USE AffinityConstants DEF Typed, TypeOK, Placed, Move, Known, Loading, Ended,
                              clusterVars, cacheVars, queryVars
<1>1. ASSUME NEW q \in Queries, Come(l, q) PROVE Typed'
  BY <1>1 DEF Come
<1>2. CASE SelectHistory(l)
  BY <1>2 DEF SelectHistory
<1>3. CASE KeepResult(l)
  BY <1>3 DEF KeepResult, AfterHistory
<1>4. CASE HitHistory(l)
  BY <1>4 DEF HitHistory, AfterHistory
<1>5. CASE ReadBackends(l)
  <2>1. \A list \in Lists : list.known \in SUBSET Backends
    BY DEF Lists, Current
  <2> QED
    BY <1>5, <2>1 DEF ReadBackends
<1>6. CASE Find(l)
  BY <1>6 DEF Find
<1>7. CASE FindNothing(l)
  BY <1>7 DEF FindNothing
<1>8. CASE Guess(l)
  BY <1>8 DEF Guess
<1>9. CASE LoadFails(l)
  BY <1>9 DEF LoadFails, EndLoad
<1>10. CASE Store(l)
  BY <1>10 DEF Store, EndLoad
<1>11. CASE Wake(l)
  BY <1>11 DEF Wake
<1> QED
  BY <1>1, <1>2, <1>3, <1>4, <1>5, <1>6, <1>7, <1>8, <1>9, <1>10, <1>11 DEF Look

(* Types are kept by every step. *)
LEMMA TypedStep == ASSUME Typed, [Next]_vars PROVE Typed'
<1>1. CASE UNCHANGED vars
  BY <1>1 DEF Typed, TypeOK, Placed, vars, clusterVars, queryVars, cacheVars, lookupVars
<1>2. CASE Next
  BY <1>2, ChangeTypes, QueryTypes, RestartTypes, LookupTypes DEF Next
<1> QED
  BY <1>1, <1>2

(* Every variable keeps its type, and no load ever ends without a value    *)
(* (RoutingManager's cache loader never returns null).                     *)
THEOREM TypeCorrect == Spec => []TypeOK
<1>1. Init => Typed
  BY AffinityConstants DEF Init, Typed, TypeOK, Placed
<1>2. Typed /\ [Next]_vars => Typed'
  BY TypedStep
<1>3. Typed => TypeOK
  BY DEF Typed
<1> QED
  BY <1>1, <1>2, <1>3, PTL DEF Spec
-----------------------------------------------------------------------------
(* Where knowledge of a query comes from, and why a lookup that is owed it *)
(* gets it.                                                                *)

Saved(q) == history[q] # NoBackend

(* The entry is the query's backend, or lapsed. *)
Settled(q) == cache[q] = home[q] \/ q \in lapsed

(* The history holds the backend that runs the query, and holds nothing    *)
(* before the cache was told.                                              *)
Submitting ==
  \A q \in Queries :
    /\ submit[q] = "none" <=> home[q] = NoBackend
    /\ submit[q] = "cached" => Settled(q)
    /\ Saved(q) => /\ history[q] = home[q]
                   /\ submit[q] \in {"inserted", "saved", "told", "lost"}

Caching == \A q \in Queries : Saved(q) /\ Known(q) => Settled(q)

(* A result of the history, kept or on its way to the query cache, is the  *)
(* query's backend or empty.                                               *)
Holding ==
  /\ \A q \in Queries : held[q] \in {NotHeld, NoBackend, home[q]}
  /\ \A l \in Lookups :
       pc[l] = "keepResult" => value[l] \in {NoBackend, home[query[l]]}

(* A lookup that will end with the query's backend, if it is saved. *)
Leads(l) ==
  \/ pc[l] \in {"readHistory", "failed"}
  \/ pc[l] \in {"keepResult", "store", "done"} /\ value[l] = home[query[l]]

(* A load that is past the history of a saved query was overtaken by the   *)
(* put of the query's backend, and so cannot store its guess, or found a   *)
(* result that hid the row.                                                *)
Loads ==
  /\ \A q \in Queries :
       loading[q] # Nobody => pc[loading[q]] \in Loading /\ query[loading[q]] = q
  /\ \A l \in Lookups :
       pc[l] \in Loading /\ Saved(query[l]) => Leads(l) \/ Settled(query[l])

(* No result hides the query's row, and none that would is on its way. *)
Clear(q) ==
  /\ ~HidesRow(q)
  /\ \A k \in Lookups : query[k] = q /\ pc[k] = "keepResult" => value[k] = home[q]

(* A lookup that is owed the backend ends with it, and so does the load it *)
(* waits for.                                                              *)
Owed(l) ==
  owed[l] =>
    /\ pc[l] # "idle" /\ submit[query[l]] = "told"
    /\ pc[l] # "wait" /\ Saved(query[l]) => Leads(l)
    /\ pc[l] = "wait" => pc[loader[l]] # "idle" /\ query[loader[l]] = query[l]
    /\ pc[l] = "wait" /\ Saved(query[l]) => Leads(loader[l])
    /\ pc[l] \in {"readHistory", "wait"} /\ Saved(query[l]) => Clear(query[l])

Owing == \A l \in Lookups : Owed(l)

Led == Typed /\ Submitting /\ Caching /\ Holding /\ Loads /\ Owing

(* The steps of a response keep the invariant. *)
LEMMA ResponseLeads ==
  ASSUME Led, Typed', NEW q \in Queries,
         Respond(q) \/ \E b \in Backends : Accept(q, b)
  PROVE  Led'
<1> USE AffinityConstants DEF Led, Typed, TypeOK, Placed, Saved, Settled, Leads, Clear,
                              HidesRow, Known, Loading, Ended, Reach,
                              clusterVars, cacheVars, queryVars, lookupVars
<1>1. ASSUME NEW b \in Backends, Accept(q, b) PROVE Led'
  <2>1. Submitting'
    BY <1>1 DEF Accept, Submitting
  <2>2. Caching'
    BY <1>1 DEF Accept, Submitting, Caching
  <2>3. Holding'
    BY <1>1 DEF Accept, Submitting, Holding
  <2>4. Loads'
    BY <1>1 DEF Accept, Submitting, Holding, Loads
  <2>5. Owing'
    BY <1>1 DEF Accept, Submitting, Holding, Loads, Owing, Owed
  <2> QED
    BY <2>1, <2>2, <2>3, <2>4, <2>5
<1>2. CASE PutInCache(q)
  <2>1. Submitting'
    BY <1>2 DEF PutInCache, Submitting
  <2>2. Caching'
    BY <1>2 DEF PutInCache, Submitting, Caching
  <2>3. Holding'
    BY <1>2 DEF PutInCache, Submitting, Holding
  <2>4. Loads'
    BY <1>2 DEF PutInCache, Submitting, Holding, Loads
  <2>5. Owing'
    BY <1>2 DEF PutInCache, Submitting, Holding, Loads, Owing, Owed
  <2> QED
    BY <2>1, <2>2, <2>3, <2>4, <2>5
<1>3. CASE PassUnparsed(q)
  <2>1. Submitting'
    BY <1>3 DEF PassUnparsed, Submitting
  <2>2. Caching'
    BY <1>3 DEF PassUnparsed, Submitting, Caching
  <2>3. Holding'
    BY <1>3 DEF PassUnparsed, Submitting, Holding
  <2>4. Loads'
    BY <1>3 DEF PassUnparsed, Submitting, Holding, Loads
  <2>5. Owing'
    BY <1>3 DEF PassUnparsed, Submitting, Holding, Loads, Owing, Owed
  <2> QED
    BY <2>1, <2>2, <2>3, <2>4, <2>5
<1>4. CASE SaveHistory(q)
  <2>1. Submitting'
    BY <1>4 DEF SaveHistory, Submitting
  <2>2. Caching'
    BY <1>4 DEF SaveHistory, Submitting, Caching
  <2>3. Holding'
    BY <1>4 DEF SaveHistory, Submitting, Holding
  <2>4. Loads'
    BY <1>4 DEF SaveHistory, Submitting, Holding, Loads
  <2>5. Owing'
    BY <1>4 DEF SaveHistory, Submitting, Holding, Loads, Owing, Owed
  <2> QED
    BY <2>1, <2>2, <2>3, <2>4, <2>5
<1>5. CASE PurgeResults(q)
  <2>1. Submitting'
    BY <1>5 DEF PurgeResults, Submitting
  <2>2. Caching'
    BY <1>5 DEF PurgeResults, Submitting, Caching
  <2>3. Holding'
    BY <1>5 DEF PurgeResults, Submitting, Holding
  <2>4. Loads'
    BY <1>5 DEF PurgeResults, Submitting, Holding, Loads
  <2>5. Owing'
    BY <1>5 DEF PurgeResults, Submitting, Holding, Loads, Owing, Owed
  <2> QED
    BY <2>1, <2>2, <2>3, <2>4, <2>5
<1>6. CASE SaveFails(q)
  <2>1. Submitting'
    BY <1>6 DEF SaveFails, Submitting
  <2>2. Caching'
    BY <1>6 DEF SaveFails, Submitting, Caching
  <2>3. Holding'
    BY <1>6 DEF SaveFails, Submitting, Holding
  <2>4. Loads'
    BY <1>6 DEF SaveFails, Submitting, Holding, Loads
  <2>5. Owing'
    BY <1>6 DEF SaveFails, Submitting, Holding, Loads, Owing, Owed
  <2> QED
    BY <2>1, <2>2, <2>3, <2>4, <2>5
<1>7. CASE PassOn(q)
  <2>1. Submitting'
    BY <1>7 DEF PassOn, Submitting
  <2>2. Caching'
    BY <1>7 DEF PassOn, Submitting, Caching
  <2>3. Holding'
    BY <1>7 DEF PassOn, Submitting, Holding
  <2>4. Loads'
    BY <1>7 DEF PassOn, Submitting, Holding, Loads
  <2>5. Owing'
    BY <1>7 DEF PassOn, Submitting, Holding, Loads, Owing, Owed
  <2> QED
    BY <2>1, <2>2, <2>3, <2>4, <2>5
<1> QED
  BY <1>1, <1>2, <1>3, <1>4, <1>5, <1>6, <1>7 DEF Respond

(* So do evictions, the ends of results, the cleanup and restarts. *)
LEMMA LossLeads ==
  ASSUME Led, Typed', Restart \/ \E q \in Queries : Evict(q) \/ Expire(q) \/ CleanUp(q)
  PROVE  Led'
<1> USE AffinityConstants DEF Led, Typed, TypeOK, Placed, Saved, Settled, Leads, Clear,
                              HidesRow, Known, Loading, Ended,
                              clusterVars, cacheVars, queryVars, lookupVars
<1>1. CASE Restart
  <2>1. Submitting'
    BY <1>1 DEF Restart, Submitting
  <2>2. Caching'
    BY <1>1 DEF Restart, Submitting, Caching
  <2>3. Holding'
    BY <1>1 DEF Restart, Submitting, Holding
  <2>4. Loads'
    BY <1>1 DEF Restart, Submitting, Holding, Loads
  <2>5. Owing'
    BY <1>1 DEF Restart, Submitting, Holding, Loads, Owing, Owed
  <2> QED
    BY <2>1, <2>2, <2>3, <2>4, <2>5
<1>2. ASSUME NEW q \in Queries, Evict(q) PROVE Led'
  <2>1. Submitting'
    BY <1>2 DEF Evict, Submitting
  <2>2. Caching'
    BY <1>2 DEF Evict, Submitting, Caching
  <2>3. Holding'
    BY <1>2 DEF Evict, Submitting, Holding
  <2>4. Loads'
    BY <1>2 DEF Evict, Submitting, Holding, Loads
  <2>5. Owing'
    BY <1>2 DEF Evict, Submitting, Holding, Loads, Owing, Owed
  <2> QED
    BY <2>1, <2>2, <2>3, <2>4, <2>5
<1>3. ASSUME NEW q \in Queries, Expire(q) PROVE Led'
  <2>1. Submitting'
    BY <1>3 DEF Expire, Submitting
  <2>2. Caching'
    BY <1>3 DEF Expire, Submitting, Caching
  <2>3. Holding'
    BY <1>3 DEF Expire, Submitting, Holding
  <2>4. Loads'
    BY <1>3 DEF Expire, Submitting, Holding, Loads
  <2>5. Owing'
    BY <1>3 DEF Expire, Submitting, Holding, Loads, Owing, Owed
  <2> QED
    BY <2>1, <2>2, <2>3, <2>4, <2>5
<1>4. ASSUME NEW q \in Queries, CleanUp(q) PROVE Led'
  <2>1. Submitting'
    BY <1>4 DEF CleanUp, Submitting
  <2>2. Caching'
    BY <1>4 DEF CleanUp, Submitting, Caching
  <2>3. Holding'
    BY <1>4 DEF CleanUp, Submitting, Holding
  <2>4. Loads'
    BY <1>4 DEF CleanUp, Submitting, Holding, Loads
  <2>5. Owing'
    BY <1>4 DEF CleanUp, Submitting, Holding, Loads, Owing, Owed
  <2> QED
    BY <2>1, <2>2, <2>3, <2>4, <2>5
<1> QED
  BY <1>1, <1>2, <1>3, <1>4

(* What a lookup that comes is owed. *)
LEMMA OwedByClient ==
  ASSUME TypeOK, NEW l \in Lookups, NEW q \in Queries, Come(l, q)
  PROVE  owed'[l] <=> submit[q] = "told" /\ q \notin lapsed /\ ~HidesRow(q)
<1>1. owed \in [Lookups -> BOOLEAN]
  BY DEF TypeOK
<1>2. owed' = [owed EXCEPT ![l] = submit[q] = "told" /\ q \notin lapsed /\ ~HidesRow(q)]
  BY DEF Come
<1> QED
  BY <1>1, <1>2, Zenon

(* So do the steps of a lookup. *)
LEMMA LookupLeads ==
  ASSUME Led, Typed', NEW l \in Lookups,
         Look(l) \/ \E q \in Queries : Come(l, q)
  PROVE  Led'
<1> USE AffinityConstants DEF Led, Typed, TypeOK, Placed, Saved, Settled, Leads, Clear,
                              HidesRow, Known, Loading, Ended, Move,
                              clusterVars, cacheVars, queryVars
<1>1. ASSUME NEW q \in Queries, Come(l, q) PROVE Led'
  <2>1. Submitting'
    BY <1>1 DEF Come, Submitting
  <2>2. Caching'
    BY <1>1 DEF Come, Caching
  <2>3. Loads'
    BY <1>1 DEF Come, Loads
  <2>4. owed'[l] <=> submit[q] = "told" /\ q \notin lapsed /\ ~HidesRow(q)
    BY <1>1, OwedByClient
  <2>5. \A k \in Lookups \ {l} :
          /\ owed'[k] = owed[k] /\ pc'[k] = pc[k] /\ query'[k] = query[k]
          /\ loader'[k] = loader[k] /\ value'[k] = value[k]
    BY <1>1 DEF Come
  <2>6. query'[l] = q /\ submit' = submit /\ history' = history /\ home' = home
    BY <1>1 DEF Come
  <2>7. ASSUME NEW k \in Lookups \ {l} PROVE Owed(k)'
    <3>1. pc[l] = "idle"
      BY <1>1 DEF Come
    <3>2. Clear(query[k]) => Clear(query[k])'
      BY <1>1 DEF Come
    <3> HIDE DEF Clear
    <3> QED
      BY <2>5, <2>6, <3>1, <3>2 DEF Owing, Owed
  <2>11. ~Known(q) /\ q \notin lapsed /\ ~HidesRow(q) /\ submit[q] = "told" /\ Saved(q) =>
           Clear(q)'
    <3>1. home[q] # NoBackend /\ pc'[l] # "keepResult"
      BY <1>1 DEF Come
    <3>2. held' = held
      BY <1>1 DEF Come
    <3> QED
      BY <2>5, <2>6, <3>1, <3>2 DEF Loads
  <2>8. ASSUME owed'[l] PROVE Owed(l)'
    <3>1. CASE Known(q)
      <4>1. pc'[l] = "done" /\ value'[l] = cache[q]
        BY <1>1, <3>1 DEF Come
      <4> QED
        BY <2>4, <2>6, <2>8, <3>1, <4>1 DEF Submitting, Caching, Owed
    <3>2. CASE ~Known(q) /\ loading[q] = Nobody
      <4>1. pc'[l] = "readHistory"
        BY <1>1, <3>2 DEF Come
      <4> QED
        BY <2>4, <2>6, <2>8, <2>11, <3>2, <4>1 DEF Owed
    <3>3. CASE ~Known(q) /\ loading[q] # Nobody
      <4>1. pc'[l] = "wait" /\ loader'[l] = loading[q] /\ loading[q] # l
        BY <1>1, <3>3 DEF Come, Loads
      <4> QED
        BY <2>4, <2>5, <2>6, <2>8, <2>11, <3>3, <4>1 DEF Submitting, Loads, Owed
    <3> QED
      BY <3>1, <3>2, <3>3
  <2>9. Owing'
    BY <2>7, <2>8 DEF Owing, Owed
  <2>10. Holding'
    BY <1>1 DEF Come, Submitting, Holding
  <2> QED
    BY <2>1, <2>2, <2>3, <2>9, <2>10
<1>2. CASE SelectHistory(l)
  <2>1. Submitting'
    BY <1>2 DEF SelectHistory, Submitting
  <2>2. Caching'
    BY <1>2 DEF SelectHistory, Submitting, Caching
  <2>3. Holding'
    BY <1>2 DEF SelectHistory, Submitting, Holding
  <2>4. Loads'
    BY <1>2 DEF SelectHistory, Submitting, Holding, Loads
  <2>5. Owing'
    BY <1>2 DEF SelectHistory, Submitting, Holding, Loads, Owing, Owed
  <2> QED
    BY <2>1, <2>2, <2>3, <2>4, <2>5
<1>3. CASE KeepResult(l)
  <2>1. Submitting'
    BY <1>3 DEF KeepResult, AfterHistory, Submitting
  <2>2. Caching'
    BY <1>3 DEF KeepResult, AfterHistory, Submitting, Caching
  <2>3. Holding'
    BY <1>3 DEF KeepResult, AfterHistory, Submitting, Holding
  <2>4. Loads'
    BY <1>3 DEF KeepResult, AfterHistory, Submitting, Holding, Loads
  <2>5. Owing'
    BY <1>3 DEF KeepResult, AfterHistory, Submitting, Holding, Loads, Owing, Owed
  <2> QED
    BY <2>1, <2>2, <2>3, <2>4, <2>5
<1>4. CASE HitHistory(l)
  <2>1. Submitting'
    BY <1>4 DEF HitHistory, AfterHistory, Submitting
  <2>2. Caching'
    BY <1>4 DEF HitHistory, AfterHistory, Submitting, Caching
  <2>3. Holding'
    BY <1>4 DEF HitHistory, AfterHistory, Submitting, Holding
  <2>4. Loads'
    BY <1>4 DEF HitHistory, AfterHistory, Submitting, Holding, Loads
  <2>5. Owing'
    BY <1>4 DEF HitHistory, AfterHistory, Submitting, Holding, Loads, Owing, Owed
  <2> QED
    BY <2>1, <2>2, <2>3, <2>4, <2>5
<1>5. CASE ReadBackends(l)
  <2>1. Submitting'
    BY <1>5 DEF ReadBackends, Submitting
  <2>2. Caching'
    BY <1>5 DEF ReadBackends, Submitting, Caching
  <2>3. Holding'
    BY <1>5 DEF ReadBackends, Submitting, Holding
  <2>4. Loads'
    BY <1>5 DEF ReadBackends, Submitting, Holding, Loads
  <2>5. Owing'
    BY <1>5 DEF ReadBackends, Submitting, Holding, Loads, Owing, Owed
  <2> QED
    BY <2>1, <2>2, <2>3, <2>4, <2>5
<1>6. CASE Find(l)
  <2>1. Submitting'
    BY <1>6 DEF Find, Submitting
  <2>2. Caching'
    BY <1>6 DEF Find, Submitting, Caching
  <2>3. Holding'
    BY <1>6 DEF Find, Submitting, Holding
  <2>4. Loads'
    BY <1>6 DEF Find, Submitting, Holding, Loads
  <2>5. Owing'
    BY <1>6 DEF Find, Submitting, Holding, Loads, Owing, Owed
  <2> QED
    BY <2>1, <2>2, <2>3, <2>4, <2>5
<1>7. CASE FindNothing(l)
  <2>1. Submitting'
    BY <1>7 DEF FindNothing, Submitting
  <2>2. Caching'
    BY <1>7 DEF FindNothing, Submitting, Caching
  <2>3. Holding'
    BY <1>7 DEF FindNothing, Submitting, Holding
  <2>4. Loads'
    BY <1>7 DEF FindNothing, Submitting, Holding, Loads
  <2>5. Owing'
    BY <1>7 DEF FindNothing, Submitting, Holding, Loads, Owing, Owed
  <2> QED
    BY <2>1, <2>2, <2>3, <2>4, <2>5
<1>8. CASE Guess(l)
  <2>1. Submitting'
    BY <1>8 DEF Guess, Submitting
  <2>2. Caching'
    BY <1>8 DEF Guess, Submitting, Caching
  <2>3. Holding'
    BY <1>8 DEF Guess, Submitting, Holding
  <2>4. Loads'
    BY <1>8 DEF Guess, Submitting, Holding, Loads
  <2>5. Owing'
    BY <1>8 DEF Guess, Submitting, Holding, Loads, Owing, Owed
  <2> QED
    BY <2>1, <2>2, <2>3, <2>4, <2>5
<1>9. CASE LoadFails(l)
  <2>1. Submitting'
    BY <1>9 DEF LoadFails, EndLoad, Submitting
  <2>2. Caching'
    BY <1>9 DEF LoadFails, EndLoad, Submitting, Caching
  <2>3. Holding'
    BY <1>9 DEF LoadFails, EndLoad, Submitting, Holding
  <2>4. Loads'
    BY <1>9 DEF LoadFails, EndLoad, Submitting, Holding, Loads
  <2>5. Owing'
    BY <1>9 DEF LoadFails, EndLoad, Submitting, Holding, Loads, Owing, Owed
  <2> QED
    BY <2>1, <2>2, <2>3, <2>4, <2>5
<1>10. CASE Store(l)
  <2>1. Submitting'
    BY <1>10 DEF Store, EndLoad, Submitting
  <2>2. Caching'
    BY <1>10 DEF Store, EndLoad, Submitting, Caching, Loads
  <2>3. Holding'
    BY <1>10 DEF Store, EndLoad, Submitting, Holding
  <2>4. Loads'
    BY <1>10 DEF Store, EndLoad, Submitting, Holding, Loads
  <2>5. Owing'
    BY <1>10 DEF Store, EndLoad, Submitting, Holding, Loads, Owing, Owed
  <2> QED
    BY <2>1, <2>2, <2>3, <2>4, <2>5
<1>11. CASE Wake(l)
  <2>1. Submitting'
    BY <1>11 DEF Wake, Submitting
  <2>2. Caching'
    BY <1>11 DEF Wake, Submitting, Caching
  <2>3. Holding'
    BY <1>11 DEF Wake, Submitting, Holding
  <2>4. Loads'
    BY <1>11 DEF Wake, Submitting, Holding, Loads
  <2>5. Owing'
    BY <1>11 DEF Wake, Submitting, Holding, Loads, Owing, Owed
  <2> QED
    BY <2>1, <2>2, <2>3, <2>4, <2>5
<1> QED
  BY <1>1, <1>2, <1>3, <1>4, <1>5, <1>6, <1>7, <1>8, <1>9, <1>10, <1>11 DEF Look

(* What administrators do to the backends does not disturb it. *)
LEMMA ChangeLeads ==
  ASSUME Led, Typed', NEW b \in Backends, NEW row, ChangeBackend(b, row)
  PROVE  Led'
<1>1. UNCHANGED <<queryVars, cacheVars, lookupVars>>
  BY DEF ChangeBackend
<1> QED
  BY <1>1 DEF Led, Submitting, Caching, Holding, Loads, Owing, Owed, Saved, Settled, Leads,
              Clear, HidesRow, Known, queryVars, cacheVars, lookupVars

(* The invariant is kept by every step. *)
LEMMA LedStep == ASSUME Led, [Next]_vars PROVE Led'
<1>1. Typed'
  BY TypedStep DEF Led
<1>2. CASE UNCHANGED vars
  BY <1>1, <1>2 DEF Led, Submitting, Caching, Holding, Loads, Owing, Owed, Saved, Settled,
                    Leads, Clear, HidesRow, Known, vars, queryVars, cacheVars, lookupVars
<1>3. CASE Next
  BY <1>1, <1>3, ChangeLeads, ResponseLeads, LossLeads, LookupLeads DEF Next
<1> QED
  BY <1>2, <1>3

(* The inductive invariant holds of the specification. *)
LEMMA AlwaysLed == Spec => []Led
<1>1. Init => Led
  BY AffinityConstants DEF Init, Led, Typed, TypeOK, Placed, Submitting, Caching, Holding,
                           Loads, Owing, Owed, Saved, Settled, Leads, Clear, HidesRow,
                           Known, Loading, Ended
<1> QED
  BY <1>1, LedStep, PTL DEF Spec

(* However loads, puts, inserts, evictions, cleanups and restarts          *)
(* interleave, the cache and the history never name different backends for *)
(* a query, but for an entry that was evicted at a bad moment or loaded    *)
(* from an empty result that hid the row.                                  *)
THEOREM CacheAlwaysAgrees == Spec => []CacheAgreesWithHistory
<1>1. Led => CacheAgreesWithHistory
  BY DEF Led, Submitting, Caching, Saved, Settled, CacheAgreesWithHistory
<1> QED
  BY <1>1, AlwaysLed, PTL

(* A request that comes after the client was told the query's id is led to *)
(* the backend that runs the query, as long as the query is in the history *)
(* (findBackendForQueryId, through its cache and the cache's loader), but  *)
(* for an entry that lapsed and while an empty result hides the row.       *)
THEOREM AlwaysLedHome == Spec => []LedHome
<1>1. Led => LedHome
  BY DEF Led, Owing, Owed, Saved, Leads, LedHome
<1> QED
  BY <1>1, AlwaysLed, PTL

(* One step's part of KnowledgeStays. *)
LEMMA KnowledgeStep ==
  ASSUME Led, Next, NEW q \in Queries, Known(q), cache[q] = home[q]
  PROVE  cache'[q] \in {home[q], NoBackend}
<1> USE DEF Known
<1>1. CASE Restart
  BY <1>1 DEF Restart
<1>2. ASSUME NEW p \in Queries, Respond(p) PROVE cache'[q] \in {home[q], NoBackend}
  <2>1. CASE PutInCache(p)
    BY <2>1 DEF PutInCache, Led, Typed, TypeOK
  <2> QED
    BY <1>2, <2>1 DEF Respond, PassUnparsed, SaveHistory, PurgeResults, SaveFails, PassOn,
                     cacheVars
<1>3. ASSUME NEW p \in Queries, Evict(p) PROVE cache'[q] \in {home[q], NoBackend}
  BY <1>3 DEF Evict, Led, Typed, TypeOK
<1>4. ASSUME NEW l \in Lookups, Find(l) PROVE cache'[q] \in {home[q], NoBackend}
  BY <1>4 DEF Find, Led, Typed, TypeOK
<1>5. ASSUME NEW l \in Lookups, Store(l) PROVE cache'[q] \in {home[q], NoBackend}
  BY <1>5 DEF Store, Led, Typed, TypeOK
<1>6. ASSUME NEW l \in Lookups, Look(l), ~Find(l), ~Store(l)
      PROVE  cache'[q] \in {home[q], NoBackend}
  BY <1>6 DEF Look, SelectHistory, KeepResult, HitHistory, ReadBackends, FindNothing, Guess,
              LoadFails, Wake, cacheVars
<1>7. ASSUME \/ \E b \in Backends, row \in {"absent", "inactive", "active"} :
                  ChangeBackend(b, row)
             \/ \E p \in Queries : \/ Expire(p) \/ CleanUp(p)
                                   \/ \E b \in Backends : Accept(p, b)
                                   \/ \E l \in Lookups : Come(l, p)
      PROVE  cache'[q] \in {home[q], NoBackend}
  BY <1>7 DEF ChangeBackend, Expire, CleanUp, Accept, Come, cacheVars
<1> QED
  BY <1>1, <1>2, <1>3, <1>4, <1>5, <1>6, <1>7 DEF Next

(* Once the cache holds the backend that runs a query, no load replaces it *)
(* with a guess (the loader of queryIdBackendCache, and its put).          *)
THEOREM KnowledgeAlwaysStays == Spec => KnowledgeStays
<1>1. Led /\ [Next]_vars =>
        [\A q \in Queries :
           Known(q) /\ cache[q] = home[q] => cache'[q] \in {home[q], NoBackend}]_vars
  BY KnowledgeStep
<1> QED
  BY <1>1, AlwaysLed, PTL DEF Spec, KnowledgeStays
=============================================================================
