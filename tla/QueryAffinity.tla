----------------------------- MODULE QueryAffinity -----------------------------
(***************************************************************************)
(* How the gateway leads requests about a query to the backend that runs   *)
(* it.  The response to the query's submission puts the backend into the   *)
(* cache and then into the query history, before the client sees the       *)
(* query's id (QueryIdCachingProxyHandler).  A later request looks the id   *)
(* up in the cache, whose loader asks the history, then every backend, and *)
(* at last guesses (RoutingManager, HaRoutingManager).  Meanwhile entries  *)
(* leave the cache, old rows leave the history, administrators change the  *)
(* backends, clusters are up or down and the gateway restarts.             *)
(*                                                                         *)
(* A backend's URL is identified with its name.  The loading cache is      *)
(* Guava's: one load at a time for a key, whoever asks meanwhile waits for *)
(* it, a put ends the wait of later callers only, and a loaded value is    *)
(* stored unless the key has got a value in between.  Reads of the         *)
(* database go through ActiveJDBC's query cache (EntityStore): of the      *)
(* history its results are here, empty ones too; of the backends, that a   *)
(* list may be a minute old.                                               *)
(***************************************************************************)
EXTENDS Integers, FiniteSets

CONSTANTS Backends,        \* backends an administrator may register
          Adhoc,           \* those of them in the group "adhoc"
          Queries,         \* the ids of queries
          Lookups,         \* requests about a query, each handled once
          NoBackend,       \* no value in the cache, no row in the history
          NoQuery,         \* a lookup has not come yet
          Nobody,          \* nobody is loading a key
          NotHeld,         \* the query cache has no result
          MaxChanges,      \* bound on administrators' changes
          MaxRestarts,     \* bound on restarts
          SplitResponses,  \* may a submission's response come in several chunks?
          StoreErrors,     \* may an access to the database throw?
          OldRows          \* may a query outlive its row in the history?

ASSUME AffinityConstants ==
  /\ Adhoc \subseteq Backends
  /\ NoBackend \notin Backends
  /\ NotHeld \notin Backends \cup {NoBackend}
  /\ NoQuery \notin Queries
  /\ Nobody \notin Lookups
  /\ MaxChanges \in Nat /\ MaxRestarts \in Nat
  /\ {SplitResponses, StoreErrors, OldRows} \subseteq BOOLEAN

VARIABLES
  known,      \* the rows of gateway_backend
  active,     \* the active ones among them
  stale,      \* lists of them from before a change that may still be answered
  changes,    \* changes so far (bounds the model)
  restarts,   \* restarts so far (bounds the model)
  home,       \* the backend that runs each query
  submit,     \* where the response to its submission is
  history,    \* query_history: query -> backend_url
  held,       \* the query cache of query_history: query -> its result
  cache,      \* queryIdBackendCache: query -> backend
  loading,    \* who loads the key
  lapsed,     \* the keys evicted before they were saved or while loaded, or
              \* loaded from an empty result in spite of their row (history)
  pc,         \* where each lookup is
  query,      \* the query it asks about
  loader,     \* the load it waits for
  probed,     \* the backends whose probes it submitted
  value,      \* what its load found
  owed        \* had the client been told the id when it came, and was
              \* nothing the matter with the entry? (history)

clusterVars == <<known, active, stale, changes>>
queryVars   == <<home, submit, history, held>>
cacheVars   == <<cache, loading, lapsed>>
lookupVars  == <<pc, query, loader, probed, value, owed>>
vars == <<clusterVars, restarts, queryVars, cacheVars, lookupVars>>

Loading == {"readHistory", "keepResult", "readBackends", "probe", "guess", "store"}
Ended   == {"done", "failed"}

Init ==
  /\ known \in SUBSET Backends
  /\ active \in SUBSET known
  /\ stale = {}
  /\ changes = 0 /\ restarts = 0
  /\ home = [q \in Queries |-> NoBackend]
  /\ submit = [q \in Queries |-> "none"]
  /\ history = [q \in Queries |-> NoBackend]
  /\ held = [q \in Queries |-> NotHeld]
  /\ cache = [q \in Queries |-> NoBackend]
  /\ loading = [q \in Queries |-> Nobody]
  /\ lapsed = {}
  /\ pc = [l \in Lookups |-> "idle"]
  /\ query = [l \in Lookups |-> NoQuery]
  /\ loader = [l \in Lookups |-> Nobody]
  /\ probed = [l \in Lookups |-> {}]
  /\ value = [l \in Lookups |-> NoBackend]
  /\ owed = [l \in Lookups |-> FALSE]

-----------------------------------------------------------------------------
(* Administrators. *)

(* What a read of the backends may answer: how they are, or how they were  *)
(* before a change (a result that was put into the query cache after the   *)
(* change purged it, and that leaves it again after a minute: here it may  *)
(* stay).                                                                  *)
Current == [known |-> known, active |-> active]
Lists == stale \cup {Current}

(* The row of b is added, activated, deactivated or deleted. *)
ChangeBackend(b, row) ==
  /\ changes < MaxChanges
  /\ known' = IF row = "absent" THEN known \ {b} ELSE known \cup {b}
  /\ active' = IF row = "active" THEN active \cup {b} ELSE active \ {b}
  /\ <<known', active'>> # <<known, active>>
  /\ stale' = stale \cup {Current}
  /\ changes' = changes + 1
  /\ UNCHANGED <<restarts, queryVars, cacheVars, lookupVars>>

-----------------------------------------------------------------------------
(* The response to a submission. *)

Reach(q, step) ==
  /\ submit' = [submit EXCEPT ![q] = step]
  /\ UNCHANGED <<clusterVars, restarts, lookupVars>>

(* The query is routed to an active backend, which takes it. *)
Accept(q, b) ==
  /\ submit[q] = "none"
  /\ \E list \in Lists : b \in list.active
  /\ home' = [home EXCEPT ![q] = b]
  /\ Reach(q, "accepted")
  /\ UNCHANGED <<history, held, cacheVars>>

(* Mutant: the backend is saved but not cached. *)
PutInCacheSkipped(q) ==
  /\ submit[q] = "accepted"
  /\ Reach(q, "cached")
  /\ UNCHANGED <<home, history, held, cacheVars>>

(* setBackendForQueryId: a load that is under way will not be joined any more. *)
PutInCache(q) ==
  /\ submit[q] = "accepted"
  /\ cache' = [cache EXCEPT ![q] = home[q]]
  /\ loading' = [loading EXCEPT ![q] = Nobody]
  /\ Reach(q, "cached")
  /\ UNCHANGED <<home, history, held, lapsed>>

(* A part of the JSON does not parse: the hook logs it and passes the part *)
(* on; the parts that follow do not parse either.                          *)
PassUnparsed(q) ==
  /\ SplitResponses
  /\ submit[q] = "accepted"
  /\ Reach(q, "told")
  /\ UNCHANGED <<home, history, held, cacheVars>>

SaveHistory(q) ==
  /\ submit[q] = "cached"
  /\ history' = [history EXCEPT ![q] = home[q]]
  /\ Reach(q, "inserted")
  /\ UNCHANGED <<home, held, cacheVars>>

(* After the insert every result of the table leaves the query cache. *)
PurgeResults(q) ==
  /\ submit[q] = "inserted"
  /\ held' = [p \in Queries |-> NotHeld]
  /\ Reach(q, "saved")
  /\ UNCHANGED <<home, history, cacheVars>>

(* The insert throws; the hook catches it and passes the response on. *)
SaveFails(q) ==
  /\ StoreErrors
  /\ submit[q] = "cached"
  /\ Reach(q, "saved")
  /\ UNCHANGED <<home, history, held, cacheVars>>

PassOn(q) ==
  /\ submit[q] = "saved"
  /\ Reach(q, "told")
  /\ UNCHANGED <<home, history, held, cacheVars>>

Respond(q) ==
  \/ PutInCache(q) \/ PassUnparsed(q) \/ SaveHistory(q) \/ PurgeResults(q)
  \/ SaveFails(q) \/ PassOn(q)

-----------------------------------------------------------------------------
(* A lookup: findBackendForQueryId. *)

Move(l, label) ==
  /\ pc' = [pc EXCEPT ![l] = label]
  /\ UNCHANGED <<clusterVars, restarts, queryVars>>

Known(q) == cache[q] # NoBackend

(* An empty result of a query whose row is there by now. *)
HidesRow(q) == held[q] = NoBackend /\ history[q] # NoBackend

(* Anybody may learn the id from the cluster's UI before its client does. *)
Come(l, q) ==
  /\ pc[l] = "idle"
  /\ home[q] # NoBackend
  /\ query' = [query EXCEPT ![l] = q]
  /\ owed' = [owed EXCEPT ![l] =
       submit[q] = "told" /\ q \notin lapsed /\ ~HidesRow(q)]
  /\ \/ /\ Known(q)
        /\ value' = [value EXCEPT ![l] = cache[q]]
        /\ Move(l, "done")
        /\ UNCHANGED <<loading, loader>>
     \/ /\ ~Known(q) /\ loading[q] = Nobody
        /\ loading' = [loading EXCEPT ![q] = l]
        /\ Move(l, "readHistory")
        /\ UNCHANGED <<value, loader>>
     \/ /\ ~Known(q) /\ loading[q] # Nobody
        /\ loader' = [loader EXCEPT ![l] = loading[q]]
        /\ Move(l, "wait")
        /\ UNCHANGED <<value, loading>>
  /\ UNCHANGED <<cache, lapsed, probed>>

(* Mutant: what the history returns is not tested for null. *)
AfterHistoryUnchecked(row) == "store"

(* HaRoutingManager: the history first, then the backends. *)
AfterHistory(row) == IF row # NoBackend THEN "store" ELSE "readBackends"

(* findById, when the query cache has no result. *)
SelectHistory(l) ==
  /\ pc[l] = "readHistory"
  /\ held[query[l]] = NotHeld
  /\ value' = [value EXCEPT ![l] = history[query[l]]]
  /\ Move(l, "keepResult")
  /\ UNCHANGED <<cacheVars, query, loader, probed, owed>>

(* The query cache gets the result, however long ago it was selected. *)
KeepResult(l) ==
  /\ pc[l] = "keepResult"
  /\ held' = [held EXCEPT ![query[l]] = value[l]]
  /\ pc' = [pc EXCEPT ![l] = AfterHistory(value[l])]
  /\ UNCHANGED <<clusterVars, restarts, home, submit, history, cacheVars,
                 query, loader, probed, value, owed>>

(* findById, when the query cache has one. *)
HitHistory(l) ==
  LET q == query[l]
  IN  /\ pc[l] = "readHistory"
      /\ held[q] # NotHeld
      /\ value' = [value EXCEPT ![l] = held[q]]
      /\ lapsed' = IF HidesRow(q) THEN lapsed \cup {q} ELSE lapsed
      /\ Move(l, AfterHistory(held[q]))
      /\ UNCHANGED <<cache, loading, query, loader, probed, owed>>

ReadBackends(l) ==
  /\ pc[l] = "readBackends"
  /\ \E list \in Lists : probed' = [probed EXCEPT ![l] = list.known]
  /\ Move(l, "probe")
  /\ UNCHANGED <<cacheVars, query, loader, value, owed>>

(* One of the probes that are done answers 200, as the cluster that runs   *)
(* the query does, and no failed one is met before it: that backend is put *)
(* into the cache by the loader itself.                                    *)
Find(l) ==
  /\ pc[l] = "probe"
  /\ home[query[l]] \in probed[l]
  /\ value' = [value EXCEPT ![l] = home[query[l]]]
  /\ cache' = [cache EXCEPT ![query[l]] = home[query[l]]]
  /\ loading' = [loading EXCEPT ![query[l]] = Nobody]
  /\ probed' = [probed EXCEPT ![l] = {}]
  /\ Move(l, "store")
  /\ UNCHANGED <<lapsed, query, loader, owed>>

(* Otherwise: that cluster is down, or is not done when it is asked, or    *)
(* the answer of another one that is down ends the loop with an exception  *)
(* before its turn comes.                                                  *)
FindNothing(l) ==
  /\ pc[l] = "probe"
  /\ probed' = [probed EXCEPT ![l] = {}]
  /\ Move(l, "guess")
  /\ UNCHANGED <<cacheVars, query, loader, value, owed>>

(* Mutant: the guess is put into the cache like a backend that was found. *)
GuessCached(l) ==
  /\ pc[l] = "guess"
  /\ \E list \in Lists : \E b \in list.active \cap Adhoc :
       /\ value' = [value EXCEPT ![l] = b]
       /\ cache' = [cache EXCEPT ![query[l]] = b]
  /\ Move(l, "store")
  /\ UNCHANGED <<loading, lapsed, query, loader, probed, owed>>

(* getActiveAdhocBackends().get(0), in the order of the database. *)
Guess(l) ==
  /\ pc[l] = "guess"
  /\ \E list \in Lists : \E b \in list.active \cap Adhoc :
       value' = [value EXCEPT ![l] = b]
  /\ Move(l, "store")
  /\ UNCHANGED <<cacheVars, query, loader, probed, owed>>

EndLoad(l) ==
  loading' = [q \in Queries |-> IF loading[q] = l THEN Nobody ELSE loading[q]]

(* get(0) of an empty list throws, and so does a read of the database: the *)
(* load fails and stores nothing.                                          *)
LoadFails(l) ==
  /\ \/ pc[l] = "guess" /\ \E list \in Lists : list.active \cap Adhoc = {}
     \/ StoreErrors /\ pc[l] \in {"readHistory", "readBackends"}
  /\ EndLoad(l)
  /\ Move(l, "failed")
  /\ UNCHANGED <<cache, lapsed, query, loader, probed, value, owed>>

(* The loaded value is stored unless the key has a value, and is returned. *)
Store(l) ==
  /\ pc[l] = "store"
  /\ cache' = IF Known(query[l]) THEN cache
              ELSE [cache EXCEPT ![query[l]] = value[l]]
  /\ EndLoad(l)
  /\ Move(l, "done")
  /\ UNCHANGED <<lapsed, query, loader, probed, value, owed>>

(* Mutant: an exception of the load does not reach those who wait for it.  *)
WakeOnValue(l) ==
  /\ pc[l] = "wait"
  /\ pc[loader[l]] = "done"
  /\ value' = [value EXCEPT ![l] = value[loader[l]]]
  /\ loader' = [loader EXCEPT ![l] = Nobody]
  /\ Move(l, "done")
  /\ UNCHANGED <<cacheVars, query, probed, owed>>

(* Whoever waits gets what the load returns or throws. *)
Wake(l) ==
  /\ pc[l] = "wait"
  /\ pc[loader[l]] \in Ended
  /\ value' = [value EXCEPT ![l] = value[loader[l]]]
  /\ loader' = [loader EXCEPT ![l] = Nobody]
  /\ Move(l, pc[loader[l]])
  /\ UNCHANGED <<cacheVars, query, probed, owed>>

Look(l) ==
  \/ SelectHistory(l) \/ KeepResult(l) \/ HitHistory(l) \/ ReadBackends(l)
  \/ Find(l) \/ FindNothing(l) \/ Guess(l) \/ LoadFails(l) \/ Store(l) \/ Wake(l)

-----------------------------------------------------------------------------
(* An entry leaves the cache: 30 minutes without access, or 10000 others.  *)
Evict(q) ==
  /\ Known(q)
  /\ cache' = [cache EXCEPT ![q] = NoBackend]
  /\ lapsed' = IF \/ submit[q] = "cached"
                  \/ \E l \in Lookups : query[l] = q /\ pc[l] \in Loading
               THEN lapsed \cup {q} ELSE lapsed
  /\ UNCHANGED <<clusterVars, restarts, queryVars, loading, lookupVars>>

(* A result is a minute old, makes room for another one, or is purged      *)
(* after some other row was written (by the cleanup, for one).             *)
Expire(q) ==
  /\ held[q] # NotHeld
  /\ held' = [held EXCEPT ![q] = NotHeld]
  /\ UNCHANGED <<clusterVars, restarts, home, submit, history, cacheVars, lookupVars>>

(* The cleanup deletes a row that is older than the retention: the         *)
(* response was passed on hours ago.                                       *)
CleanUp(q) ==
  /\ OldRows
  /\ submit[q] = "told"
  /\ history[q] # NoBackend
  /\ history' = [history EXCEPT ![q] = NoBackend]
  /\ UNCHANGED <<clusterVars, restarts, home, submit, held, cacheVars, lookupVars>>

(* Responses and lookups under way are cut off; the caches start empty. *)
Restart ==
  /\ restarts < MaxRestarts
  /\ restarts' = restarts + 1
  /\ cache' = [q \in Queries |-> NoBackend]
  /\ held' = [q \in Queries |-> NotHeld]
  /\ stale' = {}
  /\ loading' = [q \in Queries |-> Nobody]
  /\ lapsed' = {}
  /\ submit' = [q \in Queries |->
       IF submit[q] \in {"accepted", "cached", "inserted", "saved"} THEN "lost" ELSE submit[q]]
  /\ pc' = [l \in Lookups |-> IF pc[l] \in {"idle"} \cup Ended THEN pc[l] ELSE "failed"]
  /\ probed' = [l \in Lookups |-> {}]
  /\ loader' = [l \in Lookups |-> Nobody]
  /\ value' = [l \in Lookups |-> IF pc[l] = "done" THEN value[l] ELSE NoBackend]
  /\ UNCHANGED <<known, active, changes, home, history, query, owed>>

Next ==
  \/ Restart
  \/ \E b \in Backends, row \in {"absent", "inactive", "active"} :
       ChangeBackend(b, row)
  \/ \E q \in Queries :
       \/ Respond(q) \/ Evict(q) \/ Expire(q) \/ CleanUp(q)
       \/ \E b \in Backends : Accept(q, b)
       \/ \E l \in Lookups : Come(l, q)
  \/ \E l \in Lookups : Look(l)

Spec == Init /\ [][Next]_vars

(* Threads run on: a response is passed on, a lookup goes through its steps. *)
FairSpec ==
  /\ Spec
  /\ \A q \in Queries : WF_vars(Respond(q))
  /\ \A l \in Lookups : WF_vars(Look(l))

-----------------------------------------------------------------------------
(* The last conjunct: a load never returns null, which Guava would refuse. *)
TypeOK ==
  /\ known \in SUBSET Backends /\ active \in SUBSET known
  /\ stale \subseteq [known : SUBSET Backends, active : SUBSET Backends]
  /\ changes \in 0..MaxChanges /\ restarts \in 0..MaxRestarts
  /\ home \in [Queries -> Backends \cup {NoBackend}]
  /\ submit \in [Queries -> {"none", "accepted", "cached", "inserted", "saved", "told", "lost"}]
  /\ history \in [Queries -> Backends \cup {NoBackend}]
  /\ held \in [Queries -> Backends \cup {NoBackend, NotHeld}]
  /\ cache \in [Queries -> Backends \cup {NoBackend}]
  /\ loading \in [Queries -> Lookups \cup {Nobody}]
  /\ lapsed \in SUBSET Queries
  /\ pc \in [Lookups -> {"idle", "wait"} \cup Loading \cup Ended]
  /\ query \in [Lookups -> Queries \cup {NoQuery}]
  /\ loader \in [Lookups -> Lookups \cup {Nobody}]
  /\ probed \in [Lookups -> SUBSET Backends]
  /\ value \in [Lookups -> Backends \cup {NoBackend}]
  /\ owed \in [Lookups -> BOOLEAN]
  /\ \A l \in Lookups : pc[l] \in {"store", "done"} => value[l] \in Backends

(* The cache and the history never name different backends for a query,    *)
(* however loads race with the response: a guess may be in the cache only  *)
(* as long as the query is not saved.  There are two exceptions: an entry  *)
(* that was evicted between its put and the insert, or while a load of it  *)
(* was under way; and one whose load found an empty result in the query    *)
(* cache, put there after the insert's purge.                              *)
CacheAgreesWithHistory ==
  \A q \in Queries :
    Known(q) /\ history[q] # NoBackend => cache[q] = history[q] \/ q \in lapsed

(* A request that comes after the client was told the query's id is led to *)
(* the backend that runs it, active or not, as long as the query is in the *)
(* history: through evictions, restarts and any change of the backends.    *)
(* (Again but for an entry that lapsed, until the gateway restarts, and    *)
(* while the query cache holds an empty result that hides the row.)        *)
LedHome ==
  \A l \in Lookups :
    pc[l] = "done" /\ owed[l] /\ history[query[l]] # NoBackend =>
      value[l] = home[query[l]]

(* Once the cache holds the backend that runs a query, no load replaces it *)
(* with a guess: the entry stays or leaves.                                *)
KnowledgeStays ==
  [][\A q \in Queries :
       Known(q) /\ cache[q] = home[q] => cache'[q] \in {home[q], NoBackend}]_vars

(* Every request about a query ends, those that wait for another's load    *)
(* that fails included.                                                    *)
EveryLookupEnds == \A l \in Lookups : pc[l] # "idle" ~> pc[l] \in Ended
=============================================================================
