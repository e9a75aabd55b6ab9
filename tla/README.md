# Verification of presto-gateway

A TLA+ development kept beside the gateway's source (`src/`): specifications
translated from the code, TLC configurations that check them on small
instances, and proofs that TLAPS checks for every instance.  In the paths
below `ha/` stands for
`src/gateway-ha/src/main/java/com/lyft/data/gateway/ha/`.

## The system

The gateway is a reverse proxy in front of several Presto clusters
("backends").  A *new* query (`POST /v1/statement`) is routed to an active
backend of a routing group; everything that follows about the same query must
go to the backend that runs it.  `docs/design.md` names three layers: BaseApp
(Dropwizard application), ProxyServer (Jetty proxy with hooks) and Gateway
(the routing).

| Component | State | Operations | Talks to |
|---|---|---|---|
| Queue-length routing table, `ha/router/PrestoQueueLengthRoutingTable.java` | `clusterQueueLengthMap`, `weightedDistributionRouting` (a plain `HashMap`), `routingGroupWeightSum`, one lock | two `updateRoutingTable`s, `getEligibleBackEnd`, `provideBackendForRoutingGroup`, `provideAdhocBackend` | reads the backend store; called by request threads and by the monitor |
| Cluster monitor and observers, `ha/clustermonitor/` | its loop; `ClusterStats` of one beat | `start`, `getPrestoClusterStats`, `HealthChecker.observe`, `PrestoQueueLengthChecker.observe` | reads the backend store, polls every cluster, updates the routing table, notifies |
| Backend store, `ha/router/HaGatewayManager.java`, `ha/persistence/dao/GatewayBackend.java` | table `gateway_backend`, ActiveJDBC's query cache (`@Cached`) | add, update, delete, activate, deactivate, four reads | called by the resources, the monitor, the routing |
| Query-id affinity, `ha/router/RoutingManager.java`, `HaRoutingManager.java`, `HaQueryHistoryManager.java` | Guava cache of 10000 entries, table `query_history` | `findBackendForQueryId`, `setBackendForQueryId`, `submitQueryDetail`, `getBackendForQueryId` | probes the clusters, reads the backend store |
| Query path handler, `ha/handler/QueryIdCachingProxyHandler.java` | headers of the request | `rewriteTarget`, `preConnectionHook`, `postConnectionHook` | affinity, routing rules, routing table, history |
| Routing rules, `ha/router/RoutingGroupSelector.java`, `HaRoutingGroupRuleManager.java` | table `routing_rule`, read at each request | `findRoutingGroup`, CRUD | request headers |
| Resource groups and selectors, `ha/router/HaResourceGroupsManager.java` | three tables, in one of several databases | CRUD | `PrestoResource`, entity editor |
| Entity editor, `src/gateway-ha/src/main/resources/assets/js/entity-editor.js`, `ha/resource/EntityEditorResource.java` | `entityData`, the editor's entity, requests under way | list, pick, edit, submit; `getAllEntitiesForType`, `updateEntity` | all the stores |
| Other resources, `ha/resource/` | none | REST | the stores |
| Persistence, `ha/persistence/JdbcConnectionManager.java` | a thread-bound connection, the cleanup schedule | `open`, `close`, `startCleanUps` | deletes query history |
| Proxy server, `src/proxyserver/` | one asynchronous exchange per request | `rewriteTarget`, `onResponseContent` | calls the handler's hooks |
| Application launch, notifier, configuration, assets | none that changes | | |

How they interact: a request thread calls `rewriteTarget`, which asks the
affinity for known query ids and the routing rules and the routing table for
new ones.  The response comes back in chunks through `postConnectionHook`,
which saves the query's backend in the cache and the history before the chunk
is passed on.  The monitor's one thread wakes every `taskDelayMin` minutes,
asks all active clusters for statistics and hands them to the observers, in
order; the last one replaces the routing table.  Administrators change the
backend store at any time.

What is hard here, and what makes each component correct:

* *Routing table.*  Request threads compare the table with a list of backends
  they read **before** taking the lock, and look a cluster up **after** leaving
  it, in a plain `HashMap` that another thread may be clearing.  Correct: a
  client is given only a backend that a list it read shows as active in its
  group;
  the three maps agree when the lock is free; a draw never misses; backends
  that left disappear from the table for good; nobody waits for ever.
* *Weights.*  Integer and floating arithmetic at its boundaries (0, equal
  lengths, the average).  Correct: shorter queue, larger share.
* *Monitor.*  One exception skips the rest of a beat; a cluster may answer in
  part; `stop` comes at any moment.  Correct: what is reported was answered in
  full in this beat, a beat ends, and a stopped loop does.
* *Affinity.*  A load of the cache may race with the response that puts the
  mapping; the probe does not wait for its answers; a guess is cached as if it
  were knowledge; history rows are deleted by age.  Correct: once a client has
  seen its query id, it is led to the backend that runs the query.
* *Request path.*  The query id is read from text: a path, a query string, a
  statement's body.  Correct: what is about a query reaches its backend, what is
  not keeps to its routing group.
* *Stores.*  Check-then-act by concurrent administrators, an update that
  touches several rows, a query cache that all databases share.  Correct: what a
  caller is told is true, and nothing disappears that nobody named.
* *Rules.*  They are read at each request, and one that cannot be read decides
  about all.  Correct: the matching rule of the highest priority decides.
* *Editor.*  Lists arrive in any order, saves name what is selected when they
  are sent.  Correct: an entity goes back where it came from.

## Modules

| Module | Models |
|---|---|
| `Weights` | the weight computation, the table it gives and the lookup, as operators; shared by the next two |
| `GroupWeights`, `MCGroupWeights` | one routing group under successive heartbeats, with the code's weights (1 to 100): what share of the draws each cluster gets (its names are prefixed with the group's, because the proofs about `RoutingTable` extend those about it) |
| `RoutingTable`, `MCRoutingTable` | the shared table: requests, monitor, administrators, the lock, and the unsynchronised reads |
| `RoutingContract` | what a client may rely on, without a table: the specification `RoutingTable` implements |
| `QueryAffinity` | a query's way into the cache and the history, and the requests that look it up, through loads that race with it, evictions, cleanups, failures and restarts |
| `QueryPath`, `MCQueryPath` | the handler: which query a request is about, where it goes, what the response leaves behind |
| `ClusterMonitor` | the monitor's loop, the tasks of its pool, the two observers, `stop` |
| `MonitorContract` | what a heartbeat promises: the specification that `ClusterMonitor` implements, and that the beats of `RoutingTable` keep |
| `EntityStore` | the managers' calls on a table with a key, in several databases, through the query cache |
| `SelectorStore`, `MCSelectorStore` | the selectors, whose table has no key |
| `RoutingRules` | the selection of a routing group by the stored rules, as operators |
| `EntityEditor`, `MCEntityEditor` | the editor's page, its requests, the saves, and the rules that come of them; extends `RoutingRules` |
| `WeightsProofs`, `RoutingTableProofs`, `QueryAffinityProofs`, `QueryPathProofs`, `ClusterMonitorProofs`, `EntityStoreProofs`, `SelectorStoreProofs`, `EntityEditorProofs` | theorems |

How they compose: `QueryPath` uses what `RoutingTable` and `QueryAffinity`
promise (`Provided`, `Found`) in place of the components; `ClusterMonitor`
implements the heartbeat that `RoutingTable` has as actions of its own, both
through `MonitorContract` (`KeepsContract` there, `OnlyBeatsReport` here);
`EntityEditor` saves into tables that `EntityStore` and `SelectorStore` have in
detail, and asks `RoutingRules` what routing makes of them.

### How `RoutingTable` follows the code

State: `store` is the table `gateway_backend` (a backend's URL is identified
with its name), `stale` the lists of active backends from before a change that
the query cache may still answer; `queueMap`, `weighted` and `weightSum` are the three maps;
`lock` is the holder of `lockObject`, `stage`, `todo` and `filling` say where
it is in `computeWeightsBasedOnQueueLength`; per request `pc`, `target` (the
group), `snapshot` (the keys of `proxyMap`), `rnd` and `answer`; `monitorPc`
and `seen` for the monitor.  `plight` and `cleared` are history: what befell a
request, and the tables the last `clear()` removed.

Actions, in the order of the code: a request arrives (`ArriveForGroup`,
`ArriveForAdhoc`: `rewriteTarget`), reads the active backends (`ReadActive`,
`ReadAdhoc`, or `Refuse`, `StoreFails`), updates the table under the lock
(`KeepTable` when no known backend is missing, else `PruneTable` and the steps
of the computation: `ClearTables`, `ClearSums`, `PutTable`, `PutSum`,
`Release`), and looks a cluster up (`SeeSum`, `SeeTable`, `DrawFrom`, `Pick`,
with `DrawCrashes` and `PickCrashes` where the code dereferences null, and
`Fallback` for the random distribution).  The monitor fetches the active
backends (`FetchActive`), and reports (`Report`, with any set of clusters that
answered), is cut short by a null user (`ReportAborts`) or by the observer
before it (`SkipBeat`).

Each write to a shared map is a step of its own, because lookups are not
synchronised with them.  `weightedDistributionRouting` is a plain `HashMap`:
what a reader sees of a concurrent write is undefined in Java, so `Overtake`
lets each overtaken reader see the write or miss it, and `Visible` lets a
reader that found no table see the one cleared before.  The `ConcurrentHashMap`
reads are atomic.  A `TreeMap` is private to the computation until it is put.

Left out on purpose: the user-based branch of `getEligibleBackEnd` (both
callers pass `null`), `getInternalWeightedRoutingTable` and
`getInternalClusterQueueLength` (used by tests).

The backends are read through ActiveJDBC's query cache.  A list that was
selected before a change and put into the cache after the change purged it is
answered to whoever asks, requests and monitor alike, until its time to live is
over.  How that comes about is the subject of `EntityStore`; here, and in
`RoutingContract`, `MonitorContract` and `ClusterMonitor`, a change adds the list
before it to `stale`, a read may be answered with any of `Lists`, and
`ForgetLists` is the end of that minute.  `LateFills` turns this off for a run.

### How `QueryAffinity` follows the code

State: `known` and `active` are `gateway_backend` (in the group adhoc or not:
`Adhoc`), `stale` its contents before a change, which a read may still be
answered; per query `home` is the backend that runs it, `submit` how far the
response to its submission has come, `history` its row in `query_history` and
`held` the result the query cache has for it, which may be empty; `cache` and `loading` are `queryIdBackendCache`;
per lookup `pc`, `query`, `loader` (the load it waits for), `probed` (the
backends asked) and `value`.  `lapsed` and `owed` are history
variables: entries evicted between their put and their insert or during a load
of their key, or loaded from an empty result although the row is there; whether
the client had been told the id when the lookup came, and nothing was the matter
with the entry.

The response (`postConnectionHook`): `PutInCache`, then `SaveHistory` with
`PurgeResults` of the query cache, or `SaveFails` (the hook catches the
exception), then `PassOn`: the proxy calls
the hook before it passes a chunk to the client.  `PassUnparsed` is a response
whose JSON comes in several chunks, none of which parses.  The lookup
(`findBackendForQueryId`): `Come` hits the cache, starts a load, or joins one;
a load asks the history (`HitHistory` in the query cache, or `SelectHistory` and
then `KeepResult`, which puts what was selected into the query cache however
late), then lists all backends
(`ReadBackends`), probes them (`Find`, which puts the cache itself, or
`FindNothing`: an answer that is not there the moment `isDone` is asked, or an
exception of another probe that ends the loop), and guesses (`Guess`, the
first active adhoc backend); `LoadFails` is `get(0)` of an empty list or a read
of the database that throws, `Store` the end of a load, `Wake` the end of a
wait for one.  Around them `ChangeBackend`, `Evict`, `Expire` (of
the query cache), `CleanUp` (only what was passed on long ago) and `Restart`,
which cuts off what is under way and empties the caches.  Whether a cluster is up
shows only in what a probe answers, and any probe may find nothing.

Guava's cache is external and modelled by its contract: one load at a time for
a key, whoever asks meanwhile waits for that load and gets its value or its
exception, a put leaves the load to those who wait already, and a loaded value
is stored only if the key has no value by then.

Left out: `fetchQueryHistory` (a view), and responses other than 200, which
only add rows without a query id.  A backend's URL is identified with its
name.

### How `QueryPath` follows the code

A request is what the handler reads of it (`Message`): the API of its path, the
segments after it, the query string, and a statement's body cut at its commas,
of which each part mentions `query_id` or not and quotes a word or not.  `Forms`
are the requests clients send: pages of a result, the query's information, the
UI's page with the id in the path or in the query string, `kill_query` with its
arguments named, preceded by a message of several words or of one (`Word`), by
position or in capital letters, a statement that quotes a kill, one that does
not, and paths without an id.  The
words are not put together from characters: a segment is a query's id, a stage
or a slug.

`BodyId`, `StatementPathId`, `UiPathId` and `ExtractQueryId` are
`extractQueryIdIfPresent`; `Route` is `rewriteTarget` (white list, query id or
routing group, the `proxytarget` header), `RouteFails` its exceptions
(`tokens[4]` of four tokens; no backend to guess or for the group; a null
target).  `postConnectionHook` of a statement's response is `Save` and then
`PassOn`; a response that does not parse goes to the client without the first,
and the query is one of `unread`.  `Answer` is any other response.
The Presto coordinators are external: `Accept` gives a statement an id.  Where
the handler calls the routing table or the affinity, the module has what those
promise: `Provided`, the members of the group that some list may show as active
or those of adhoc, and `Found`, the mapping or, without one, what asking the
backends or a guess may give (`Asked`), which then is the mapping until a
response's own replaces it.  A mapping that was made is not lost here; how it may
be is `QueryAffinity`'s subject.

### How `ClusterMonitor` follows the code

`pc` walks through `start()`: `Check`, `Fetch`, `Submit` for each active
cluster, `Collect` (`future.get()` of all of them), `ObserveHealth`,
`ObserveQueues`, `Wake`.  A read of the database that throws (`FetchFails`), a
pool that was shut down (`SubmitRejected`), a notifier without recipients (in
`ObserveHealth`) and a null user (in `ObserveQueues`, after the maps were
cleared) end the beat.  `task` is what `getPrestoClusterStats` has made of each
cluster so far, on one of `PoolSize` threads: `QueryStats` has the outcomes "no
answer", "parsed in part" (healthy, without a routing group) and "in full",
`QueryUsers` the second request.  `LowerFlag` and `ShutPool` are the two effects
of `stop()`; the sleep is not interrupted.  `answered` is history: who answered
in full since the beat began.

`MonitorContract` is the monitor of `RoutingTable` in a module of its own
(`Begin` is `FetchActive`; `End` is `Report`, `ReportAborts` or `SkipBeat`); the
lengths a cluster reports are left to `RoutingTable`.  `RoutingTable` instantiates
it as `Beats`; there the table is also changed by requests, which the contract
does not know: `Forget` says how.

### How `EntityStore` follows the code

`HaGatewayManager`, `HaRoutingGroupRuleManager` and the resource groups and
global properties of `HaResourceGroupsManager` are the same five operations on
tables with a key: list, create, delete, update (create what is not found) and,
for backends, a switch of the `active` column.  `store` is such a table in each
database that `useSchema` can name; `cache` is ActiveJDBC's query cache, whose
keys are the text and parameters of a query (`Query`) and so do not name the
database; `pc`, `call` and `image` are a call's step, arguments and result.
Each SQL statement is a step, the purge of the cache that follows it another.
`SaveIt` allows for both ways of writing columns (all that were set, or those
that changed).  `Expire` is the time to live and the capacity in
`activejdbc-ehcache.xml`.  The library is external: what the steps say of it is
what its `@Cached` and its statements do for these managers.  History: `late`
and `schema` of a result, `overlap` of a call.

A row is its key, `active` and a `config` that stands for the columns that
creating and updating both write; `external_url`, which `GatewayBackend.create`
leaves out (lines 47-59) and the first update adds, is not among them.

### How `SelectorStore` follows the code

`table` has places for rows that may be equal.  Calls are the API's create,
update and delete and the editor's save; `ReadGroup` and `FindOld` are the two
reads before a write (`updateEntity`, `updateSelector`), `Insert`, `Overwrite`
and `Delete` the statements.  `table` is the selectors of one database; the reads
go through the query cache, which all databases share and which may be filled
late, so they may be answered with rows the table does not have, or with none.  `Overwrite` is `Selectors.update`: the class names
`resource_group_id` as its key, so the statement is `UPDATE ... WHERE
resource_group_id = <the new one>`.  History: `sure` (what the call was
answered was so, and no other call wrote since it began), `crowded` (groups with
several selectors by something else than saves of the editor that were sure).

### How `RoutingRules` and `EntityEditor` follow the code

`FindRoutingGroup` is `byRoutingRulesEngine`: the rules are read and filtered
(`Readable`: a null `active` throws), created (`Creatable`: an object that is
not a rule throws), and fired in the order of their priorities, each putting its
group under one key (`Fire`, the key's value after each place of the order);
any exception makes the header decide.  `Priority` gives each rule its place:
only the order of the priorities matters, and the engine orders equal ones by
their names.  The
condition of a rule is the set of rules it belongs to that match a request.

`EntityEditor` is the page: `type` and `override` are the two inputs, `list` and
`options` are `entityData` and the entity selector, `editor` what is edited,
`gets` and `posts` the requests under way.  `Render` is `renderEntitySelector`
with the request it sends, `Arrive` and `Fail` its `done` and its failure,
`Pick` is `renderEntityEditor`, `Submit` is `updateObject`, `Save` is
`updateEntity` on the server; `AjaxEnds` is what jQuery makes of an empty body
where JSON is expected, which is why a save is never followed by a new list.
`Serve` may answer with the list of any database (`from`): the lists come through
the query cache, whose keys do not name the database.  That its list may also be
an old one of the right database changes nothing here: the page's own list is as
old as the page.
`AddRule` and `DeleteRule` are `RoutingGroupRuleResource`.  History: `trouble`
(what befell the page since the type was selected) and `impure` (how something
that is not a proper rule got among the rules).

## Runs

| Run | Question | Instance |
|---|---|---|
| `group_weights` | does every draw find a cluster, does a shorter queue get at least the share of a longer one, which lengths starve a cluster | 4 clusters, weights 1..100, 0..10 queued, 0..2 running |
| `table_race` | do the maps agree when reads, observers and updates fail half way; what may befall a request, by what overtook it | 2 backends, 2 requests, 1 change |
| `table_groups` | agreement with two groups; refinement of `RoutingContract`; who puts clusters into the table, and who may remove them | 2 backends, groups adhoc and etl, 1 request, 1 change, late lists |
| `table_live` | does every request end, do tables come back to active backends | 2 backends, 1 request, 1 change, late lists, fairness |
| `affinity` | is a saved query led to its backend, do cache and history agree, does a guess ever replace knowledge, does every lookup end | 2 backends, 1 query, 2 lookups, 1 change, 1 restart, fairness |
| `query_path` | does what is about a known query reach its backend, do statements keep to their group | 2 backends in 2 groups, 2 queries, 3 requests |
| `monitor` | what may be in the table after a beat; refinement of `MonitorContract`; does `stop` end the loop | 2 backends, 2 groups, a pool of 1, 1 change, late lists, no recipients, fairness |
| `entity_store` | is what callers are told true, when is the cache stale, and for how long | 2 threads, 2 databases, 1 row, 3 calls, fairness |
| `selectors` | are acknowledged writes there, what does an update destroy, how do groups get several selectors | 2 threads, 2 groups, 2 rules, 3 places |
| `editor` | do saves go where the entity came from, when do rules stop deciding, does the list settle | 4 types of 2 entities, 2 databases, 2 lists, 3 edits, saves or changes, fairness |
| `schemas_doc` | has every database its own tables (the gateway's README)? | 1 thread, 2 databases, 2 calls |
| `ui_link_doc` | do the UI's links lead to the query (a test, the history page)? | as `query_path` with 2 requests |

Bounds.  `MaxLen` bounds reported lengths.  It is 0 in the runs of the table:
the lock protocol depends on the lengths only through the table they give, and
with equal lengths that still has one key or two; what becomes of any lengths is
proved (`CrashAlwaysByRace`).  The arithmetic is the subject of
`group_weights`, where four clusters are enough for the second longest, the
shortest and the longest queue to be different clusters with one to spare.
`MaxChanges` bounds the
administrators: the initial store is arbitrary, so one change is one change
*during* a behaviour.  `MAX_WT = 2` in the table
runs keeps `MIN_WT < MAX_WT` and two draws per cluster.  `IntRange` stands
for 2^31: what matters is whether the number of backends divides it, as in the
code two divide it (8) or, in `table_groups`, as for three they do not (1).
`LateFills` is false in `table_race`, whose two requests already read at
different times; its properties are proved for either value.

In `affinity` one query is enough because nothing the code does for one query
touches the entries of another (evictions happen at any time); two lookups are
a load and one that joins it, overtakes it or comes after it; the initial
backends are arbitrary, and one change is one during a behaviour.

In `query_path` three requests are a submission, a second one and a request that
names one of their queries; one backend in each group makes straying visible.
In `monitor` one thread for two clusters makes a task wait for another; the
loop is unbounded.  In `entity_store` three calls (`MaxCalls`) by two threads
are two that race and one that meets what they left in the cache; with an
arbitrary table one row shows all of it, because statements and cache entries
of other keys touch a key only through the list, which is there.  In
`selectors` the calls are unbounded and three places hold two rows of one group
and one of another.  In `editor` two lists (`MaxGets`) are one that is late for
the other, and three changes are an edit, a save and a change past the page.

Symmetry (backends, requests, clusters; in `selectors` threads, places, groups
and rules; in `query_path` requests and queries) is used in safety runs only;
the refinement run of the table uses it for backends and requests, of which
neither specification names any.  In `query_path` backends and groups are told
apart by `Members` and are not permuted.

`CHECK_DEADLOCK FALSE` stands in the runs whose behaviours end: requests and
lookups that are handled once, bounded changes and calls, a loop that was
stopped.

Fairness (`FairSpec`).  In `RoutingTable`, weak fairness for the thread in the
critical section (`Compute`), for the monitor's loop, for a request's reads and
for its lookup: these are running threads.  Strong fairness for a request's entry into the
critical section: monitors of the JVM are not fair, but a thread that waits is
overtaken only by finitely many requests (each is handled once) and by the
monitor, which sleeps for minutes between two turns.  Weak fairness for
`ForgetLists`: a result stays in the query cache for a minute.  In `QueryAffinity`, weak
fairness for each response and each lookup: each is
a thread (or Jetty callback) of its own and takes no lock of the gateway's; a
probe ends in an answer or a timeout.  In `ClusterMonitor`, weak fairness for
the loop's thread and for the pool: a cluster answers or its connection times
out.  (The timeout is per read; a cluster that goes on trickling its answer
would hold the loop, and the model does not cover that.)  In `EntityStore`, weak
fairness for each call under way and for the end of each cached result's time to
live.  In `EntityEditor`, weak fairness for the answers to lists that were asked
for.  No fairness for administrators, clients, evictions, cleanups, restarts,
saves, or `stop`.

## What the runs show

*Routing table.*

* The three maps agree whenever the lock is free, with one exception: an
  update aborted by a null user leaves tables without lengths
  (`TablesAgree`, `ReportAborts`).
* A `NullPointerException` in `getEligibleBackEnd` needs another thread's
  recomputation between a request's own update and its lookup
  (`CrashOnlyByRace`).
* A null target needs such a race or a table none of whose clusters is active
  (`NullOnlyWhenRacedOrDisjoint`).
* The random fallback is used for groups no heartbeat reported, or by a
  request that was overtaken; never past a table that is there.
* In spite of all that a client is never sent to a backend that its request did
  not read as active in the group (`ImplementsContract`).  What it read was so at
  a moment after it arrived, or is a list from before a change, which the query
  cache may answer for a minute after it was put there: for so long requests may
  be sent to a backend that was deactivated, or be refused in spite of one that
  was activated.
* Only a beat that keeps the monitor's contract puts clusters into the map of
  lengths; a request that found some inactive removes some of its group, never
  all of them, whatever its list says by then (`OnlyBeatsReport`).
* Exactly when one cluster is idle and the second longest queue equals the
  average, the longest queue's weight is 0 and its put replaces the second
  longest's (`StarvesExactlyAtAverage`).

*Affinity and request path.*

* A client that was told its query's id is led to the backend that runs it as
  long as the query is in the history, through loads that race with the response,
  evictions, failures and restarts (`LedHome`); the cache does not contradict the
  history, because a guess is stored only where no value is
  (`CacheAgreesWithHistory`, `KnowledgeStays`).  The exceptions: an entry that
  leaves the cache between its put and its insert, or while it is loaded (then a
  guess computed before the insert may follow it), and an entry that left at any
  time, while the query cache has an empty result from before the insert that was
  put there after the insert's purge (then the loader does not see the row, and
  guesses).  The guess stays in the cache (`lapsed`).  Queries without a row, for
  a response that did not parse, a failed insert or a restart before it, are led
  to whatever the probes or the guess give.
* A query is mapped to its backend when its client knows it, unless the response
  did not parse and was passed on without (`ToldIsMapped`); a mapping that was
  guessed for it before its response came is replaced.
* Every form of request whose id the handler can read reaches the backend that
  runs such a query (`SeenFormsGoHome`).  Four forms it cannot read: a kill by
  position, a kill with its argument's name in capital letters, one whose message
  quotes one word and mentions query_id (the word is taken for the id), and a link
  with the id in the query string, which the gateway's own history page makes
  (`ui_link_doc`).
* Statements keep to their routing group or fall back to adhoc, unless their
  text quotes a kill (`StatementsKeepGroup`).

*Monitor.*

* Only clusters that answered in full in this very beat are put into the table
  (`ReportsThisBeat`), each in the group it had in the list the beat began with
  (of then, or a late one of the query cache); a beat makes such a report, clears the table (a null user) or leaves it
  (`KeepsContract`, the monitor `RoutingTable` relies on).
* A stopped loop ends, wherever `stop` found it (`StopEndsLoop`).

*Stores, editor, rules.*

* Callers are told the truth unless another call wrote the row meanwhile or the
  cache misled them (`ToldTheTruth`); the cache misleads when a result was put
  into it after the purge that should have removed it (`StaleOnlyByRace`), which
  ends by itself (`StaleResultsGo`), or when the result is another database's,
  which needs no race at all (`schemas_doc`).
* Acknowledged selectors are there (`AcknowledgedIsStored`), unless another call
  wrote meanwhile or the query cache answered the call what the table does not
  hold (an update of a row that is gone writes nothing); and except for an
  update that moves one to another group: it writes nothing when that group has
  none, and otherwise makes all selectors of that group equal to the new one
  (`LostOnlyToGroup`).  The editor gives a group a second selector only after
  such an answer or a race (`EditorKeepsOnePerGroup`); the answer needs no race
  when it is another database's.  It cannot edit one selector of several.
* A save goes back to its table and database, unless a list arrived after
  another type was selected, the override was changed, or the query cache
  answered with another database's list (`SavedAsLoaded`).
* Rules decide about every request until something that is not a proper rule is
  among them: saved by the editor after a late list, or added without "active".
  Then the header decides about every request (`RulesDecide`).

Where the code and what is said about it differ, without a run of its own (each
is one of the exceptions the passing properties name): the longest queue "should
be given least weightage" (`PrestoQueueLengthRoutingTable.java:74`) and at
lengths 0, 1, 2 takes all of the second longest's; routing "falls back to an
adhoc backend, if no scheduled backend is found" (`:350`) and answers null when
every known cluster left its group; a lookup may crash while the table is
computed, where `TestPrestoQueueLengthRoutingTable.java:392` expects an answer
from each of its threads; "it checks with all backends" (`RoutingManager.java:98`)
does not wait for their answers; "any submitted query states can still be
retrieved based on the Query ID" (`src/README.md:292`) fails for a response that
came in several chunks, a failed insert or a row the cleanup removed;
`/presto/selector/read/{resourceGroupId}` (`src/README.md:216`) lists all
selectors, because `PrestoResource.java:127` reads the id as a query parameter;
adding a backend leaves out its external URL (`GatewayBackend.java:47`).

## Proofs

`WeightsProofs` is about the tables.  It proves, from `WeightBounds` and
`GroupConstants`, all four properties of the run `group_weights` for groups of
any size and any lengths: `GroupTypeCorrect`, `EveryDrawAlwaysRoutes`,
`ShorterQueueAlwaysLargerShare` and `StarvesAlwaysAtAverage`.  The third has
the hypothesis `MIN_WT = 1`, which is the code's constant, and needs it: with a
greater one the longest queue's least weight could exceed a shorter queue's
share.  The invariant (`GroupInv`) is that the table, when there is one, is that
of the lengths in some sorted order; the work is in the lemmas.

* *Recursion.*  The library's induction takes an operator and cannot be used, so
  `SetInduction` states it for a set, from the well-foundedness of `<`; with it
  `SumsExist` (the recursive function has a solution, so `CHOOSE` gives one),
  `SumsSolved` and `SumsGrow`.
* *What a table names.*  `TableFits`: the sum of a group's weights is a key of
  its table, and the table names clusters of the group.  For that the running
  sums may be anything: the entry under the last sum exists by construction, and
  `LargestNatural` gives the last of the indices that share it.  `EntryAbove`
  finds an entry for every draw below a key.
* *The weights.*  A cluster with less than the longest queue has a positive
  share (`SharePositive`), no larger than that of a shorter queue
  (`ShareAntitone`).  `MaxWeight` says when the longest queue's weight is 0, and
  that with `MIN_WT = 1` it is at most every other; `CeilBounds` bounds the
  rounded products in it.  The only thing these use of floats is that a product
  may come out one too high, so they hold however `FloatRoundsUp` answers.
  `WeightsAre` puts this together for a sorted group, `TotalPositive` and
  `SumBounded` for its sum.
* *Who gets which draws.*  The entry under a running sum is the last that was
  put there (`LastPutStays`), so a cluster loses its entry only to a successor
  of weight 0, which can be the last one only (`WhoStarves`); if none does, a
  cluster is drawn as often as it weighs (`SharesAreWeights`), and longer queues
  weigh no more (`WeightsDescend`).
* *The average.*  The code's running sum over sorted lengths counts the group's
  queued queries (`SumCountsQueries`), whatever the order.

These are statements about the model's arithmetic, which is the code's as long
as its `int` products do not overflow (lengths below 2^31 / 100) and, for the
exact weights, up to lengths of 287 (`CeilOfFloat`).

`RoutingTableProofs` proves, from `RoutingConstants` and `WeightBounds` alone:

* `TypeCorrect`: `Spec => []TypeOK`, in four lemmas, one for each kind of actor.
* `TablesAlwaysAgree`: `Spec => []TablesAgree`.  `TablesAgree` says something of
  the states where the lock is free only, so it is not inductive.  The
  strengthening has three parts: `Locking` (the lock is held exactly when a
  computation is under way, and its holder is where the computation says),
  `Computing` (what the maps hold at each stage: after `ClearTables` no table,
  after `ClearSums` no sum, while filling a fitting table and sum for every
  group not in `todo`, except the one being filled, which has its table and
  whose sum is remembered) and `TablesAgree` itself.  The step for `Release`
  gives the free lock its agreement, from `todo = {}`; the step for `PutTable`
  uses `TableFits`.
* `CrashAlwaysByRace`, `NullAlwaysExplained` and `FallbackAlwaysExplained`: the
  three invariants about what befalls a request.  `Calm` says of a request that
  nobody overtook what its own update left for it: while it computes, lengths of
  clusters it read (`Pruned`); while it looks up, the table made of them, with
  its sum among its keys (`Served`), in its view (`Sees`), and a draw below the
  sum.  `Numbers` adds that sums are positive and keys natural, by
  `TotalPositive`.  Every step of a computation either leaves such a request
  alone or overtakes it.
* `RoutingImplements`: `Spec => ImplementsContract`, the refinement of
  `RoutingContract`, step by step, old lists mapped to old lists (`Stale`);
  `Pending` adds that a request has no answer before it is routed and is in the
  adhoc group before its second read.
* `AlwaysReportedByBeats`: `Spec => OnlyBeatsReport`.  Each step of the monitor
  is a beginning or an end of a beat of `MonitorContract`, an administrator's
  change is one there and so is the end of its lists' minute, `PruneTable` is
  `Forget` or leaves the map alone, and all others touch neither the map nor the beat (for `Release` by `Locking`: the
  monitor that releases the lock is not observing).  With `ImplementsContract`
  of `ClusterMonitorProofs` the two modules that have the monitor are tied to
  one contract by proof.

`QueryAffinityProofs` proves, from `AffinityConstants` alone, so for any number
of backends, queries and concurrent lookups:

* `TypeCorrect`: `Spec => []TypeOK`; the part added is `Placed` (a lookup that
  came has a query, one that waits has a load).
* `CacheAlwaysAgrees`, `AlwaysLedHome` and `KnowledgeAlwaysStays`: the two
  invariants and the action property of the run.  The inductive invariant `Led`
  adds to them where knowledge comes from: `Submitting` (a saved row names the
  query's home, and before the insert the cache holds it or it lapsed), `Holding`
  (a result of the history, kept or on its way to the query cache, is the home or
  empty), `Loads` (a load that got past the history of a query that is saved by
  now was overtaken by the put, so its guess cannot be stored, or found a result
  that hid the row, and the entry lapsed) and `Owing` (a lookup that is owed the
  backend of a saved query is on its way to it, and so is the load it waits for,
  and meanwhile no result hides the row or is about to: `Clear`).  `LedHome` needs
  `Loads` at the moment a lookup joins a load: with the id told, the entry gone
  and not lapsed, the load cannot be past the history, nor hold an empty result.

`QueryPathProofs` proves, from `PathConstants`, `TypeCorrect`, `AlwaysMapped`,
`SeenFormsAlwaysGoHome` and `StatementsAlwaysKeepGroup`: all of the run's
invariants.  Lemmas say of each form which id `ExtractQueryId` finds; the
invariant that carries them is `Sound` (a request's statement is where it was
sent, one whose response was saved is mapped there, an owed request was sent to
its query's home, and what a selector gave is one of `Provided`) with `Mapped` (a
query that was told by a response that parsed is mapped to its home, which
exists); `Kept` says that no step takes away or replaces such a mapping.

`ClusterMonitorProofs` proves, from `MonitorConstants`, `TypeCorrect`,
`AlwaysReportsThisBeat` and `ImplementsContract`.  That only this beat's answers
are reported is not inductive: the invariant `Complete` adds that a task whose
statistics are full belongs to a cluster that answered since the beat began, and
`Gathered` that at the observers' turn every cluster of the beat was asked, and
that between beats there is none.
`ImplementsContract` maps each step to a step of `MonitorContract` or to a
stutter; it is the safety part of `KeepsContract`, whose fairness is only
model-checked.

`EntityStoreProofs` proves, from `StoreConstants`, `TypeCorrect`,
`CacheStaleOnlyByRace` and `AlwaysToldTheTruth`.  The inductive invariant
`Coherent` follows a result on its way: `Caching` is `StaleOnlyByRace`;
`Filling` says the same of a result that was selected and not yet put into the
cache; `Warned` and `Holding` that a call works with what the table holds unless
it was overlapped or misled; `Told` that what was done stays in effect until
somebody overlaps it.

`SelectorStoreProofs` proves, from `SelectorConstants`, `TypeCorrect`,
`AlwaysStored`, `AlwaysOnePerGroup` and `AlwaysLostOnlyToGroup`, so for any
number of threads, groups and places.  `Sound` says of each call what it was
prepared with, that what a call that is sure read is still so (`Undisturbed`: a group it
found empty is empty, a selector it found is there), and that what it wrote is
stored.

`EntityEditorProofs` proves, from `EditorConstants` and `RuleConstants`,
`TypeCorrect`, `AlwaysSavedAsLoaded` and `RulesAlwaysDecide`.  For the
first two the invariant follows a list on its way: the last request is the one
of the selected type (`Requested`), so without a late answer the list is too,
and from its database unless the override was changed or the answer was another
database's (`Listed`, `Loaded`), the selector offers names of the list only (`Offered`), and the
editor shows one of them (`Edited`).  `Pure` says that as long as nothing
foreign was saved or added, what passes for a rule is one and says "active",
wherever it is: stored, on its way to the page, listed, edited or being saved;
then `findRoutingGroup` does not fall back on the header (`PureRouting`).  Which
group the rules give is a recursive function: `FiringExists` and `FireInOrder`
show that it has the values of rules fired in order, `GreatestSoFar`, by
induction on the places of the order, that after each place the key holds the
matching rule of the greatest priority so far.  That is for any rules and any
set of matching ones, so also for those that were edited.

With this every invariant and every action property that a run checks is a
theorem.  Only model-checked: the liveness properties `EveryRequestFinishes`,
`TablesBecomeActive`, `EveryLookupEnds`, `StaleResultsGo`, `ListSettles`,
`StopEndsLoop` and the fairness of `KeepsContract` (liveness under fairness is
out of the prover's reach, as `ENABLED` is); and the two runs that show a
disagreement with what a document says.

## Plan

Done, in this order: the routing table with its weights and its contract; the
affinity; the stores with their cache; the editor and the rules; the monitor and
its contract; the request path; the selectors; and the proofs.

Left, if the project goes on: foreign keys between resource groups and
selectors (a deletion refused by the database); one module that composes
`QueryPath` with `QueryAffinity` and `RoutingTable` in place of their promises.

## Not modelled, and why

* Vendored code, which is most of the repository's JavaScript
  (`jsonedit/jsoneditor.js`, 36354 lines, and `jquery-3.5.0.js`, 10872 lines):
  third-party libraries, external to the gateway.  Of jQuery, the one rule that
  the editor's page depends on is modelled (`AjaxEnds`); what the JSON editor
  does is that the administrator changes an entity (`Edit`).
* `hbar-chart.js` draws bars from a table and `view-rules.js` fetches the rules
  once and prints them; the templates render what they are given.  None of them
  keeps a state or sends anything back.
* Mail, TLS, connectors, the copying of headers, opening of connections: I/O.
  What their failures do is modelled where the code depends on it.
* The configuration classes (data holders) and dependency injection (runs once,
  on one thread).
* The user-based distribution of the routing table, which no caller reaches.
* The query cache in front of the routing rules: for up to a minute a request may
  be routed by rules that were changed.  `RulesDecide` is about the rules a
  request reads.  (The other readers of cached tables have it: see `RoutingTable`,
  `ClusterMonitor`, `QueryAffinity`, `EntityStore`, `SelectorStore`,
  `EntityEditor`.)
* Backends that are listed for the views and by the resources: what they answer is
  what `EntityStore` says of a list.
* Exact-match source selectors (created and listed only) and the views of the
  query history.
* The period of the cleanup: arithmetic on one configuration value.
