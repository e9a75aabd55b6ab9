----------------------------- MODULE ClusterMonitor -----------------------------
(***************************************************************************)
(* ActiveClusterMonitor: one thread that wakes again and again, asks every *)
(* active cluster for its statistics by tasks of a thread pool, waits for  *)
(* all of them, and hands the statistics to two observers, the health      *)
(* checker and the routing table's.  stop() comes at any moment, from      *)
(* another thread.                                                         *)
(***************************************************************************)
EXTENDS Naturals, FiniteSets

CONSTANTS Backends,         \* names of backends
          Groups,           \* routing groups
          NoRow,            \* the backend is not in the database
          NoTask,           \* the beat has not asked the cluster (yet)
          PoolSize,         \* threads that ask clusters
          NoRecipients,     \* is the notifier configured without recipients?
          MaxChanges        \* bound on administrators' changes

ASSUME MonitorConstants ==
  /\ IsFiniteSet(Backends)
  /\ NoRow \notin [group : Groups, active : BOOLEAN]
  /\ NoTask \notin [stage : {"queued", "stats", "users", "done"},
                    level : {"down", "partial", "full"}, alarm : BOOLEAN,
                    users : {"named", "anonymous"}]
  /\ PoolSize \in Nat \ {0} /\ NoRecipients \in BOOLEAN /\ MaxChanges \in Nat

VARIABLES
  store,          \* the gateway_backend table
  stale,          \* lists of active backends from before a change that may still
                  \* be answered (by the query cache, for a minute)
  changes,        \* how many changes the administrators made (bounds the model)
  monitorActive,  \* the flag of the loop
  poolOpen,       \* does the pool accept tasks?
  pc,             \* where the monitor is in its loop
  clusters,       \* activeClusters: the group of each
  task,           \* the task that asks each cluster, with its statistics
  table,          \* the clusters in the map given to updateRoutingTable
  answered        \* clusters that answered in full since the last fetch (history)

loopVars == <<pc, clusters, task, table, answered>>
vars == <<store, stale, changes, monitorActive, poolOpen, loopVars>>

Rows == [group : Groups, active : BOOLEAN]

(* The statistics of a cluster: it did not answer, its answer was not      *)
(* parsed to the end (so that the routing group was not set), or it was;   *)
(* whether they call for a notification (too many queued queries, or fewer *)
(* than one worker); and the list of its queries' users.                   *)
Tasks == [stage : {"queued", "stats", "users", "done"},
          level : {"down", "partial", "full"}, alarm : BOOLEAN,
          users : {"named", "anonymous"}]

NewTask == [stage |-> "queued", level |-> "down", alarm |-> FALSE, users |-> "named"]
NoTasks == [b \in Backends |-> NoTask]

Init ==
  /\ store \in [Backends -> Rows \cup {NoRow}]
  /\ stale = {} /\ changes = 0
  /\ monitorActive = TRUE /\ poolOpen = TRUE
  /\ pc = "check"
  /\ clusters = <<>> /\ task = NoTasks /\ table = <<>> /\ answered = {}

-----------------------------------------------------------------------------
(* The active backends, each with its group. *)
ActiveMap ==
  [b \in {b \in Backends : store[b] # NoRow /\ store[b].active} |-> store[b].group]

Change ==
  /\ changes < MaxChanges /\ changes' = changes + 1
  /\ stale' = stale \cup {ActiveMap}
  /\ \E b \in Backends, row \in Rows \cup {NoRow} : store' = [store EXCEPT ![b] = row]
  /\ UNCHANGED <<monitorActive, poolOpen, loopVars>>

(* The minute of the lists from before a change is over. *)
ForgetLists ==
  /\ stale # {}
  /\ stale' = {}
  /\ UNCHANGED <<store, changes, monitorActive, poolOpen, loopVars>>

(* Mutant: the loop goes on until it is interrupted, which nobody does. *)
CheckNothing ==
  /\ pc = "check"
  /\ pc' = "fetch"
  /\ UNCHANGED <<store, stale, changes, monitorActive, poolOpen, clusters, task, table, answered>>

(* while (monitorActive) *)
Check ==
  /\ pc = "check"
  /\ pc' = IF monitorActive THEN "fetch" ELSE "ended"
  /\ UNCHANGED <<store, stale, changes, monitorActive, poolOpen, clusters, task, table, answered>>

(* getAllActiveBackends() *)
Fetch ==
  /\ pc = "fetch"
  /\ pc' = "submit"
  /\ clusters' \in stale \cup {ActiveMap}
  /\ UNCHANGED <<store, stale, changes, monitorActive, poolOpen, task, table, answered>>

(* Mutant: the futures and statistics outlive the beat. *)
RestKeepingTasks ==
  /\ pc' = "sleep"
  /\ clusters' = <<>> /\ answered' = {}
  /\ UNCHANGED <<store, stale, changes, monitorActive, poolOpen, task>>

(* The end of a beat, and the catch of its exceptions: the lists go out of *)
(* scope.  (Tasks of a beat that was cut short may run on; nobody takes    *)
(* their results.)                                                         *)
Rest ==
  /\ pc' = "sleep"
  /\ clusters' = <<>> /\ task' = NoTasks /\ answered' = {}
  /\ UNCHANGED <<store, stale, changes, monitorActive, poolOpen>>

(* The read of the database throws. *)
FetchFails == pc = "fetch" /\ Rest /\ UNCHANGED table

Unasked == {b \in DOMAIN clusters : task[b] = NoTask}

Submit(b) ==
  /\ pc = "submit" /\ b \in Unasked /\ poolOpen
  /\ task' = [task EXCEPT ![b] = NewTask]
  /\ UNCHANGED <<store, stale, changes, monitorActive, poolOpen, pc, clusters, table, answered>>

(* RejectedExecutionException *)
SubmitRejected ==
  /\ pc = "submit" /\ Unasked # {} /\ ~poolOpen
  /\ Rest /\ UNCHANGED table

(* future.get() of all of them, in order: there is no timeout. *)
Collect ==
  /\ pc = "submit" /\ Unasked = {}
  /\ \A b \in DOMAIN clusters : task[b].stage = "done"
  /\ pc' = "health"
  /\ UNCHANGED <<store, stale, changes, monitorActive, poolOpen, clusters, task, table, answered>>

Asked == {b \in Backends : task[b] # NoTask}

(* getPrestoClusterStats, on a thread of the pool. *)
StartTask(b) ==
  /\ b \in Asked /\ task[b].stage = "queued"
  /\ Cardinality({c \in Asked : task[c].stage \in {"stats", "users"}}) < PoolSize
  /\ task' = [task EXCEPT ![b] = [stage |-> "stats", level |-> "down", alarm |-> FALSE, users |-> "named"]]
  /\ UNCHANGED <<store, stale, changes, monitorActive, poolOpen, pc, clusters, table, answered>>

(* The cluster does not answer, its answer is not parsed to the end, or    *)
(* is.  What was not parsed counts as 0, workers too.                      *)
QueryStats(b, level, alarm) ==
  /\ b \in Asked /\ task[b].stage = "stats"
  /\ level = "down" => ~alarm
  /\ task' = [task EXCEPT ![b] =
       [stage |-> IF level = "down" THEN "done" ELSE "users",
        level |-> level, alarm |-> alarm, users |-> "named"]]
  /\ answered' = IF level = "full" THEN answered \cup {b} ELSE answered
  /\ UNCHANGED <<store, stale, changes, monitorActive, poolOpen, pc, clusters, table>>

QueryUsers(b, users) ==
  /\ b \in Asked /\ task[b].stage = "users"
  /\ task' = [task EXCEPT ![b] =
       [stage |-> "done", level |-> task[b].level, alarm |-> task[b].alarm, users |-> users]]
  /\ UNCHANGED <<store, stale, changes, monitorActive, poolOpen, pc, clusters, table, answered>>

(* HealthChecker.observe: a notification is due for a cluster that is not  *)
(* healthy and for alarming statistics; without recipients sending it is   *)
(* an exception, and the observer that follows is not called.              *)
NotificationDue ==
  \E b \in DOMAIN clusters : task[b].level = "down" \/ task[b].alarm

ObserveHealth ==
  /\ pc = "health"
  /\ IF NotificationDue /\ NoRecipients
     THEN Rest /\ UNCHANGED table
     ELSE /\ pc' = "table"
          /\ UNCHANGED <<store, stale, changes, monitorActive, poolOpen, clusters, task, table, answered>>

(* The clusters in the maps of PrestoQueueLengthChecker.observe that       *)
(* updateRoutingTable takes over: healthy, with a routing group.           *)
Reported == {b \in DOMAIN clusters : task[b].level = "full"}

(* Mutant: the group is asked for when the statistics are there. *)
GroupNow(b) == IF store[b] = NoRow THEN clusters[b] ELSE store[b].group

(* The statistics carry the group the cluster has in the beat's list. *)
Group(b) == clusters[b]

(* Mutant: a group has a map once one of its clusters was asked. *)
GroupsAsked == {Group(b) : b \in DOMAIN clusters}

(* A group has a map once one of its clusters is in it. *)
GroupsReported == {Group(b) : b \in Reported}

(* PrestoQueueLengthChecker.observe and updateRoutingTable: a null user    *)
(* among a healthy cluster's queries aborts it after the maps were         *)
(* cleared.                                                                *)
ObserveQueues ==
  /\ pc = "table"
  /\ Rest
  /\ table' =
       IF \E b \in DOMAIN clusters : task[b].level # "down" /\ task[b].users = "anonymous"
       THEN <<>>
       ELSE [g \in GroupsReported |-> {b \in Reported : Group(b) = g}]

Wake ==
  /\ pc = "sleep"
  /\ pc' = "check"
  /\ UNCHANGED <<store, stale, changes, monitorActive, poolOpen, clusters, task, table, answered>>

(* stop(): the flag, then the pool; the thread of the loop is not          *)
(* interrupted, and tasks that were accepted run to their end.             *)
LowerFlag ==
  /\ monitorActive
  /\ monitorActive' = FALSE
  /\ UNCHANGED <<store, stale, changes, poolOpen, loopVars>>

ShutPool ==
  /\ ~monitorActive /\ poolOpen
  /\ poolOpen' = FALSE
  /\ UNCHANGED <<store, stale, changes, monitorActive, loopVars>>

RunTask(b) ==
  \/ StartTask(b)
  \/ \E level \in {"down", "partial", "full"}, alarm \in BOOLEAN : QueryStats(b, level, alarm)
  \/ \E users \in {"named", "anonymous"} : QueryUsers(b, users)

Loop ==
  \/ Check \/ Fetch \/ FetchFails \/ SubmitRejected \/ Collect
  \/ ObserveHealth \/ ObserveQueues \/ Wake
  \/ \E b \in Backends : Submit(b)

(* After the end nothing is left to do. *)
Next == Change \/ ForgetLists \/ Loop \/ LowerFlag \/ ShutPool \/ \E b \in Backends : RunTask(b)

Spec == Init /\ [][Next]_vars

(* The loop's thread runs on, and so do the pool's: a cluster answers, or  *)
(* its connection times out.                                               *)
FairSpec ==
  Spec /\ WF_vars(Loop) /\ WF_vars(\E b \in Backends : RunTask(b))

-----------------------------------------------------------------------------
TypeOK ==
  /\ store \in [Backends -> Rows \cup {NoRow}]
  /\ changes \in 0..MaxChanges
  /\ \A list \in stale : /\ DOMAIN list \subseteq Backends
                         /\ \A b \in DOMAIN list : list[b] \in Groups
  /\ monitorActive \in BOOLEAN /\ poolOpen \in BOOLEAN
  /\ pc \in {"check", "fetch", "submit", "health", "table", "sleep", "ended"}
  /\ DOMAIN clusters \subseteq Backends
  /\ \A b \in DOMAIN clusters : clusters[b] \in Groups
  /\ task \in [Backends -> Tasks \cup {NoTask}]
  /\ DOMAIN table \subseteq Groups
  /\ \A g \in DOMAIN table : table[g] \in (SUBSET Backends) \ {{}}
  /\ answered \subseteq Backends

(* When a beat ends that changed the table, every cluster in it answered   *)
(* in full in this very beat, however tasks, changes and stop interleave:  *)
(* no statistics are left over from an earlier one.                        *)
ReportsThisBeat ==
  [][table' # table => \A g \in DOMAIN table' : table'[g] \subseteq answered]_vars

(* The monitor implements the heartbeat RoutingTable relies on. *)
Contract == INSTANCE MonitorContract WITH
  beat <- CASE pc \in {"submit", "health", "table"} -> "beating"
            [] pc = "ended" -> "over"
            [] OTHER -> "resting",
  seen <- clusters

KeepsContract == Contract!Spec

(* Once stopped, the loop ends, wherever stop() found it. *)
StopEndsLoop == ~monitorActive ~> pc = "ended"
=============================================================================
