-------------------------- MODULE ClusterMonitorProofs --------------------------
(* Theorems about ClusterMonitor, for any backends, groups and pool. *)
EXTENDS ClusterMonitor, TLAPS

Typed ==
  /\ store \in [Backends -> Rows \cup {NoRow}]
  /\ changes \in 0..MaxChanges
  /\ \A list \in stale : /\ DOMAIN list \subseteq Backends
                         /\ \A b \in DOMAIN list : list[b] \in Groups
  /\ monitorActive \in BOOLEAN /\ poolOpen \in BOOLEAN
  /\ pc \in {"check", "fetch", "submit", "health", "table", "sleep", "ended"}
  /\ DOMAIN clusters \subseteq Backends
  /\ \A b \in DOMAIN clusters : clusters[b] \in Groups
  /\ task \in [Backends -> Tasks \cup {NoTask}]
  /\ answered \subseteq Backends

(* A cluster whose statistics are complete answered in this beat. *)
Complete ==
  \A b \in Backends : task[b] # NoTask /\ task[b].level = "full" => b \in answered

(* The observers' turn comes when all clusters of the beat were asked, and  *)
(* between beats there are none.                                            *)
Gathered ==
  /\ pc \in {"health", "table"} => \A b \in DOMAIN clusters : task[b] # NoTask
  /\ pc \in {"check", "fetch", "sleep", "ended"} => clusters = <<>>

TableTyped ==
  /\ DOMAIN table \subseteq Groups
  /\ \A g \in DOMAIN table : table[g] \in (SUBSET Backends) \ {{}}

Inductive == Typed /\ TableTyped /\ Complete /\ Gathered

(* The step that changes the table puts complete answers into it. *)
LEMMA ObserveQueuesStep ==
  ASSUME Inductive, ObserveQueues
  PROVE  /\ Inductive'
         /\ \A g \in DOMAIN table' : table'[g] \subseteq answered
<1>1. Reported \subseteq answered /\ Reported \subseteq Backends
  BY DEF Inductive, Typed, Complete, Gathered, ObserveQueues, Reported
<1>2. \A b \in Reported : Group(b) \in Groups
  BY DEF Inductive, Typed, Reported, Group
<1>3. \/ table' = <<>>
      \/ table' = [g \in GroupsReported |-> {b \in Reported : Group(b) = g}]
  BY DEF ObserveQueues
<1>4. TableTyped' /\ \A g \in DOMAIN table' : table'[g] \subseteq answered
  BY <1>1, <1>2, <1>3 DEF TableTyped, GroupsReported
<1>5. Typed' /\ Complete' /\ Gathered'
  BY DEF Inductive, ObserveQueues, Rest, Typed, Complete, Gathered, NoTasks
<1> QED
  BY <1>4, <1>5 DEF Inductive

(* A step of a task changes that task alone, and says that the cluster      *)
(* answered when its statistics are complete.                               *)
LEMMA TaskChange ==
  ASSUME Inductive, NEW b \in Backends, NEW t \in Tasks,
         task' = [task EXCEPT ![b] = t],
         answered' \in SUBSET Backends, answered \subseteq answered',
         t.level = "full" => b \in answered',
         UNCHANGED <<store, stale, changes, monitorActive, poolOpen, pc, clusters, table>>
  PROVE  Inductive'
<1>1. t # NoTask /\ task \in [Backends -> Tasks \cup {NoTask}]
  BY MonitorConstants DEF Tasks, Inductive, Typed
<1>2. task' \in [Backends -> Tasks \cup {NoTask}]
  BY <1>1
<1>3. Typed' /\ TableTyped'
  BY <1>2 DEF Inductive, Typed, TableTyped
<1>4. \A c \in Backends : task'[c] = IF c = b THEN t ELSE task[c]
  BY <1>1
<1>5. Complete'
  BY <1>4 DEF Inductive, Complete
<1>6. Gathered'
  BY <1>1, <1>4 DEF Inductive, Gathered, Typed
<1> QED
  BY <1>3, <1>5, <1>6 DEF Inductive

LEMMA ActiveTyped ==
  ASSUME Inductive
  PROVE  /\ DOMAIN ActiveMap \subseteq Backends
         /\ \A b \in DOMAIN ActiveMap : ActiveMap[b] \in Groups
BY DEF Inductive, Typed, ActiveMap, Rows

LEMMA LoopStep ==
  ASSUME Inductive, Loop, ~ObserveQueues
  PROVE  Inductive' /\ table' = table
<1>1. CASE Check \/ Fetch \/ Wake \/ Collect
  <2> USE DEF Inductive, Typed, TableTyped, Complete, Gathered
  <2>1. CASE Check
    BY <2>1 DEF Check
  <2>2. CASE Fetch
    BY <2>2, ActiveTyped DEF Fetch
  <2>3. CASE Wake
    BY <2>3 DEF Wake
  <2>4. CASE Collect
    BY <2>4 DEF Collect, Unasked
  <2> QED
    BY <1>1, <2>1, <2>2, <2>3, <2>4
<1>2. CASE FetchFails \/ SubmitRejected
  BY <1>2 DEF FetchFails, SubmitRejected, Rest, NoTasks,
     Inductive, Typed, TableTyped, Complete, Gathered
<1>3. CASE ObserveHealth
  BY <1>3 DEF ObserveHealth, Rest, NoTasks,
     Inductive, Typed, TableTyped, Complete, Gathered
<1>4. ASSUME NEW b \in Backends, Submit(b) PROVE Inductive' /\ table' = table
  <2>1. NewTask \in Tasks /\ NewTask.level # "full"
    BY DEF NewTask, Tasks
  <2>2. answered \in SUBSET Backends
    BY DEF Inductive, Typed
  <2> QED
    BY <1>4, <2>1, <2>2, TaskChange DEF Submit
<1> QED
  BY <1>1, <1>2, <1>3, <1>4 DEF Loop

LEMMA TaskStep ==
  ASSUME Inductive, NEW b \in Backends, RunTask(b)
  PROVE  Inductive' /\ table' = table
<1>1. answered \in SUBSET Backends
  BY DEF Inductive, Typed
<1>2. CASE StartTask(b)
  <2> DEFINE t == [stage |-> "stats", level |-> "down", alarm |-> FALSE, users |-> "named"]
  <2>1. t \in Tasks /\ t.level # "full"
    BY DEF Tasks
  <2>2. task' = [task EXCEPT ![b] = t]
    BY <1>2 DEF StartTask
  <2> HIDE DEF t
  <2> QED
    BY <1>1, <1>2, <2>1, <2>2, TaskChange DEF StartTask
<1>3. ASSUME NEW level \in {"down", "partial", "full"}, NEW alarm \in BOOLEAN,
             QueryStats(b, level, alarm)
      PROVE  Inductive' /\ table' = table
  <2> DEFINE t == [stage |-> IF level = "down" THEN "done" ELSE "users",
                   level |-> level, alarm |-> alarm, users |-> "named"]
  <2>1. t \in Tasks /\ t.level = level
    BY DEF Tasks
  <2>2. task' = [task EXCEPT ![b] = t]
    BY <1>3 DEF QueryStats
  <2>3. /\ answered' = IF level = "full" THEN answered \cup {b} ELSE answered
        /\ UNCHANGED <<store, stale, changes, monitorActive, poolOpen, pc, clusters, table>>
    BY <1>3 DEF QueryStats
  <2> HIDE DEF t
  <2> QED
    BY <1>1, <2>1, <2>2, <2>3, TaskChange
<1>4. ASSUME NEW users \in {"named", "anonymous"}, QueryUsers(b, users)
      PROVE  Inductive' /\ table' = table
  <2> DEFINE t == [stage |-> "done", level |-> task[b].level,
                   alarm |-> task[b].alarm, users |-> users]
  <2>1. task[b] \in Tasks /\ task[b] # NoTask
    BY <1>4 DEF QueryUsers, Asked, Inductive, Typed
  <2>2. t \in Tasks /\ t.level = task[b].level
    BY <2>1 DEF Tasks
  <2>3. task[b].level = "full" => b \in answered
    BY <2>1 DEF Inductive, Complete
  <2>4. task' = [task EXCEPT ![b] = t]
    BY <1>4 DEF QueryUsers
  <2> HIDE DEF t
  <2> QED
    BY <1>1, <1>4, <2>2, <2>3, <2>4, TaskChange DEF QueryUsers
<1> QED
  BY <1>2, <1>3, <1>4 DEF RunTask

LEMMA OtherStep ==
  ASSUME Inductive, Change \/ ForgetLists \/ LowerFlag \/ ShutPool
  PROVE  Inductive' /\ table' = table
<1> USE DEF Inductive, Typed, TableTyped, Complete, Gathered, loopVars
<1>1. CASE Change
  <2>1. changes' \in 0..MaxChanges
    BY <1>1, MonitorConstants DEF Change
  <2>2. store' \in [Backends -> Rows \cup {NoRow}]
    BY <1>1 DEF Change
  <2>3. \A list \in stale' : /\ DOMAIN list \subseteq Backends
                             /\ \A b \in DOMAIN list : list[b] \in Groups
    BY <1>1, ActiveTyped DEF Change
  <2> QED
    BY <1>1, <2>1, <2>2, <2>3 DEF Change
<1>2. CASE LowerFlag
  BY <1>2 DEF LowerFlag
<1>3. CASE ShutPool
  BY <1>3 DEF ShutPool
<1>4. CASE ForgetLists
  BY <1>4 DEF ForgetLists
<1> QED
  BY <1>1, <1>2, <1>3, <1>4

LEMMA InitHolds == ASSUME Init PROVE Inductive
BY MonitorConstants DEF Init, NoTasks, Inductive, Typed, TableTyped, Complete, Gathered

(* Every step keeps the invariant, and only the observer of queues changes  *)
(* the table.                                                               *)
LEMMA NextHolds ==
  ASSUME Inductive, [Next]_vars
  PROVE  /\ Inductive'
         /\ table' = table \/ (ObserveQueues /\ \A g \in DOMAIN table' : table'[g] \subseteq answered)
<1>1. CASE UNCHANGED vars
  BY <1>1 DEF vars, loopVars, Inductive, Typed, TableTyped, Complete, Gathered
<1>2. CASE ObserveQueues
  BY <1>2, ObserveQueuesStep
<1>3. CASE Loop /\ ~ObserveQueues
  BY <1>3, LoopStep
<1>4. ASSUME NEW b \in Backends, RunTask(b) PROVE Inductive' /\ table' = table
  BY <1>4, TaskStep
<1>5. CASE Change \/ ForgetLists \/ LowerFlag \/ ShutPool
  BY <1>5, OtherStep
<1> QED
  BY <1>1, <1>2, <1>3, <1>4, <1>5 DEF Next

LEMMA AlwaysInductive == Spec => []Inductive
<1>1. Init => Inductive
  BY InitHolds
<1>2. Inductive /\ [Next]_vars => Inductive'
  BY NextHolds
<1> QED
  BY <1>1, <1>2, PTL DEF Spec

(* The monitor's state stays well typed, whatever the clusters answer and   *)
(* whenever stop() comes.                                                   *)
THEOREM TypeCorrect == Spec => []TypeOK
<1>1. Inductive => TypeOK
  BY DEF Inductive, Typed, TableTyped, TypeOK
<1> QED
  BY <1>1, AlwaysInductive, PTL

(* A beat that changes the table reports only clusters that answered in     *)
(* full in that beat, for any number of clusters and threads of the pool.   *)
THEOREM AlwaysReportsThisBeat == Spec => ReportsThisBeat
<1>1. Inductive /\ [Next]_vars =>
        [table' # table => \A g \in DOMAIN table' : table'[g] \subseteq answered]_vars
  BY NextHolds
<1> QED
  BY <1>1, AlwaysInductive, PTL DEF Spec, ReportsThisBeat

-----------------------------------------------------------------------------
LEMMA ContractBegins ==
  ASSUME Init PROVE Contract!Init
BY DEF Init, Rows, Contract!Init, Contract!Rows

(* The observers' report is one the contract allows. *)
LEMMA ReportIsContractual ==
  ASSUME Inductive, ObserveQueues
  PROVE  Contract!End
<1>1. Reported \in SUBSET DOMAIN clusters
  BY DEF Reported
<1>2. [g \in GroupsReported |-> {b \in Reported : Group(b) = g}] = Contract!ReportOn(Reported)
  BY DEF GroupsReported, Group, Contract!ReportOn
<1>3. table' \in {table, <<>>} \cup
        {Contract!ReportOn(reported) : reported \in SUBSET DOMAIN clusters}
  BY <1>1, <1>2 DEF ObserveQueues
<1>4. pc = "table" /\ pc' = "sleep" /\ clusters' = <<>> /\ store' = store /\ stale' = stale
  BY DEF ObserveQueues, Rest
<1> QED
  BY <1>3, <1>4 DEF Contract!End

LEMMA LoopIsContractual ==
  ASSUME Inductive, Loop
  PROVE  [Contract!Next]_Contract!vars
<1> USE DEF Contract!vars, Contract!Next
<1>1. CASE Check
  <2>1. CASE monitorActive
    BY <1>1, <2>1 DEF Check
  <2>2. CASE ~monitorActive
    <3>1. Contract!Stop
      BY <1>1, <2>2 DEF Check, Contract!Stop
    <3> QED
      BY <3>1
  <2> QED
    BY <2>1, <2>2
<1>2. CASE Fetch
  <2>1. Contract!Begin
    BY <1>2 DEF Fetch, ActiveMap, Contract!Begin, Contract!ActiveMap
  <2> QED
    BY <2>1
<1>3. CASE FetchFails
  <2>1. clusters' = <<>> /\ UNCHANGED <<store, stale, table>> /\ pc = "fetch" /\ pc' = "sleep"
    BY <1>3 DEF FetchFails, Rest
  <2>2. clusters = <<>>
    BY <2>1 DEF Inductive, Gathered
  <2> QED
    BY <2>1, <2>2
<1>4. CASE SubmitRejected
  <2>1. Contract!End
    BY <1>4 DEF SubmitRejected, Rest, Contract!End
  <2> QED
    BY <2>1
<1>5. CASE ObserveHealth
  <2>1. CASE NotificationDue /\ NoRecipients
    <3>1. Contract!End
      BY <1>5, <2>1 DEF ObserveHealth, Rest, Contract!End
    <3> QED
      BY <3>1
  <2>2. CASE ~(NotificationDue /\ NoRecipients)
    BY <1>5, <2>2 DEF ObserveHealth
  <2> QED
    BY <2>1, <2>2
<1>6. CASE ObserveQueues
  BY <1>6, ReportIsContractual
<1>7. CASE Wake \/ Collect
  BY <1>7 DEF Wake, Collect
<1>8. ASSUME NEW b \in Backends, Submit(b)
      PROVE  UNCHANGED Contract!vars
  BY <1>8 DEF Submit
<1> QED
  BY <1>1, <1>2, <1>3, <1>4, <1>5, <1>6, <1>7, <1>8 DEF Loop

LEMMA NextIsContractual ==
  ASSUME Inductive, [Next]_vars
  PROVE  [Contract!Next]_Contract!vars
<1> USE DEF Contract!vars
<1>1. CASE UNCHANGED vars
  BY <1>1 DEF vars, loopVars
<1>2. CASE Change
  <2>1. Contract!Change
    BY <1>2 DEF Change, loopVars, Rows, ActiveMap,
       Contract!Change, Contract!Rows, Contract!ActiveMap
  <2> QED
    BY <2>1 DEF Contract!Next
<1>3. CASE Loop
  BY <1>3, LoopIsContractual
<1>4. CASE LowerFlag \/ ShutPool
  BY <1>4 DEF LowerFlag, ShutPool, loopVars
<1>5. ASSUME NEW b \in Backends, RunTask(b)
      PROVE  UNCHANGED <<store, stale, pc, clusters, table>>
  BY <1>5 DEF RunTask, StartTask, QueryStats, QueryUsers
<1>6. CASE ForgetLists
  <2>1. Contract!ForgetLists
    BY <1>6 DEF ForgetLists, loopVars, Contract!ForgetLists
  <2> QED
    BY <2>1 DEF Contract!Next
<1> QED
  BY <1>1, <1>2, <1>3, <1>4, <1>5, <1>6 DEF Next

(* The monitor implements the heartbeat's contract, its liveness aside: the *)
(* table is the report on some of the clusters in the list the beat began   *)
(* with, in the groups of that list, or empty, or the one before; the list  *)
(* is the database's, or one the query cache still has from before a change. *)
THEOREM ImplementsContract ==
  Spec => Contract!Init /\ [][Contract!Next]_Contract!vars
<1>1. Init => Contract!Init
  BY ContractBegins
<1>2. Inductive /\ [Next]_vars => [Contract!Next]_Contract!vars
  BY NextIsContractual
<1> QED
  BY <1>1, <1>2, AlwaysInductive, PTL DEF Spec
=============================================================================
