------------------------------ MODULE EntityStore ------------------------------
(***************************************************************************)
(* The managers of the gateway's tables -- gateway_backend, routing_rule,  *)
(* resource_groups, resource_groups_global_properties -- all work alike:   *)
(* a call opens a connection to its schema, finds a row by its key, and    *)
(* creates or updates it; or it lists, creates or deletes.  The DAOs are   *)
(* @Cached: the result of a query is kept under the text of the query and  *)
(* its parameters, which do not name the schema, and every statement that  *)
(* writes is followed by a purge of the table's results.  Calls run on the *)
(* threads of the server; each SQL statement commits by itself.            *)
(***************************************************************************)
EXTENDS Naturals

CONSTANTS Threads,      \* threads that call a manager
          Schemas,      \* databases a call may name with useSchema
          Names,        \* keys of rows
          Configs,      \* what a row holds besides its key and "active": the
                        \* columns that creating and updating both write
          NoRow,        \* no row has the key
          All,          \* the query of a list
          NotCached,    \* the cache has no result for a query
          MaxCalls      \* bound on the number of calls

ASSUME StoreConstants ==
  /\ All \notin Names
  /\ NoRow \notin [config : Configs, active : BOOLEAN]
  /\ NotCached \notin [rows : [Names -> [config : Configs, active : BOOLEAN] \cup {NoRow}],
                       schema : Schemas, late : BOOLEAN]
  /\ Names # {} /\ Configs # {}
  /\ MaxCalls \in Nat

VARIABLES
  store,    \* the table in each schema: key -> row
  cache,    \* the query cache: query -> result
  pc,       \* where each thread is in its call
  call,     \* what it was asked to do
  image,    \* the result it works with
  overlap,  \* did another call write a row it is about, meanwhile? (history)
  calls     \* how many calls were begun (bounds the model)

vars == <<store, cache, pc, call, image, overlap, calls>>

Rows == [config : Configs, active : BOOLEAN]
Columns == {"config", "active"}
Tables == [Names -> Rows \cup {NoRow}]

(* A result remembers the schema it was selected in and whether a purge    *)
(* came between its selection and its way into the cache (both history).   *)
(* Only the rows a query is about count; the others are those of the same  *)
(* selection.                                                              *)
Results == [rows : Tables, schema : Schemas, late : BOOLEAN]

Current(s) == [rows |-> store[s], schema |-> s, late |-> FALSE]

Queries == Names \cup {All}
Scope(q) == IF q = All THEN Names ELSE {q}

Calls == [op : {"list", "update", "switch", "create", "delete"},
          schema : Schemas, name : Names, row : Rows]

(* What callers ask for: a list has no argument, a delete no row. *)
AnyName == CHOOSE n \in Names : TRUE
AnyRow == CHOOSE r \in Rows : TRUE
Requests == {c \in Calls :
  /\ c.op = "list" => c.name = AnyName
  /\ c.op \in {"list", "delete"} => c.row = AnyRow}

Query(t) == IF call[t].op = "list" THEN All ELSE call[t].name

Resting == {"idle", "ok", "failed"}

Init ==
  /\ store \in [Schemas -> Tables]
  /\ cache = [q \in Queries |-> NotCached]
  /\ pc = [t \in Threads |-> "idle"]
  /\ \E s \in Schemas :
       call = [t \in Threads |->
         [op |-> "list", schema |-> s, name |-> AnyName, row |-> AnyRow]]
  /\ image = [t \in Threads |-> Current(call[t].schema)]
  /\ overlap = [t \in Threads |-> FALSE]
  /\ calls = 0

-----------------------------------------------------------------------------
(* Does call c look at the row with key n of schema s? *)
About(c, s, n) == c.schema = s /\ (c.op = "list" \/ c.name = n)

(* A call comes in.  A list or a find starts with the cache; a create or a *)
(* delete is one statement and does not ask it.                            *)
Begin(t, c) ==
  /\ pc[t] \in Resting
  /\ calls < MaxCalls
  /\ calls' = calls + 1
  /\ call' = [call EXCEPT ![t] = c]
  /\ image' = [image EXCEPT ![t] = Current(c.schema)]
  /\ overlap' = [overlap EXCEPT ![t] =
       \E u \in Threads \ {t} :
         pc[u] = "purge" /\ About(c, call[u].schema, call[u].name)]
  /\ pc' = [pc EXCEPT ![t] =
       IF c.op \in {"create", "delete"} THEN "write" ELSE "look"]
  /\ UNCHANGED <<store, cache>>

(* A find's or a list's next step, once it has its rows. *)
AfterRead(t) == IF call[t].op = "list" THEN "ok" ELSE "write"

Hit(t) ==
  /\ pc[t] = "look"
  /\ cache[Query(t)] # NotCached
  /\ image' = [image EXCEPT ![t] = cache[Query(t)]]
  /\ pc' = [pc EXCEPT ![t] = AfterRead(t)]
  /\ UNCHANGED <<store, cache, call, overlap, calls>>

Select(t) ==
  /\ pc[t] = "look"
  /\ cache[Query(t)] = NotCached
  /\ image' = [image EXCEPT ![t] = Current(call[t].schema)]
  /\ pc' = [pc EXCEPT ![t] = "fill"]
  /\ UNCHANGED <<store, cache, call, overlap, calls>>

Fill(t) ==
  /\ pc[t] = "fill"
  /\ cache' = [cache EXCEPT ![Query(t)] = image[t]]
  /\ pc' = [pc EXCEPT ![t] = AfterRead(t)]
  /\ UNCHANGED <<store, call, image, overlap, calls>>

(* One statement of thread t sets the row of its call: every other call    *)
(* about that row is overlapped.  Its purge comes next.                    *)
Execute(t, row) ==
  LET s == call[t].schema
      n == call[t].name
  IN /\ store' = [store EXCEPT ![s][n] = row]
     /\ overlap' = [u \in Threads |->
          overlap[u] \/ (u # t /\ About(call[u], s, n))]
     /\ pc' = [pc EXCEPT ![t] = "purge"]
     /\ UNCHANGED <<cache, call, image, calls>>

Finish(t, outcome) ==
  /\ pc' = [pc EXCEPT ![t] = outcome]
  /\ UNCHANGED <<store, cache, call, image, overlap, calls>>

Row(t) == store[call[t].schema][call[t].name]
Found(t) == image[t].rows[call[t].name]

(* Mutant: an existing key does not make it fail. *)
InsertIgnore(t) ==
  IF Row(t) = NoRow THEN Execute(t, call[t].row) ELSE Finish(t, "ok")

(* INSERT; an existing key makes it fail. *)
Insert(t) ==
  IF Row(t) = NoRow THEN Execute(t, call[t].row) ELSE Finish(t, "failed")

(* A row after its columns were written from another one. *)
Overwritten(old, new, columns) ==
  [config |-> IF "config" \in columns THEN new.config ELSE old.config,
   active |-> IF "active" \in columns THEN new.active ELSE old.active]

(* Mutant: a statement that writes a row whether or not there is one. *)
UpdateOrInsertColumns(t, columns) ==
  Execute(t, [c \in columns |-> call[t].row[c]])

(* UPDATE of some columns where the key is that of the call: no row may    *)
(* have it any more, which is no error.                                    *)
UpdateColumns(t, columns) ==
  Execute(t, IF Row(t) = NoRow THEN NoRow
             ELSE Overwritten(Row(t), call[t].row, columns))

(* saveIt() of a found row.  The library writes the columns that were set, *)
(* or only those whose value that changed: the model allows both.  With    *)
(* none to write it does nothing.                                          *)
SaveIt(t, columns) ==
  \E written \in {columns, {c \in columns : Found(t)[c] # call[t].row[c]}} :
    IF written = {} THEN Finish(t, "ok") ELSE UpdateColumns(t, written)

Create(t) ==
  /\ pc[t] = "write" /\ call[t].op = "create"
  /\ Insert(t)

Delete(t) ==
  /\ pc[t] = "write" /\ call[t].op = "delete"
  /\ Execute(t, NoRow)

(* updateBackend and its likes: create what was not found. *)
Update(t) ==
  /\ pc[t] = "write" /\ call[t].op = "update"
  /\ IF Found(t) = NoRow THEN Insert(t) ELSE SaveIt(t, Columns)

(* activateBackend, deactivateBackend: null.set(...) when it is not found. *)
Switch(t) ==
  /\ pc[t] = "write" /\ call[t].op = "switch"
  /\ IF Found(t) = NoRow THEN Finish(t, "failed") ELSE SaveIt(t, {"active"})

Late(result) == [rows |-> result.rows, schema |-> result.schema, late |-> TRUE]

(* Mutant: the purge forgets the lists. *)
PurgeRowsOnly(t) ==
  /\ pc[t] = "purge"
  /\ cache' = [q \in Queries |-> IF q = All THEN cache[q] ELSE NotCached]
  /\ image' = [u \in Threads |->
       IF pc[u] = "fill" THEN Late(image[u]) ELSE image[u]]
  /\ pc' = [pc EXCEPT ![t] = "ok"]
  /\ UNCHANGED <<store, call, overlap, calls>>

(* Every result of the table goes, whatever its query. *)
Purge(t) ==
  /\ pc[t] = "purge"
  /\ cache' = [q \in Queries |-> NotCached]
  /\ image' = [u \in Threads |->
       IF pc[u] = "fill" THEN Late(image[u]) ELSE image[u]]
  /\ pc' = [pc EXCEPT ![t] = "ok"]
  /\ UNCHANGED <<store, call, overlap, calls>>

(* Mutant: a result's age is looked at only when somebody asks for one. *)
ExpireWhenAsked(q) ==
  /\ cache[q] # NotCached
  /\ \E t \in Threads : pc[t] = "look"
  /\ cache' = [cache EXCEPT ![q] = NotCached]
  /\ UNCHANGED <<store, pc, call, image, overlap, calls>>

(* A result is a minute old, or makes room for another one. *)
Expire(q) ==
  /\ cache[q] # NotCached
  /\ cache' = [cache EXCEPT ![q] = NotCached]
  /\ UNCHANGED <<store, pc, call, image, overlap, calls>>

Step(t) ==
  \/ Hit(t) \/ Select(t) \/ Fill(t)
  \/ Create(t) \/ Delete(t) \/ Update(t) \/ Switch(t) \/ Purge(t)

Next ==
  \/ \E t \in Threads : Step(t) \/ \E c \in Requests : Begin(t, c)
  \/ \E q \in Queries : Expire(q)

Spec == Init /\ [][Next]_vars

(* A call under way goes on, and the time to live of a result ends. *)
FairSpec ==
  /\ Spec
  /\ \A t \in Threads : WF_vars(Step(t))
  /\ \A q \in Queries : WF_vars(Expire(q))

-----------------------------------------------------------------------------
TypeOK ==
  /\ store \in [Schemas -> Tables]
  /\ cache \in [Queries -> Results \cup {NotCached}]
  /\ pc \in [Threads -> Resting \cup {"look", "fill", "write", "purge"}]
  /\ call \in [Threads -> Calls]
  /\ image \in [Threads -> Results]
  /\ overlap \in [Threads -> BOOLEAN]
  /\ calls \in Nat

(* A result answers a query if it agrees with the table in the rows the    *)
(* query is about.                                                         *)
Fresh(result, q) ==
  \A n \in Scope(q) : result.rows[n] = store[result.schema][n]

(* What the cache holds is what the schema it was selected in holds,       *)
(* unless a call that has written is about to purge it, or a purge came    *)
(* between its selection and its way into the cache (@Cached lets a read   *)
(* that began before a write put its result after the purge).              *)
StaleOnlyByRace ==
  \A q \in Queries :
    cache[q] # NotCached /\ ~cache[q].late /\ ~Fresh(cache[q], q) =>
      \E t \in Threads :
        /\ pc[t] = "purge"
        /\ call[t].schema = cache[q].schema /\ call[t].name \in Scope(q)

(* A call was misled if another one wrote meanwhile, or if the rows it got *)
(* from the cache were put there late or came from another schema.         *)
Misled(t) ==
  \/ overlap[t]
  \/ image[t].late
  \/ image[t].schema # call[t].schema

(* What an acknowledged call claims: a list is the table, an update, a     *)
(* switch, a create or a delete is in effect.                              *)
InEffect(t) ==
  /\ call[t].op = "list" => image[t].rows = store[call[t].schema]
  /\ call[t].op = "switch" => Row(t) # NoRow /\ Row(t).active = call[t].row.active
  /\ call[t].op = "delete" => Row(t) = NoRow
  /\ call[t].op \in {"create", "update"} => Row(t) = call[t].row

(* A create fails for a row in its way, a switch for want of a row. *)
Excused(t) ==
  \/ call[t].op = "create" /\ Row(t) # NoRow
  \/ call[t].op = "switch" /\ Row(t) = NoRow

(* What a caller is told is true as long as nothing misled the call: what  *)
(* was acknowledged is in effect, and what failed had a reason to.         *)
ToldTheTruth ==
  \A t \in Threads : ~Misled(t) =>
    /\ pc[t] = "ok" => InEffect(t)
    /\ pc[t] = "failed" => Excused(t)

(* A stale result does not last: when the calls end, sooner or later the   *)
(* cache holds only what the tables hold.                                  *)
StaleResultsGo ==
  <>[](\A q \in Queries : cache[q] # NotCached => Fresh(cache[q], q))

(* What the gateway's README says of useSchema: every database has its own *)
(* tables.  A list that no write overlapped is the table of the schema it  *)
(* named.                                                                  *)
SchemasApart ==
  \A t \in Threads :
    pc[t] = "ok" /\ call[t].op = "list" /\ ~overlap[t] /\ ~image[t].late =>
      image[t].rows = store[call[t].schema]
=============================================================================
