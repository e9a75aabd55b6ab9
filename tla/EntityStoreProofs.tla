--------------------------- MODULE EntityStoreProofs ---------------------------
(* Theorems about EntityStore, for any threads, schemas, rows and calls. *)
EXTENDS EntityStore, TLAPS

LEMMA CurrentTyped ==
  ASSUME TypeOK, NEW s \in Schemas
  PROVE  /\ Current(s) \in Results
         /\ Current(s).schema = s /\ ~Current(s).late /\ Current(s).rows = store[s]
BY DEF Current, Results, TypeOK

LEMMA LateTyped ==
  ASSUME NEW r \in Results
  PROVE  /\ Late(r) \in Results
         /\ Late(r).late
         /\ Late(r).schema = r.schema
         /\ Late(r).rows = r.rows
BY DEF Results, Late

(* What a result and a call are made of. *)
LEMMA Parts ==
  ASSUME TypeOK
  PROVE  /\ \A r \in Results : r.rows \in Tables /\ r.schema \in Schemas /\ r.late \in BOOLEAN
         /\ \A c \in Calls : /\ c.schema \in Schemas /\ c.name \in Names /\ c.row \in Rows
                             /\ c.op \in {"list", "update", "switch", "create", "delete"}
         /\ \A t \in Threads : /\ call[t] \in Calls /\ image[t] \in Results
                               /\ Query(t) \in Queries
                               /\ Row(t) \in Rows \cup {NoRow}
                               /\ Found(t) \in Rows \cup {NoRow}
         /\ NoRow \notin Rows /\ NotCached \notin Results
<1>1. \A r \in Results : r.rows \in Tables /\ r.schema \in Schemas /\ r.late \in BOOLEAN
  BY DEF Results
<1>2. \A c \in Calls : /\ c.schema \in Schemas /\ c.name \in Names /\ c.row \in Rows
                       /\ c.op \in {"list", "update", "switch", "create", "delete"}
  BY DEF Calls
<1>3. \A t \in Threads : call[t] \in Calls /\ image[t] \in Results
  BY DEF TypeOK
<1>4. \A t \in Threads : Query(t) \in Queries
  BY <1>2, <1>3 DEF Query, Queries
<1>5. ASSUME NEW t \in Threads
      PROVE  Row(t) \in Rows \cup {NoRow} /\ Found(t) \in Rows \cup {NoRow}
  <2>1. /\ call[t].schema \in Schemas /\ call[t].name \in Names
        /\ image[t].rows \in Tables
    BY <1>1, <1>2, <1>3
  <2>2. Row(t) \in Rows \cup {NoRow}
    BY <2>1 DEF Row, Tables, TypeOK
  <2>3. Found(t) \in Rows \cup {NoRow}
    BY <2>1 DEF Found, Tables
  <2> QED
    BY <2>2, <2>3
<1>6. NoRow \notin Rows /\ NotCached \notin Results
  BY StoreConstants DEF Rows, Results, Tables
<1> QED
  BY <1>1, <1>2, <1>3, <1>4, <1>5, <1>6

(* Writing columns of a row gives a row. *)
LEMMA OverwrittenTyped ==
  ASSUME NEW old \in Rows, NEW new \in Rows, NEW columns
  PROVE  Overwritten(old, new, columns) \in Rows
<1>1. Overwritten(old, new, columns).config \in Configs
  BY DEF Overwritten, Rows
<1>2. Overwritten(old, new, columns).active \in BOOLEAN
  BY DEF Overwritten, Rows
<1> QED
  BY <1>1, <1>2 DEF Overwritten, Rows

(* The row called first of all exists. *)
LEMMA SomeRow == AnyName \in Names /\ AnyRow \in Rows
<1>1. PICK n \in Names : TRUE
  BY StoreConstants
<1>2. PICK c \in Configs : TRUE
  BY StoreConstants
<1>3. [config |-> c, active |-> TRUE] \in Rows
  BY <1>2 DEF Rows
<1> QED
  BY <1>1, <1>3 DEF AnyName, AnyRow

-----------------------------------------------------------------------------
(* One statement keeps the types. *)
LEMMA ExecuteTypes ==
  ASSUME TypeOK, NEW t \in Threads, NEW row \in Rows \cup {NoRow}, Execute(t, row)
  PROVE  TypeOK'
<1>1. store' \in [Schemas -> Tables]
  BY Parts DEF Execute, TypeOK, Tables
<1>2. overlap' \in [Threads -> BOOLEAN]
  BY Zenon DEF Execute, TypeOK, About
<1> QED
  BY <1>1, <1>2 DEF Execute, TypeOK, Resting

LEMMA FinishTypes ==
  ASSUME TypeOK, NEW t \in Threads, NEW outcome \in {"ok", "failed"}, Finish(t, outcome)
  PROVE  TypeOK'
BY DEF Finish, TypeOK, Resting

(* So do the steps that end in one, or in none. *)
LEMMA InsertTypes ==
  ASSUME TypeOK, NEW t \in Threads, Insert(t)
  PROVE  TypeOK'
BY ExecuteTypes, FinishTypes, Parts DEF Insert

LEMMA SaveTypes ==
  ASSUME TypeOK, NEW t \in Threads, NEW columns, SaveIt(t, columns)
  PROVE  TypeOK'
<1>1. PICK written : IF written = {} THEN Finish(t, "ok") ELSE UpdateColumns(t, written)
  BY DEF SaveIt
<1>2. CASE Finish(t, "ok")
  BY <1>2, FinishTypes
<1>3. CASE UpdateColumns(t, written)
  BY <1>3, ExecuteTypes, OverwrittenTyped, Parts DEF UpdateColumns
<1> QED
  BY <1>1, <1>2, <1>3

LEMMA PurgeTypes ==
  ASSUME TypeOK, NEW t \in Threads, Purge(t)
  PROVE  TypeOK'
<1>1. image' \in [Threads -> Results]
  BY LateTyped DEF Purge, TypeOK
<1>2. cache' \in [Queries -> Results \cup {NotCached}]
  BY DEF Purge
<1> QED
  BY <1>1, <1>2 DEF Purge, TypeOK, Resting

LEMMA BeginTypes ==
  ASSUME TypeOK, NEW t \in Threads, NEW c \in Requests, Begin(t, c)
  PROVE  TypeOK'
<1>1. c \in Calls
  BY DEF Requests
<1>2. image' \in [Threads -> Results]
  BY <1>1, CurrentTyped, Parts DEF Begin, TypeOK
<1>3. overlap' \in [Threads -> BOOLEAN]
  BY Zenon DEF Begin, TypeOK
<1> QED
  BY <1>1, <1>2, <1>3 DEF Begin, TypeOK, Resting

(* Types are kept by every step. *)
LEMMA TypedStep == ASSUME TypeOK, [Next]_vars PROVE TypeOK'
<1>1. CASE UNCHANGED vars
  BY <1>1 DEF vars, TypeOK
<1>2. ASSUME NEW q \in Queries, Expire(q) PROVE TypeOK'
  BY <1>2 DEF Expire, TypeOK
<1>3. ASSUME NEW t \in Threads, Step(t) PROVE TypeOK'
  <2>1. CASE Hit(t)
    BY <2>1, Parts DEF Hit, TypeOK, AfterRead, Resting
  <2>2. CASE Select(t)
    BY <2>2, Parts, CurrentTyped DEF Select, TypeOK, Resting
  <2>3. CASE Fill(t)
    BY <2>3, Parts DEF Fill, TypeOK, AfterRead, Resting
  <2>4. CASE Create(t)
    BY <2>4, InsertTypes DEF Create
  <2>5. CASE Delete(t)
    BY <2>5, ExecuteTypes DEF Delete
  <2>6. CASE Update(t)
    BY <2>6, InsertTypes, SaveTypes DEF Update
  <2>7. CASE Switch(t)
    BY <2>7, FinishTypes, SaveTypes DEF Switch
  <2>8. CASE Purge(t)
    BY <2>8, PurgeTypes
  <2> QED
    BY <1>3, <2>1, <2>2, <2>3, <2>4, <2>5, <2>6, <2>7, <2>8 DEF Step
<1> QED
  BY <1>1, <1>2, <1>3, BeginTypes DEF Next

LEMMA InitTyped == Init => TypeOK
<1>1. SUFFICES ASSUME Init PROVE TypeOK
  OBVIOUS
<1>2. PICK s \in Schemas :
        call = [t \in Threads |->
          [op |-> "list", schema |-> s, name |-> AnyName, row |-> AnyRow]]
  BY <1>1 DEF Init
<1>3. call \in [Threads -> Calls]
  BY <1>2, SomeRow DEF Calls
<1>4. image \in [Threads -> Results]
  BY <1>1, <1>2 DEF Init, Current, Results
<1> QED
  BY <1>1, <1>3, <1>4 DEF Init, TypeOK, Resting

(* Every variable keeps its type. *)
THEOREM TypeCorrect == Spec => []TypeOK
BY InitTyped, TypedStep, PTL DEF Spec
-----------------------------------------------------------------------------
(* Why results are fresh, and what keeps a call from being misled. *)

(* A writer that still has to purge what the query is about. *)
Pending(result, q) ==
  \E t \in Threads :
    /\ pc[t] = "purge"
    /\ call[t].schema = result.schema /\ call[t].name \in Scope(q)

(* A result is fresh, or came late, or will be purged. *)
Sound(result, q) == ~result.late /\ ~Fresh(result, q) => Pending(result, q)

Caching == \A q \in Queries : cache[q] # NotCached => Sound(cache[q], q)

(* So are results on their way into the cache, and they come from the      *)
(* schema of the call.                                                     *)
Filling ==
  \A t \in Threads :
    pc[t] = "fill" => /\ image[t].schema = call[t].schema
                      /\ Sound(image[t], Query(t))

(* A write that is not yet purged has overlapped the calls about its row. *)
Warned ==
  \A t, u \in Threads :
    u # t /\ pc[u] = "purge" /\ About(call[t], call[u].schema, call[u].name) => overlap[t]

(* A list does not write. *)
Placed == \A t \in Threads : pc[t] \in {"write", "purge"} => call[t].op # "list"

(* What a call that was not misled found is what there is. *)
Holding ==
  \A t \in Threads :
    pc[t] = "write" /\ call[t].op \in {"update", "switch"} /\ ~Misled(t) =>
      Found(t) = Row(t)

(* What it wrote or returns is in effect, before its purge and after. *)
Told ==
  \A t \in Threads : ~Misled(t) =>
    /\ pc[t] \in {"purge", "ok"} => InEffect(t)
    /\ pc[t] = "failed" => Excused(t)

Coherent == TypeOK /\ Caching /\ Filling /\ Warned /\ Placed /\ Holding /\ Told

(* A sound result of the right schema answers a call that is not misled. *)
LEMMA SoundAnswers ==
  ASSUME TypeOK, Warned, NEW t \in Threads, pc[t] # "purge", ~overlap[t],
         NEW r \in Results, r.schema = call[t].schema, ~r.late, Sound(r, Query(t))
  PROVE  \A n \in Scope(Query(t)) : r.rows[n] = store[call[t].schema][n]
<1>1. SUFFICES ASSUME ~Fresh(r, Query(t)) PROVE FALSE
  BY DEF Fresh
<1>2. PICK u \in Threads : /\ pc[u] = "purge" /\ call[u].schema = r.schema
                           /\ call[u].name \in Scope(Query(t))
  BY <1>1 DEF Sound, Pending
<1>3. About(call[t], call[u].schema, call[u].name)
  BY <1>2, Parts, StoreConstants DEF About, Scope, Query
<1> QED
  BY <1>2, <1>3 DEF Warned

(* For a list that is the table, for the others their row. *)
LEMMA Answers ==
  ASSUME TypeOK, NEW t \in Threads, NEW r \in Results,
         \A n \in Scope(Query(t)) : r.rows[n] = store[call[t].schema][n]
  PROVE  /\ call[t].op = "list" => r.rows = store[call[t].schema]
         /\ call[t].op # "list" => r.rows[call[t].name] = Row(t)
<1>1. r.rows \in Tables /\ store[call[t].schema] \in Tables
  BY Parts DEF TypeOK
<1>2. CASE call[t].op = "list"
  <2>1. \A n \in Names : r.rows[n] = store[call[t].schema][n]
    BY <1>2 DEF Query, Scope
  <2> QED
    BY <1>1, <1>2, <2>1 DEF Tables
<1>3. CASE call[t].op # "list"
  BY <1>3, Parts, StoreConstants DEF Query, Scope, Row
<1> QED
  BY <1>2, <1>3

-----------------------------------------------------------------------------
(* A statement: the rows it changes are stale where its purge is pending   *)
(* and the calls about them are overlapped.                                *)
LEMMA ExecuteKeeps ==
  ASSUME Coherent, NEW t \in Threads, pc[t] = "write",
         NEW row \in Rows \cup {NoRow}, Execute(t, row),
         ~Misled(t) =>
           /\ call[t].op = "switch" => row # NoRow /\ row.active = call[t].row.active
           /\ call[t].op = "delete" => row = NoRow
           /\ call[t].op \in {"create", "update"} => row = call[t].row
  PROVE  Coherent'
<1> DEFINE s == call[t].schema
          n == call[t].name
<1>1. TypeOK /\ TypeOK'
  BY ExecuteTypes DEF Coherent
<1>2. /\ s \in Schemas /\ n \in Names
      /\ store' = [store EXCEPT ![s][n] = row]
      /\ pc' = [pc EXCEPT ![t] = "purge"]
      /\ UNCHANGED <<cache, call, image>>
      /\ \A u \in Threads : overlap'[u] <=> overlap[u] \/ (u # t /\ About(call[u], s, n))
  <2>1. s \in Schemas /\ n \in Names
    BY <1>1, Parts
  <2>2. \A u \in Threads : overlap'[u] <=> overlap[u] \/ (u # t /\ About(call[u], s, n))
    BY Zenon DEF Execute
  <2> QED
    BY <2>1, <2>2 DEF Execute
<1>3. /\ store'[s][n] = row
      /\ \A z \in Schemas, m \in Names : z # s \/ m # n => store'[z][m] = store[z][m]
  BY <1>1, <1>2 DEF TypeOK, Tables
<1>4. ASSUME NEW r \in Results, NEW q \in Queries, Sound(r, q) PROVE Sound(r, q)'
  <2>1. CASE r.schema = s /\ n \in Scope(q)
    BY <1>1, <1>2, <2>1 DEF Sound, Pending, TypeOK
  <2>2. CASE ~(r.schema = s /\ n \in Scope(q))
    <3>1. Scope(q) \subseteq Names
      BY DEF Queries, Scope
    <3>2. Fresh(r, q)' <=> Fresh(r, q)
      BY <1>1, <1>3, <2>2, <3>1, Parts DEF Fresh
    <3>3. Pending(r, q) => Pending(r, q)'
      BY <1>1, <1>2 DEF Pending, TypeOK
    <3> QED
      BY <1>4, <3>2, <3>3 DEF Sound
  <2> QED
    BY <2>1, <2>2
<1>5. Caching'
  BY <1>1, <1>2, <1>4 DEF Coherent, Caching, TypeOK
<1>6. Filling'
  BY <1>1, <1>2, <1>4, Parts DEF Coherent, Filling, TypeOK, Query
<1>7. Warned'
  BY <1>1, <1>2 DEF Coherent, Warned, TypeOK, About
<1>8. Placed'
  BY <1>1, <1>2 DEF Coherent, Placed, TypeOK
<1>9. ASSUME NEW u \in Threads, u # t, ~Misled(u)'
      PROVE  /\ ~Misled(u) /\ ~About(call[u], s, n)
             /\ call[u].op # "list" => Row(u)' = Row(u)
             /\ call[u].op = "list" => store'[call[u].schema] = store[call[u].schema]
  <2>1. ~Misled(u) /\ ~About(call[u], s, n)
    BY <1>2, <1>9 DEF Misled
  <2>2. call[u].schema \in Schemas /\ call[u].name \in Names
    BY <1>1, Parts
  <2>3. call[u].op # "list" => Row(u)' = Row(u)
    BY <1>2, <1>3, <2>1, <2>2 DEF Row, About
  <2>4. ASSUME call[u].op = "list" PROVE store'[call[u].schema] = store[call[u].schema]
    BY <1>1, <1>2, <2>1, <2>2, <2>4 DEF About, TypeOK, Tables
  <2> QED
    BY <2>1, <2>3, <2>4
<1>10. Holding'
  <2>1. SUFFICES ASSUME NEW u \in Threads, pc'[u] = "write", ~Misled(u)',
                        call'[u].op \in {"update", "switch"}
                 PROVE  Found(u)' = Row(u)'
    BY DEF Holding
  <2>2. u # t /\ pc[u] = "write" /\ call[u].op \in {"update", "switch"}
    BY <1>1, <1>2, <2>1 DEF TypeOK
  <2>3. Found(u)' = Found(u)
    BY <1>2 DEF Found
  <2> QED
    BY <1>9, <2>1, <2>2, <2>3 DEF Coherent, Holding
<1>11. Told'
  <2>1. SUFFICES ASSUME NEW u \in Threads, ~Misled(u)'
                 PROVE  /\ pc'[u] \in {"purge", "ok"} => InEffect(u)'
                        /\ pc'[u] = "failed" => Excused(u)'
    BY DEF Told
  <2>2. CASE u = t
    <3>1. ~Misled(t)
      BY <1>2, <2>1, <2>2 DEF Misled
    <3>2. Row(t)' = row /\ pc'[t] = "purge" /\ call[t].op # "list"
      BY <1>1, <1>2, <1>3 DEF Row, TypeOK, Coherent, Placed
    <3> QED
      BY <1>2, <2>2, <3>1, <3>2 DEF InEffect
  <2>3. CASE u # t
    <3>1. pc'[u] = pc[u] /\ call'[u] = call[u] /\ image'[u] = image[u]
      BY <1>1, <1>2, <2>3 DEF TypeOK
    <3>2. InEffect(u) => InEffect(u)'
      BY <1>9, <2>1, <2>3, <3>1 DEF InEffect
    <3>3. Excused(u) => Excused(u)'
      BY <1>9, <2>1, <2>3, <3>1 DEF Excused
    <3> QED
      BY <1>9, <2>1, <2>3, <3>1, <3>2, <3>3 DEF Coherent, Told
  <2> QED
    BY <2>2, <2>3
<1> QED
  BY <1>1, <1>5, <1>6, <1>7, <1>8, <1>10, <1>11 DEF Coherent

(* A call that ends without a statement. *)
LEMMA FinishKeeps ==
  ASSUME Coherent, NEW t \in Threads, pc[t] = "write",
         NEW outcome \in {"ok", "failed"}, Finish(t, outcome),
         ~Misled(t) => IF outcome = "ok" THEN InEffect(t) ELSE Excused(t)
  PROVE  Coherent'
<1>1. TypeOK /\ TypeOK'
  BY FinishTypes DEF Coherent
<1>2. /\ pc' = [pc EXCEPT ![t] = outcome]
      /\ UNCHANGED <<store, cache, call, image, overlap>>
  BY DEF Finish
<1>3. \A r \in Results, q \in Queries : Sound(r, q) => Sound(r, q)'
  BY <1>1, <1>2 DEF Sound, Fresh, Pending, TypeOK
<1>4. Caching' /\ Filling'
  BY <1>1, <1>2, <1>3, Parts DEF Coherent, Caching, Filling, TypeOK, Query
<1>5. Warned' /\ Placed'
  BY <1>1, <1>2 DEF Coherent, Warned, Placed, TypeOK, About
<1>6. Holding' /\ Told'
  <2>1. pc'[t] = outcome /\ \A u \in Threads \ {t} : pc'[u] = pc[u]
    BY <1>1, <1>2 DEF TypeOK
  <2>2. Holding'
    BY <1>2, <2>1 DEF Coherent, Holding, Misled, Found, Row
  <2>3. Told'
    BY <1>2, <2>1 DEF Coherent, Told, Misled, Row, InEffect, Excused
  <2> QED
    BY <2>2, <2>3
<1> QED
  BY <1>1, <1>4, <1>5, <1>6 DEF Coherent

(* A call that was answered goes on: it may have been misled, or it holds  *)
(* what is there.                                                          *)
LEMMA AnswerKeeps ==
  ASSUME Coherent, TypeOK', NEW t \in Threads,
         pc[t] \in {"look", "fill"},
         pc' = [pc EXCEPT ![t] = AfterRead(t)],
         NEW r \in Results, Sound(r, Query(t)), image' = [image EXCEPT ![t] = r],
         cache' \in {cache, [cache EXCEPT ![Query(t)] = r]},
         UNCHANGED <<store, call, overlap>>
  PROVE  Coherent'
<1>1. TypeOK
  BY DEF Coherent
<1>2. ASSUME NEW x \in Results, NEW q \in Queries, Sound(x, q) PROVE Sound(x, q)'
  <2>1. Fresh(x, q)' <=> Fresh(x, q)
    BY DEF Fresh
  <2>2. Pending(x, q) => Pending(x, q)'
    BY <1>1 DEF Pending, TypeOK
  <2> QED
    BY <1>2, <2>1, <2>2 DEF Sound
<1>3. Caching'
  BY <1>1, <1>2, Parts DEF Coherent, Caching, TypeOK
<1>4. Filling'
  BY <1>1, <1>2, Parts DEF Coherent, Filling, TypeOK, Query, AfterRead
<1>5. Warned' /\ Placed'
  BY <1>1, Parts DEF Coherent, Warned, Placed, TypeOK, About, AfterRead
<1>6. ASSUME ~Misled(t)'
      PROVE  /\ call[t].op = "list" => r.rows = store[call[t].schema]
             /\ call[t].op # "list" => r.rows[call[t].name] = Row(t)
  <2>1. ~overlap[t] /\ ~r.late /\ r.schema = call[t].schema
    BY <1>1, <1>6 DEF Misled, TypeOK
  <2>2. \A n \in Scope(Query(t)) : r.rows[n] = store[call[t].schema][n]
    BY <2>1, SoundAnswers DEF Coherent
  <2> QED
    BY <1>1, <2>2, Answers
<1>7. Holding'
  BY <1>1, <1>6, Parts DEF Coherent, Holding, TypeOK, Misled, Found, Row, AfterRead
<1>8. Told'
  BY <1>1, <1>6, Parts DEF Coherent, Told, TypeOK, Misled, Row, InEffect, Excused, AfterRead
<1> QED
  BY <1>3, <1>4, <1>5, <1>7, <1>8 DEF Coherent

LEMMA SelectKeeps ==
  ASSUME Coherent, TypeOK', NEW t \in Threads, Select(t) PROVE Coherent'
<1>1. TypeOK
  BY DEF Coherent
<1>2. /\ Current(call[t].schema) \in Results
      /\ Current(call[t].schema).schema = call[t].schema
      /\ Current(call[t].schema).rows = store[call[t].schema]
  BY <1>1, Parts, CurrentTyped
<1>3. \A x \in Results, q \in Queries : Sound(x, q) => Sound(x, q)'
  BY <1>1 DEF Select, Sound, Fresh, Pending, TypeOK
<1>5. Caching'
  BY <1>1, <1>3 DEF Select, Coherent, Caching, TypeOK
<1>6. Filling'
  <2>1. SUFFICES ASSUME NEW u \in Threads, pc'[u] = "fill"
                 PROVE  image'[u].schema = call'[u].schema /\ Sound(image[u], Query(u))'
    BY DEF Filling
  <2>2. CASE u = t
    <3>1. image'[u] = Current(call[t].schema) /\ call' = call
      BY <1>1, <2>2 DEF Select, TypeOK
    <3>2. Fresh(image[u], Query(u))'
      BY <1>2, <2>2, <3>1 DEF Select, Fresh
    <3> QED
      BY <1>2, <2>2, <3>1, <3>2 DEF Sound
  <2>3. CASE u # t
    <3>1. pc[u] = "fill" /\ image'[u] = image[u] /\ call' = call
      BY <1>1, <2>1, <2>3 DEF Select, TypeOK
    <3>2. Sound(image[u], Query(u))
      BY <3>1 DEF Coherent, Filling
    <3>3. Pending(image[u], Query(u)) => Pending(image[u], Query(u))'
      BY <1>1, <3>1 DEF Select, Pending, Query, Scope, TypeOK
    <3> QED
      BY <3>1, <3>2, <3>3 DEF Select, Coherent, Filling, Sound, Fresh, Query, Scope
  <2> QED
    BY <2>2, <2>3
<1>7. Warned' /\ Placed'
  BY <1>1 DEF Select, Coherent, Warned, Placed, TypeOK, About
<1>8. Holding' /\ Told'
  <2>1. /\ pc' = [pc EXCEPT ![t] = "fill"] /\ UNCHANGED <<store, call, overlap>>
        /\ \A u \in Threads \ {t} : image'[u] = image[u]
    BY <1>1 DEF Select, TypeOK
  <2>2. pc'[t] = "fill" /\ \A u \in Threads \ {t} : pc'[u] = pc[u]
    BY <1>1, <2>1 DEF TypeOK
  <2>3. Holding'
    BY <2>1, <2>2 DEF Coherent, Holding, Misled, Found, Row
  <2>4. Told'
    BY <2>1, <2>2 DEF Coherent, Told, Misled, Row, InEffect, Excused
  <2> QED
    BY <2>3, <2>4
<1> QED
  BY <1>5, <1>6, <1>7, <1>8 DEF Coherent

(* A call comes in: writes that wait for their purge overlap it at once.   *)
LEMMA BeginKeeps ==
  ASSUME Coherent, NEW t \in Threads, NEW c \in Requests, Begin(t, c) PROVE Coherent'
<1>1. TypeOK /\ TypeOK'
  BY BeginTypes DEF Coherent
<1>2. /\ c \in Calls /\ c.schema \in Schemas
      /\ Current(c.schema) \in Results /\ Current(c.schema).schema = c.schema
  BY <1>1, Parts, CurrentTyped DEF Requests
<1>3. /\ pc[t] \notin {"fill", "write", "purge"}
      /\ call' = [call EXCEPT ![t] = c]
      /\ image' = [image EXCEPT ![t] = Current(c.schema)]
      /\ pc' = [pc EXCEPT ![t] = IF c.op \in {"create", "delete"} THEN "write" ELSE "look"]
      /\ UNCHANGED <<store, cache>>
      /\ \A u \in Threads \ {t} : overlap'[u] = overlap[u]
      /\ \A u \in Threads \ {t} :
           pc[u] = "purge" /\ About(c, call[u].schema, call[u].name) => overlap'[t]
  <2>1. \A u \in Threads \ {t} :
           pc[u] = "purge" /\ About(c, call[u].schema, call[u].name) => overlap'[t]
    BY <1>1, Zenon DEF Begin, TypeOK
  <2>2. \A u \in Threads \ {t} : overlap'[u] = overlap[u]
    BY <1>1, Zenon DEF Begin, TypeOK
  <2> QED
    BY <2>1, <2>2 DEF Begin, Resting
<1>4. ASSUME NEW x \in Results, NEW q \in Queries, Sound(x, q) PROVE Sound(x, q)'
  <2>1. Fresh(x, q)' <=> Fresh(x, q)
    BY <1>3 DEF Fresh
  <2>2. Pending(x, q) => Pending(x, q)'
    BY <1>1, <1>3 DEF Pending, TypeOK
  <2> QED
    BY <1>4, <2>1, <2>2 DEF Sound
<1>5. Caching'
  BY <1>1, <1>3, <1>4 DEF Coherent, Caching, TypeOK
<1>6. Filling'
  <2>1. SUFFICES ASSUME NEW u \in Threads, pc'[u] = "fill"
                 PROVE  image'[u].schema = call'[u].schema /\ Sound(image[u], Query(u))'
    BY DEF Filling
  <2>2. pc[u] = "fill" /\ image'[u] = image[u] /\ call'[u] = call[u]
    BY <1>1, <1>3, <2>1 DEF TypeOK
  <2>3. Sound(image[u], Query(u))
    BY <2>2 DEF Coherent, Filling
  <2>4. Fresh(image[u], Query(u))' <=> Fresh(image[u], Query(u))
    BY <1>3, <2>2 DEF Fresh, Query, Scope
  <2>5. Pending(image[u], Query(u)) => Pending(image[u], Query(u))'
    BY <1>1, <1>3, <2>2 DEF Pending, Query, Scope, TypeOK
  <2> QED
    BY <2>2, <2>3, <2>4, <2>5 DEF Coherent, Filling, Sound
<1>7. Warned' /\ Placed'
  BY <1>1, <1>3 DEF Coherent, Warned, Placed, TypeOK, About
<1>8. Holding' /\ Told'
  <2>1. \A u \in Threads \ {t} : /\ pc'[u] = pc[u] /\ call'[u] = call[u]
                                /\ image'[u] = image[u] /\ overlap'[u] = overlap[u]
    BY <1>1, <1>3 DEF TypeOK
  <2>2. /\ pc'[t] \notin {"purge", "ok", "failed"}
        /\ pc'[t] = "write" => call'[t].op \notin {"update", "switch"}
    BY <1>1, <1>3 DEF TypeOK
  <2>3. Holding'
    BY <1>3, <2>1, <2>2 DEF Coherent, Holding, Misled, Found, Row
  <2>4. Told'
    BY <1>3, <2>1, <2>2 DEF Coherent, Told, Misled, Row, InEffect, Excused
  <2> QED
    BY <2>3, <2>4
<1> QED
  BY <1>1, <1>5, <1>6, <1>7, <1>8 DEF Coherent

(* The purge makes the results on their way late. *)
LEMMA PurgeKeeps ==
  ASSUME Coherent, NEW t \in Threads, Purge(t) PROVE Coherent'
<1>1. TypeOK /\ TypeOK'
  BY PurgeTypes DEF Coherent
<1>2. /\ pc[t] = "purge" /\ pc' = [pc EXCEPT ![t] = "ok"]
      /\ UNCHANGED <<store, call, overlap>>
      /\ \A q \in Queries : cache'[q] = NotCached
      /\ \A u \in Threads : pc[u] # "fill" => image'[u] = image[u]
      /\ \A u \in Threads :
           pc[u] = "fill" => image'[u].late /\ image'[u].schema = image[u].schema
  BY <1>1, Parts, LateTyped DEF Purge
<1>3. Caching'
  BY <1>2 DEF Caching
<1>4. Filling'
  BY <1>1, <1>2 DEF Coherent, Filling, Sound, TypeOK
<1>5. Warned' /\ Placed'
  BY <1>1, <1>2 DEF Coherent, Warned, Placed, TypeOK, About
<1>6. Holding' /\ Told'
  BY <1>1, <1>2 DEF Coherent, Holding, Told, TypeOK, Misled, Found, Row, InEffect, Excused
<1> QED
  BY <1>1, <1>3, <1>4, <1>5, <1>6 DEF Coherent

(* The call writes its row, or finds one in its way. *)
LEMMA WriteKeeps ==
  ASSUME Coherent, NEW t \in Threads,
         Create(t) \/ Delete(t) \/ Update(t) \/ Switch(t)
  PROVE  Coherent'
<1>1. TypeOK /\ pc[t] = "write"
  BY DEF Coherent, Create, Delete, Update, Switch
<1>2. ASSUME Insert(t), call[t].op = "create" \/ (call[t].op = "update" /\ Found(t) = NoRow)
      PROVE  Coherent'
  <2>1. CASE Row(t) = NoRow
    BY <1>1, <1>2, <2>1, ExecuteKeeps, Parts DEF Insert
  <2>2. CASE Row(t) # NoRow
    BY <1>1, <1>2, <2>2, FinishKeeps DEF Insert, Excused, Coherent, Holding
  <2> QED
    BY <2>1, <2>2
<1>3. ASSUME NEW columns, "active" \in columns, Found(t) # NoRow,
             call[t].op = "switch" \/ (call[t].op = "update" /\ columns = Columns),
             SaveIt(t, columns)
      PROVE  Coherent'
  <2>1. PICK written :
          /\ written = columns \/ written = {c \in columns : Found(t)[c] # call[t].row[c]}
          /\ IF written = {} THEN Finish(t, "ok") ELSE UpdateColumns(t, written)
    BY <1>3 DEF SaveIt
  <2>2. ~Misled(t) => Found(t) = Row(t)
    BY <1>1, <1>3 DEF Coherent, Holding
  <2>3. Found(t) \in Rows /\ call[t].row \in Rows
    BY <1>1, <1>3, Parts
  <2>4. /\ Overwritten(Found(t), call[t].row, written).active = call[t].row.active
        /\ call[t].op = "update" => Overwritten(Found(t), call[t].row, written) = call[t].row
    <3>1. Overwritten(Found(t), call[t].row, written).active = call[t].row.active
      BY <1>3, <2>1, <2>3 DEF Overwritten, Rows
    <3>2. call[t].op = "update" =>
            Overwritten(Found(t), call[t].row, written).config = call[t].row.config
      BY <1>3, <2>1, <2>3 DEF Overwritten, Rows, Columns
    <3> QED
      BY <2>3, <3>1, <3>2 DEF Overwritten, Rows
  <2>5. CASE written = {}
    <3>1. Overwritten(Found(t), call[t].row, written) = Found(t)
      BY <2>3, <2>5 DEF Overwritten, Rows
    <3>2. ~Misled(t) => InEffect(t)
      BY <1>3, <2>2, <2>4, <3>1 DEF InEffect
    <3> QED
      BY <1>1, <2>1, <2>5, <3>2, FinishKeeps
  <2>6. CASE written # {}
    <3> DEFINE row == IF Row(t) = NoRow THEN NoRow
                      ELSE Overwritten(Row(t), call[t].row, written)
    <3>1. row \in Rows \cup {NoRow}
      BY <1>1, <2>3, Parts, OverwrittenTyped
    <3>2. ~Misled(t) => /\ row # NoRow /\ row.active = call[t].row.active
                        /\ call[t].op = "update" => row = call[t].row
      BY <1>1, <1>3, <2>2, <2>3, <2>4, Parts, OverwrittenTyped
    <3>3. Execute(t, row)
      BY <2>1, <2>6 DEF UpdateColumns
    <3> HIDE DEF row
    <3> QED
      BY <1>1, <1>3, <3>1, <3>2, <3>3, ExecuteKeeps
  <2> QED
    BY <2>5, <2>6
<1>4. CASE Create(t)
  BY <1>2, <1>4 DEF Create
<1>5. CASE Delete(t)
  BY <1>1, <1>5, ExecuteKeeps DEF Delete
<1>6. CASE Update(t)
  BY <1>2, <1>3, <1>6 DEF Update, Columns
<1>7. CASE Switch(t)
  <2>1. CASE Found(t) = NoRow
    BY <1>1, <1>7, <2>1, FinishKeeps DEF Switch, Excused, Coherent, Holding
  <2>2. CASE Found(t) # NoRow
    BY <1>3, <1>7, <2>2 DEF Switch
  <2> QED
    BY <2>1, <2>2
<1> QED
  BY <1>4, <1>5, <1>6, <1>7

(* The invariant is kept by every step. *)
LEMMA CoherentStep == ASSUME Coherent, [Next]_vars PROVE Coherent'
<1>1. TypeOK /\ TypeOK'
  BY TypedStep DEF Coherent
<1>2. CASE UNCHANGED vars
  BY <1>1, <1>2 DEF vars, Coherent, Caching, Filling, Sound, Fresh, Pending, Warned, Placed,
                    Holding, Told, Misled, Found, Row, Query, InEffect, Excused
<1>3. ASSUME NEW q \in Queries, Expire(q) PROVE Coherent'
  <2>1. Caching'
    BY <1>1, <1>3 DEF Expire, Coherent, Caching, Sound, Fresh, Pending, TypeOK
  <2> QED
    BY <1>1, <1>3, <2>1 DEF Expire, Coherent, Filling, Sound, Fresh, Pending, Warned, Placed,
                            Holding, Told, Misled, Found, Row, Query, InEffect, Excused
<1>4. ASSUME NEW t \in Threads, Step(t) PROVE Coherent'
  <2>1. CASE Hit(t)
    <3>1. cache[Query(t)] \in Results /\ Sound(cache[Query(t)], Query(t))
      BY <1>1, <2>1, Parts DEF Hit, Coherent, Caching, TypeOK
    <3> QED
      BY <1>1, <2>1, <3>1, AnswerKeeps DEF Hit
  <2>2. CASE Fill(t)
    <3>1. image[t] \in Results /\ Sound(image[t], Query(t))
      BY <1>1, <2>2, Parts DEF Fill, Coherent, Filling
    <3>2. image' = [image EXCEPT ![t] = image[t]]
      BY <1>1, <2>2 DEF Fill, TypeOK
    <3> QED
      BY <1>1, <2>2, <3>1, <3>2, AnswerKeeps DEF Fill
  <2> QED
    BY <1>1, <1>4, <2>1, <2>2, SelectKeeps, WriteKeeps, PurgeKeeps DEF Step
<1> QED
  BY <1>2, <1>3, <1>4, BeginKeeps DEF Next

LEMMA AlwaysCoherent == Spec => []Coherent
<1>1. ASSUME Init PROVE Coherent
  <2>1. TypeOK
    BY <1>1, InitTyped
  <2> QED
    BY <1>1, <2>1 DEF Init, Coherent, Caching, Filling, Warned, Placed, Holding, Told
<1> QED
  BY <1>1, CoherentStep, PTL DEF Spec

(* What the cache holds is in the table, unless the purge of a write is    *)
(* still to come or came between the selection of the result and its way   *)
(* into the cache.                                                         *)
THEOREM CacheStaleOnlyByRace == Spec => []StaleOnlyByRace
<1>1. Coherent => StaleOnlyByRace
  BY DEF Coherent, Caching, Sound, Pending, StaleOnlyByRace
<1> QED
  BY <1>1, AlwaysCoherent, PTL

(* A call that was not overlapped and got no late or foreign result is     *)
(* told the truth.                                                         *)
THEOREM AlwaysToldTheTruth == Spec => []ToldTheTruth
<1>1. Coherent => ToldTheTruth
  BY DEF Coherent, Told, ToldTheTruth
<1> QED
  BY <1>1, AlwaysCoherent, PTL
=============================================================================
