------------------------------ MODULE SelectorStore ------------------------------
(***************************************************************************)
(* The selectors table and the calls that change it: the API's, and the    *)
(* entity editor's, which decides between an update and a creation by what *)
(* it read.  The table has no key, but the class takes resource_group_id   *)
(* for one: an update first sets all columns of the model it found, then   *)
(* overwrites whatever rows have the *new* resource group.  A call's       *)
(* statements are separate, so calls interleave.  Its reads are answered   *)
(* by the query cache, which all databases share and a read may fill after *)
(* a write's purge: whatever was true once, here or in another database.   *)
(* (EntityStore has the cache itself.)                                     *)
(***************************************************************************)
CONSTANTS Threads,   \* threads that serve calls
          Groups,    \* resource groups
          Rules,     \* priority, patterns and tags of a selector
          Places,    \* places for rows (bounds the model)
          NoRow      \* an empty place, no selector

Rows == [group : Groups, rule : Rules]

ASSUME SelectorConstants == NoRow \notin Rows

VARIABLES
  table,    \* the row in each place
  call,     \* what each thread does, or has done last
  crowded   \* groups that have several selectors by an API call, a race, a
            \* wrong answer of the cache, or from the beginning (history)

vars == <<table, call, crowded>>

Kinds == {"none", "create", "update", "delete", "save"}
Steps == {"idle", "read", "find", "insert", "overwrite", "delete", "done"}

(* sure: what it read was so, and no other call wrote since it began       *)
(* (history).                                                              *)
Calls == [kind : Kinds, step : Steps, old : Rows \cup {NoRow},
          new : Rows \cup {NoRow}, sure : BOOLEAN]

Idle == [kind |-> "none", step |-> "idle", old |-> NoRow, new |-> NoRow, sure |-> TRUE]

Present == {table[p] : p \in Places} \ {NoRow}

OfGroup(g) == {p \in Places : table[p] # NoRow /\ table[p].group = g}

Several(g) == \E p, r \in OfGroup(g) : p # r

Init ==
  /\ table \in [Places -> Rows \cup {NoRow}]
  /\ call = [t \in Threads |-> Idle]
  /\ crowded = {g \in Groups : Several(g)}

-----------------------------------------------------------------------------
FirstStep(kind) ==
  CASE kind = "create" -> "insert" [] kind = "update" -> "find"
    [] kind = "delete" -> "delete" [] kind = "save" -> "read"

(* A request: createSelector, updateSelector, deleteSelector of            *)
(* PrestoResource, or updateEntity of EntityEditorResource.                *)
Begin(t, kind, old, new) ==
  /\ call[t].step \in {"idle", "done"}
  /\ kind \in {"update", "delete"} <=> old # NoRow
  /\ kind = "delete" <=> new = NoRow
  /\ call' = [call EXCEPT ![t] =
       [kind |-> kind, step |-> FirstStep(kind), old |-> old, new |-> new, sure |-> TRUE]]
  /\ UNCHANGED <<table, crowded>>

(* t goes on to a step with the selector to be replaced; so: is the answer *)
(* that led it there the table's?                                          *)
GoOn(t, step, old, so) ==
  /\ call' = [call EXCEPT ![t] =
       [kind |-> call[t].kind, step |-> step, old |-> old,
        new |-> call[t].new, sure |-> call[t].sure /\ so]]
  /\ UNCHANGED <<table, crowded>>

(* Mutant: the editor looks for the selector it is to save. *)
ReadEqual(t) ==
  /\ call[t].step = "read"
  /\ IF call[t].new \in Present THEN GoOn(t, "find", call[t].new, TRUE) ELSE GoOn(t, "insert", NoRow, TRUE)

(* Mutant: the first of those found is taken, even of none. *)
ReadFirst(t) ==
  /\ call[t].step = "read"
  /\ LET found == OfGroup(call[t].new.group)
     IN  \/ found = {} /\ GoOn(t, "find", NoRow, TRUE)
         \/ \E p \in found : GoOn(t, "find", table[p], TRUE)

(* updateEntity: readSelector(the new selector's group); the first of them *)
(* is the one to be updated, and the database has no order.                *)
ReadGroup(t) ==
  /\ call[t].step = "read"
  /\ \/ GoOn(t, "insert", NoRow, OfGroup(call[t].new.group) = {})
     \/ \E rule \in Rules :
          LET row == [group |-> call[t].new.group, rule |-> rule]
          IN  GoOn(t, "find", row, row \in Present)

(* Mutant: an update of a selector that does not exist does nothing. *)
FindOrForget(t) ==
  /\ call[t].step = "find"
  /\ GoOn(t, IF call[t].old \in Present THEN "overwrite" ELSE "done", call[t].old, TRUE)

(* updateSelector: findFirst of a row with these very columns. *)
FindOld(t) ==
  /\ call[t].step = "find"
  /\ \/ GoOn(t, "overwrite", call[t].old, call[t].old \in Present)
     \/ GoOn(t, "insert", call[t].old, call[t].old \notin Present)

(* The call returns; what the others read may not be so any more. *)
Return(t) ==
  call' = [u \in Threads |->
    IF u = t
    THEN [kind |-> call[t].kind, step |-> "done", old |-> call[t].old,
          new |-> call[t].new, sure |-> call[t].sure]
    ELSE [kind |-> call[u].kind, step |-> call[u].step, old |-> call[u].old,
          new |-> call[u].new, sure |-> FALSE]]

(* Selectors.create *)
Insert(t, p) ==
  LET g == call[t].new.group
  IN  /\ call[t].step = "insert"
      /\ table[p] = NoRow
      /\ table' = [table EXCEPT ![p] = call[t].new]
      /\ crowded' = IF OfGroup(g) # {} /\ (call[t].kind # "save" \/ ~call[t].sure)
                    THEN crowded \cup {g} ELSE crowded
      /\ Return(t)

(* Mutant: UPDATE without a WHERE. *)
OverwriteAll(t) ==
  /\ call[t].step = "overwrite"
  /\ table' = [p \in Places |-> IF table[p] # NoRow THEN call[t].new ELSE NoRow]
  /\ crowded' = Groups
  /\ Return(t)

(* Selectors.update: UPDATE selectors SET <all columns> WHERE              *)
(* resource_group_id = <the new one>.                                      *)
Overwrite(t) ==
  /\ call[t].step = "overwrite"
  /\ table' = [p \in Places |->
       IF p \in OfGroup(call[t].new.group) THEN call[t].new ELSE table[p]]
  /\ UNCHANGED crowded
  /\ Return(t)

(* deleteSelector: all rows with these very columns. *)
Delete(t) ==
  /\ call[t].step = "delete"
  /\ table' = [p \in Places |-> IF table[p] = call[t].old THEN NoRow ELSE table[p]]
  /\ crowded' = {g \in crowded : Several(g)'}
  /\ Return(t)

Act(t) ==
  \/ \E kind \in Kinds \ {"none"}, old, new \in Rows \cup {NoRow} : Begin(t, kind, old, new)
  \/ ReadGroup(t) \/ FindOld(t) \/ Overwrite(t) \/ Delete(t)
  \/ \E p \in Places : Insert(t, p)

Next == \E t \in Threads : Act(t)

Spec == Init /\ [][Next]_vars

-----------------------------------------------------------------------------
TypeOK ==
  /\ table \in [Places -> Rows \cup {NoRow}]
  /\ call \in [Threads -> Calls]
  /\ crowded \subseteq Groups
  /\ \A t \in Threads : call[t].step \in {"read", "insert", "overwrite"} => call[t].new \in Rows
  /\ \A t \in Threads : call[t].step \in {"find", "overwrite", "delete"} => call[t].old \in Rows

(* A call that returned what it stored did store it, unless another one    *)
(* wrote meanwhile, or the query cache answered what the table does not    *)
(* hold -- or it was an update that moves the selector to another resource *)
(* group: that one may have written nothing.                               *)
AcknowledgedIsStored ==
  \A t \in Threads :
    /\ call[t].step = "done" /\ call[t].sure
    /\ call[t].kind \in {"create", "save"}
         \/ (call[t].kind = "update" /\ call[t].old.group = call[t].new.group)
    => call[t].new \in Present

(* Saving in the editor adds no second selector to a group, if what it     *)
(* read is so: a group has several only by calls of the API, by saves that *)
(* raced, or by saves the query cache told that the group had none.        *)
EditorKeepsOnePerGroup == \A g \in Groups : Several(g) => g \in crowded

(* A selector disappears only when it is deleted, or overwritten with one  *)
(* of its group.                                                           *)
LostOnlyToGroup ==
  [][\A row \in Present \ Present' :
       \E t \in Threads :
         \/ call[t].step = "delete" /\ call[t].old = row
         \/ call[t].step = "overwrite" /\ call[t].new.group = row.group]_vars
=============================================================================
