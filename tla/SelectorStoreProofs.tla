-------------------------- MODULE SelectorStoreProofs --------------------------
(* Theorems about SelectorStore, for any threads, groups, rules and rows. *)
EXTENDS SelectorStore, TLAPS

(* A call has what its step needs, and the editor stays in its group. *)
Prepared(c) ==
  /\ c.step \in {"read", "find", "insert", "overwrite"} => c.new \in Rows
  /\ c.step \in {"find", "overwrite", "delete"} => c.old \in Rows
  /\ c.kind = "save" /\ c.step \in {"find", "overwrite"} => c.old.group = c.new.group
  /\ c.kind = "create" => c.step \in {"insert", "done"}
  /\ c.step = "delete" => c.kind = "delete"

(* What a call that is sure read is still so. *)
Undisturbed(c) ==
  c.sure =>
    /\ c.step = "overwrite" => c.old \in Present
    /\ c.kind = "save" /\ c.step = "find" => c.old \in Present
    /\ c.kind = "save" /\ c.step = "insert" => OfGroup(c.new.group) = {}

(* Does its return promise that the selector is in the table? *)
Promises(c) ==
  c.kind \in {"create", "save"} \/ (c.kind = "update" /\ c.old.group = c.new.group)

Stored(c) == c.step = "done" /\ c.sure /\ Promises(c) => c.new \in Present

Sound(c) == Prepared(c) /\ Undisturbed(c) /\ Stored(c)

Typed ==
  /\ table \in [Places -> Rows \cup {NoRow}]
  /\ call \in [Threads -> Calls]
  /\ crowded \subseteq Groups

Inductive == Typed /\ EditorKeepsOnePerGroup /\ \A t \in Threads : Sound(call[t])

LEMMA InductiveImplies ==
  ASSUME Inductive PROVE TypeOK /\ AcknowledgedIsStored /\ EditorKeepsOnePerGroup
<1>1. TypeOK
  BY DEF Inductive, Typed, Sound, Prepared, TypeOK
<1>2. AcknowledgedIsStored
  BY DEF Inductive, Sound, Stored, Promises, AcknowledgedIsStored
<1> QED
  BY <1>1, <1>2 DEF Inductive

-----------------------------------------------------------------------------
(* A step of one call that leaves the table alone. *)
LEMMA QuietStep ==
  ASSUME Inductive, NEW t \in Threads, NEW c \in Calls, Sound(c),
         call' = [call EXCEPT ![t] = c], UNCHANGED <<table, crowded>>
  PROVE  Inductive'
<1>1. call' \in [Threads -> Calls]
  BY DEF Inductive, Typed
<1>2. Typed' /\ EditorKeepsOnePerGroup'
  BY <1>1 DEF Inductive, Typed, EditorKeepsOnePerGroup, Several, OfGroup
<1>3. ASSUME NEW u \in Threads PROVE Sound(call[u])'
  <2>1. call'[u] = IF u = t THEN c ELSE call[u]
    BY DEF Inductive, Typed
  <2>2. Sound(call'[u])
    BY <2>1 DEF Inductive
  <2> QED
    BY <2>2 DEF Sound, Prepared, Undisturbed, Stored, Promises, Present, OfGroup
<1> QED
  BY <1>2, <1>3 DEF Inductive

(* The write of one call, which returns. *)
LEMMA WriteStep ==
  ASSUME Inductive, NEW t \in Threads, Return(t),
         table' \in [Places -> Rows \cup {NoRow}],
         crowded' \subseteq Groups,
         EditorKeepsOnePerGroup',
         call[t].sure /\ Promises(call[t]) => call[t].new \in Present'
  PROVE  Inductive'
<1> DEFINE After(u) ==
      IF u = t
      THEN [kind |-> call[t].kind, step |-> "done", old |-> call[t].old,
            new |-> call[t].new, sure |-> call[t].sure]
      ELSE [kind |-> call[u].kind, step |-> call[u].step, old |-> call[u].old,
            new |-> call[u].new, sure |-> FALSE]
<1>1. \A u \in Threads : call'[u] = After(u)
  BY DEF Return
<1>2. \A u \in Threads : After(u) \in Calls
  BY DEF Inductive, Typed, Calls, Steps
<1>3. call' \in [Threads -> Calls]
  <2>1. call' = [u \in Threads |-> After(u)]
    BY DEF Return
  <2> HIDE DEF After
  <2> QED
    BY <1>2, <2>1
<1>4. /\ call'[t].step = "done" /\ call'[t].kind = call[t].kind
      /\ call'[t].old = call[t].old /\ call'[t].new = call[t].new
      /\ call'[t].sure = call[t].sure
  <2>1. call'[t] = [kind |-> call[t].kind, step |-> "done", old |-> call[t].old,
                    new |-> call[t].new, sure |-> call[t].sure]
    BY <1>1
  <2> QED
    BY <2>1
<1>5. Sound(call[t])'
  <2>1. Promises(call[t])' => Promises(call[t])
    BY <1>4 DEF Promises
  <2>2. Stored(call[t])' /\ Undisturbed(call[t])'
    BY <1>4, <2>1 DEF Stored, Undisturbed
  <2>3. Prepared(call[t])'
    BY <1>4 DEF Prepared
  <2> QED
    BY <2>2, <2>3 DEF Sound
<1>6. ASSUME NEW u \in Threads \ {t} PROVE Sound(call[u])'
  <2>1. call'[u] = [kind |-> call[u].kind, step |-> call[u].step, old |-> call[u].old,
                    new |-> call[u].new, sure |-> FALSE]
    BY <1>1
  <2>2. /\ call'[u].step = call[u].step /\ call'[u].kind = call[u].kind
        /\ call'[u].old = call[u].old /\ call'[u].new = call[u].new
        /\ ~call'[u].sure
    BY <2>1
  <2>3. Prepared(call[u])
    BY DEF Inductive, Sound
  <2> QED
    BY <2>2, <2>3 DEF Sound, Prepared, Undisturbed, Stored
<1> QED
  BY <1>3, <1>5, <1>6 DEF Inductive, Typed

-----------------------------------------------------------------------------
LEMMA BeginStep ==
  ASSUME Inductive, NEW t \in Threads, NEW kind \in Kinds \ {"none"},
         NEW old \in Rows \cup {NoRow}, NEW new \in Rows \cup {NoRow},
         Begin(t, kind, old, new)
  PROVE  Inductive'
<1> DEFINE c == [kind |-> kind, step |-> FirstStep(kind), old |-> old,
                 new |-> new, sure |-> TRUE]
<1>1. c \in Calls
  BY DEF Calls, Kinds, Steps, FirstStep
<1>2. Sound(c)
  BY DEF Begin, Kinds, FirstStep, Sound, Prepared, Undisturbed, Stored
<1>3. call' = [call EXCEPT ![t] = c] /\ UNCHANGED <<table, crowded>>
  BY DEF Begin
<1> HIDE DEF c
<1> QED
  BY <1>1, <1>2, <1>3, QuietStep

(* A read of the call: the step it goes on to must be sound. *)
LEMMA GoOnStep ==
  ASSUME Inductive, NEW t \in Threads, NEW step \in Steps, NEW old \in Rows \cup {NoRow},
         NEW so \in BOOLEAN, GoOn(t, step, old, so),
         Sound([kind |-> call[t].kind, step |-> step, old |-> old,
                new |-> call[t].new, sure |-> call[t].sure /\ so])
  PROVE  Inductive'
<1> DEFINE c == [kind |-> call[t].kind, step |-> step, old |-> old,
                 new |-> call[t].new, sure |-> call[t].sure /\ so]
<1>1. c \in Calls
  BY DEF Inductive, Typed, Calls
<1>2. Sound(c)
  OBVIOUS
<1>3. call' = [call EXCEPT ![t] = c] /\ UNCHANGED <<table, crowded>>
  BY DEF GoOn
<1> HIDE DEF c
<1> QED
  BY <1>1, <1>2, <1>3, QuietStep

LEMMA ReadGroupStep ==
  ASSUME Inductive, NEW t \in Threads, ReadGroup(t)
  PROVE  Inductive'
<1>1. Sound(call[t]) /\ call[t].step = "read" /\ call[t].new \in Rows
  BY DEF Inductive, ReadGroup, Sound, Prepared
<1>2. CASE GoOn(t, "insert", NoRow, OfGroup(call[t].new.group) = {})
  <2> DEFINE so == OfGroup(call[t].new.group) = {}
  <2>1. so \in BOOLEAN /\ GoOn(t, "insert", NoRow, so)
    BY <1>2
  <2>2. Sound([kind |-> call[t].kind, step |-> "insert", old |-> NoRow,
               new |-> call[t].new, sure |-> call[t].sure /\ so])
    BY <1>1 DEF Sound, Prepared, Undisturbed, Stored
  <2> HIDE DEF so
  <2> QED
    BY <2>1, <2>2, GoOnStep DEF Steps
<1>3. ASSUME NEW rule \in Rules,
             GoOn(t, "find", [group |-> call[t].new.group, rule |-> rule],
                  [group |-> call[t].new.group, rule |-> rule] \in Present)
      PROVE  Inductive'
  <2> DEFINE row == [group |-> call[t].new.group, rule |-> rule]
             so == row \in Present
  <2>1. row \in Rows /\ row.group = call[t].new.group
    BY <1>1 DEF Rows
  <2>2. so \in BOOLEAN /\ GoOn(t, "find", row, so)
    BY <1>3
  <2> HIDE DEF row
  <2>3. Sound([kind |-> call[t].kind, step |-> "find", old |-> row,
               new |-> call[t].new, sure |-> call[t].sure /\ so])
    BY <1>1, <2>1 DEF Sound, Prepared, Undisturbed, Stored
  <2> HIDE DEF so
  <2> QED
    BY <2>1, <2>2, <2>3, GoOnStep DEF Steps
<1> QED
  BY <1>2, <1>3 DEF ReadGroup

LEMMA FindOldStep ==
  ASSUME Inductive, NEW t \in Threads, FindOld(t)
  PROVE  Inductive'
<1> DEFINE old == call[t].old
           there == old \in Present
           gone == old \notin Present
<1>1. Sound(call[t]) /\ call[t].step = "find" /\ old \in Rows
  BY DEF Inductive, FindOld, Sound, Prepared
<1>2. CASE GoOn(t, "overwrite", old, there)
  <2>1. Sound([kind |-> call[t].kind, step |-> "overwrite", old |-> old,
               new |-> call[t].new, sure |-> call[t].sure /\ there])
    BY <1>1 DEF Sound, Prepared, Undisturbed, Stored
  <2>2. there \in BOOLEAN
    OBVIOUS
  <2> HIDE DEF old, there
  <2> QED
    BY <1>1, <1>2, <2>1, <2>2, GoOnStep DEF Steps
<1>3. CASE GoOn(t, "insert", old, gone)
  <2>1. Sound([kind |-> call[t].kind, step |-> "insert", old |-> old,
               new |-> call[t].new, sure |-> call[t].sure /\ gone])
    BY <1>1 DEF Sound, Prepared, Undisturbed, Stored
  <2>2. gone \in BOOLEAN
    OBVIOUS
  <2> HIDE DEF old, gone
  <2> QED
    BY <1>1, <1>3, <2>1, <2>2, GoOnStep DEF Steps
<1> QED
  BY <1>2, <1>3 DEF FindOld

LEMMA InsertStep ==
  ASSUME Inductive, NEW t \in Threads, NEW p \in Places, Insert(t, p)
  PROVE  Inductive'
<1> DEFINE g == call[t].new.group
<1>1. call[t].new \in Rows /\ call[t].new # NoRow /\ g \in Groups /\ Sound(call[t])
  BY SelectorConstants DEF Inductive, Insert, Sound, Prepared, Rows
<1>2. /\ table' \in [Places -> Rows \cup {NoRow}]
      /\ \A r \in Places : table'[r] = IF r = p THEN call[t].new ELSE table[r]
  BY <1>1 DEF Insert, Inductive, Typed
<1>3. call[t].new \in Present'
  BY <1>1, <1>2 DEF Present
<1>4. crowded \subseteq crowded' /\ crowded' \subseteq Groups
  BY <1>1 DEF Insert, Inductive, Typed
<1>5. ASSUME NEW h \in Groups, Several(h)' PROVE h \in crowded'
  <2>1. CASE h # g
    <3>1. OfGroup(h)' = OfGroup(h)
      BY <1>2, <2>1 DEF OfGroup, Insert
    <3>2. Several(h)
      BY <1>5, <3>1 DEF Several
    <3> QED
      BY <1>4, <3>2 DEF Inductive, EditorKeepsOnePerGroup
  <2>2. CASE h = g
    <3>1. OfGroup(h)' \subseteq OfGroup(h) \cup {p}
      BY <1>2 DEF OfGroup
    <3>2. OfGroup(h) # {}
      BY <1>5, <3>1 DEF Several
    <3>3. call[t].kind # "save" \/ ~call[t].sure
      BY <1>1, <2>2, <3>2 DEF Sound, Undisturbed, Insert
    <3> QED
      BY <2>2, <3>2, <3>3 DEF Insert
  <2> QED
    BY <2>1, <2>2
<1>6. Return(t)
  BY DEF Insert
<1> QED
  BY <1>2, <1>3, <1>4, <1>5, <1>6, WriteStep DEF EditorKeepsOnePerGroup

LEMMA OverwriteStep ==
  ASSUME Inductive, NEW t \in Threads, Overwrite(t)
  PROVE  Inductive'
<1>1. call[t].new \in Rows /\ call[t].new # NoRow /\ Sound(call[t]) /\ call[t].step = "overwrite"
  BY SelectorConstants DEF Inductive, Overwrite, Sound, Prepared, Rows
<1>2. /\ table' \in [Places -> Rows \cup {NoRow}]
      /\ \A p \in Places : table'[p] = IF p \in OfGroup(call[t].new.group) THEN call[t].new ELSE table[p]
  BY <1>1 DEF Overwrite, Inductive, Typed
<1>3. ASSUME NEW g \in Groups PROVE OfGroup(g)' = OfGroup(g)
  BY <1>1, <1>2 DEF OfGroup
<1>4. EditorKeepsOnePerGroup' /\ crowded' \subseteq Groups
  BY <1>3 DEF EditorKeepsOnePerGroup, Several, Overwrite, Inductive, Typed
<1>5. ASSUME call[t].sure, Promises(call[t]) PROVE call[t].new \in Present'
  <2>1. call[t].old \in Present
    BY <1>1, <1>5 DEF Sound, Undisturbed
  <2>2. call[t].old.group = call[t].new.group
    BY <1>1, <1>5 DEF Sound, Prepared, Promises
  <2>3. PICK p \in Places : table[p] = call[t].old /\ table[p] # NoRow
    BY <2>1 DEF Present
  <2>4. p \in OfGroup(call[t].new.group)
    BY <2>2, <2>3 DEF OfGroup
  <2> QED
    BY <1>1, <1>2, <2>4 DEF Present
<1>6. Return(t)
  BY DEF Overwrite
<1> QED
  BY <1>2, <1>4, <1>5, <1>6, WriteStep

LEMMA DeleteStep ==
  ASSUME Inductive, NEW t \in Threads, Delete(t)
  PROVE  Inductive'
<1>1. call[t].kind = "delete"
  BY DEF Inductive, Delete, Sound, Prepared
<1>2. /\ table' \in [Places -> Rows \cup {NoRow}]
      /\ \A p \in Places : table'[p] # NoRow => table'[p] = table[p]
  BY DEF Delete, Inductive, Typed
<1>3. ASSUME NEW g \in Groups, Several(g)' PROVE g \in crowded'
  <2>1. OfGroup(g)' \subseteq OfGroup(g)
    BY <1>2 DEF OfGroup
  <2>2. Several(g)
    BY <1>3, <2>1 DEF Several
  <2> QED
    BY <1>3, <2>2 DEF Delete, Inductive, EditorKeepsOnePerGroup
<1>4. crowded' \subseteq Groups /\ Return(t)
  BY DEF Delete, Inductive, Typed
<1>5. ~Promises(call[t])
  BY <1>1 DEF Promises
<1> QED
  BY <1>2, <1>3, <1>4, <1>5, WriteStep DEF EditorKeepsOnePerGroup

-----------------------------------------------------------------------------
LEMMA InitHolds == ASSUME Init PROVE Inductive
<1>1. Idle \in Calls /\ Sound(Idle)
  BY DEF Idle, Calls, Kinds, Steps, Sound, Prepared, Undisturbed, Stored
<1>2. Typed /\ EditorKeepsOnePerGroup
  BY <1>1 DEF Init, Typed, EditorKeepsOnePerGroup
<1>3. \A t \in Threads : call[t] = Idle
  BY DEF Init
<1> QED
  BY <1>1, <1>2, <1>3 DEF Inductive

LEMMA NextHolds == ASSUME Inductive, [Next]_vars PROVE Inductive'
<1>1. CASE UNCHANGED vars
  BY <1>1 DEF vars, Inductive, Typed, EditorKeepsOnePerGroup, Several, OfGroup,
     Sound, Prepared, Undisturbed, Stored, Promises, Present
<1>2. ASSUME NEW t \in Threads, Act(t) PROVE Inductive'
  <2>1. ASSUME NEW kind \in Kinds \ {"none"}, NEW old \in Rows \cup {NoRow},
               NEW new \in Rows \cup {NoRow}, Begin(t, kind, old, new)
        PROVE  Inductive'
    BY <2>1, BeginStep
  <2>2. CASE ReadGroup(t)
    BY <2>2, ReadGroupStep
  <2>3. CASE FindOld(t)
    BY <2>3, FindOldStep
  <2>4. CASE Overwrite(t)
    BY <2>4, OverwriteStep
  <2>5. CASE Delete(t)
    BY <2>5, DeleteStep
  <2>6. ASSUME NEW p \in Places, Insert(t, p) PROVE Inductive'
    BY <2>6, InsertStep
  <2> QED
    BY <1>2, <2>1, <2>2, <2>3, <2>4, <2>5, <2>6 DEF Act
<1> QED
  BY <1>1, <1>2 DEF Next

LEMMA AlwaysInductive == Spec => []Inductive
<1>1. Init => Inductive
  BY InitHolds
<1>2. Inductive /\ [Next]_vars => Inductive'
  BY NextHolds
<1> QED
  BY <1>1, <1>2, PTL DEF Spec

(* Rows and calls stay well typed: no call is without what it needs. *)
THEOREM TypeCorrect == Spec => []TypeOK
<1>1. Inductive => TypeOK
  BY InductiveImplies
<1> QED
  BY <1>1, AlwaysInductive, PTL

(* A call that no other one disturbed, that the query cache told what the  *)
(* table holds, and that does not move the selector to another group, has  *)
(* stored what it returned.                                                *)
THEOREM AlwaysStored == Spec => []AcknowledgedIsStored
<1>1. Inductive => AcknowledgedIsStored
  BY InductiveImplies
<1> QED
  BY <1>1, AlwaysInductive, PTL

(* The editor alone, told the truth by the cache, gives no group a second  *)
(* selector.                                                               *)
THEOREM AlwaysOnePerGroup == Spec => []EditorKeepsOnePerGroup
<1>1. Inductive => EditorKeepsOnePerGroup
  BY InductiveImplies
<1> QED
  BY <1>1, AlwaysInductive, PTL

-----------------------------------------------------------------------------
(* Which step a row disappears in. *)
LEMMA LossStep ==
  ASSUME Inductive, [Next]_vars, NEW row \in Present \ Present'
  PROVE  \E t \in Threads :
           \/ call[t].step = "delete" /\ call[t].old = row
           \/ call[t].step = "overwrite" /\ call[t].new.group = row.group
<1>1. PICK p \in Places : table[p] = row /\ row # NoRow /\ table'[p] # row
  BY DEF Present
<1>2. PICK t \in Threads : Act(t)
  BY <1>1 DEF Next, vars
<1>3. CASE Overwrite(t)
  <2>1. p \in OfGroup(call[t].new.group)
    BY <1>1, <1>3 DEF Overwrite
  <2> QED
    BY <1>1, <1>3, <2>1 DEF Overwrite, OfGroup
<1>4. CASE Delete(t)
  <2>1. table[p] = call[t].old
    BY <1>1, <1>4 DEF Delete
  <2> QED
    BY <1>1, <1>4, <2>1 DEF Delete
<1>5. ASSUME NEW r \in Places, Insert(t, r) PROVE FALSE
  BY <1>1, <1>5 DEF Insert, Inductive, Typed
<1>6. ~UNCHANGED table
  BY <1>1
<1> QED
  BY <1>2, <1>3, <1>4, <1>5, <1>6 DEF Act, Begin, ReadGroup, FindOld, GoOn

(* However calls interleave, a selector is lost only to its deletion or to *)
(* an update of its group.                                                 *)
THEOREM AlwaysLostOnlyToGroup == Spec => LostOnlyToGroup
<1>1. Inductive /\ [Next]_vars =>
        [\A row \in Present \ Present' :
           \E t \in Threads :
             \/ call[t].step = "delete" /\ call[t].old = row
             \/ call[t].step = "overwrite" /\ call[t].new.group = row.group]_vars
  BY LossStep
<1> QED
  BY <1>1, AlwaysInductive, PTL DEF Spec, LostOnlyToGroup
=============================================================================
