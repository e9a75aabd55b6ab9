--------------------------- MODULE EntityEditorProofs ---------------------------
(* Theorems about EntityEditor, for any names, types, databases and bounds. *)
EXTENDS EntityEditor, TLAPS, WellFoundedInduction, FiniteSetTheorems

(* Does a request name the selected type and database?  (The override may  *)
(* have been changed since.)                                               *)
Right(g) == g.type = type /\ (g.schema = override \/ "moved" \in trouble)

(* Is what was loaded of the selected type, and from the selected database?*)
Loaded(x) ==
  /\ x.type = type
  /\ x.from = Place(type, override) \/ trouble \cap {"moved", "crossed"} # {}

(* The selector offers what the list has. *)
Offered ==
  /\ options \subseteq Stored(list.rows)
  /\ list.type = "select" => list.rows = NoRows

(* The last request is the one of the selected type. *)
Requested ==
  \A g \in gets :
    /\ g.type \in Types /\ g.no <= asked
    /\ type # "select" /\ g.no = asked => Right(g)

(* Without a late list, the list and the editor are those of the type. *)
Listed ==
  type # "select" /\ list.type # "select" /\ "late" \notin trouble => Loaded(list)

Edited ==
  editor # Blank => type # "select" /\ ("late" \notin trouble => Loaded(editor))

Inductive == TypeOK /\ Offered /\ Requested /\ Listed /\ Edited /\ SavedAsLoaded

LEMMA TypesDiffer == "select" \notin Types
BY EditorConstants DEF Kinds, Rule

LEMMA NoListTyped == NoList \in Lists
BY EditorConstants DEF NoList, Lists, NoRows, Rows

LEMMA GetIs ==
  ASSUME NEW t \in Types, asked + 1 \in 0..MaxGets, override \in Schemas
  PROVE  /\ Get(t) \in Lists
         /\ Get(t).no = asked + 1 /\ Get(t).type = t /\ Get(t).schema = override
         /\ Get(t).rows = NoRows
<1>1. Get(t).rows = NoRows
  BY DEF Get, NoList
<1> QED
  BY <1>1, NoListTyped DEF Get, Lists

LEMMA Offers ==
  ASSUME NEW l \in Lists, NEW n \in Stored(l.rows)
  PROVE  n \in Names /\ l.rows[n] \in Entities /\ l.rows # NoRows
<1>1. n \in Names /\ l.rows \in Rows /\ l.rows[n] # Nothing
  BY DEF Stored, Lists
<1>2. l.rows[n] \in Entities
  BY <1>1 DEF Rows
<1>3. NoRows[n] = Nothing
  BY <1>1 DEF NoRows
<1> QED
  BY <1>1, <1>2, <1>3

-----------------------------------------------------------------------------
(* Lists: what the page asks for and what arrives. *)

LEMMA ChooseTypeStep ==
  ASSUME Inductive, NEW t \in Types \cup {"select"}, ChooseType(t)
  PROVE  Inductive'
<1>1. /\ list' = NoList /\ options' = {} /\ editor' = Blank /\ trouble' = {}
      /\ type' = t /\ UNCHANGED <<tables, override, posts, impure, changes>>
  BY DEF ChooseType, Render
<1>2. /\ gets' \subseteq Lists /\ asked' \in 0..MaxGets
      /\ Requested'
  <2>1. CASE t = "select"
    BY <2>1, <1>1 DEF ChooseType, Render, Inductive, TypeOK, Requested
  <2>2. CASE t # "select"
    <3>1. /\ asked' = asked + 1 /\ asked' \in 0..MaxGets /\ asked \in Nat
          /\ gets' = gets \cup {Get(t)}
      BY <2>2, EditorConstants DEF ChooseType, Render, Inductive, TypeOK
    <3>2. t \in Types
      BY <2>2
    <3>3. /\ Get(t) \in Lists /\ Get(t).no = asked'
          /\ Get(t).type = t /\ Get(t).schema = override
      BY <3>1, <3>2, GetIs DEF Inductive, TypeOK
    <3>4. gets' \subseteq Lists
      BY <3>1, <3>3 DEF Inductive, TypeOK
    <3>5. ASSUME NEW g \in gets'
          PROVE  /\ g.type \in Types /\ g.no <= asked'
                 /\ type' # "select" /\ g.no = asked' => Right(g)'
      <4>1. CASE g \in gets
        <5>1. g.type \in Types /\ g.no <= asked /\ g.no \in Nat
          BY <4>1, EditorConstants DEF Inductive, Requested, TypeOK, Lists
        <5> QED
          BY <5>1, <3>1
      <4>2. CASE g = Get(t)
        BY <4>2, <3>1, <3>2, <3>3, <1>1 DEF Right
      <4> QED
        BY <4>1, <4>2, <3>1
    <3> QED
      BY <3>1, <3>4, <3>5 DEF Requested
  <2> QED
    BY <2>1, <2>2
<1>3. TypeOK'
  BY <1>1, <1>2, NoListTyped DEF Inductive, TypeOK
<1>4. Offered' /\ Listed' /\ Edited' /\ SavedAsLoaded'
  BY <1>1 DEF Inductive, Offered, Listed, Edited, SavedAsLoaded, NoList
<1> QED
  BY <1>2, <1>3, <1>4 DEF Inductive

LEMMA RefreshStep ==
  ASSUME Inductive, Refresh
  PROVE  Inductive'
BY DEF Inductive, Refresh, TypeOK, Offered, Requested, Listed, Edited,
       SavedAsLoaded, Right, Loaded, Stored

LEMMA OverrideStep ==
  ASSUME Inductive, NEW s \in Schemas, OverrideDatabase(s)
  PROVE  Inductive'
<1>1. TypeOK'
  BY EditorConstants DEF Inductive, OverrideDatabase, TypeOK, Troubles
<1>2. Offered' /\ Requested' /\ Listed' /\ Edited' /\ SavedAsLoaded'
  BY DEF Inductive, OverrideDatabase, Offered, Requested, Listed, Edited,
         SavedAsLoaded, Right, Loaded, Stored
<1> QED
  BY <1>1, <1>2 DEF Inductive

LEMMA ServeStep ==
  ASSUME Inductive, NEW g \in gets, NEW s \in Schemas, Serve(g, s)
  PROVE  Inductive'
<1> DEFINE from == Place(g.type, s)
           h == [g EXCEPT !.served = TRUE, !.from = from, !.rows = tables[g.type][from]]
<1>1. g \in Lists /\ g.type \in Types
  BY DEF Inductive, TypeOK, Requested
<1>2. from \in Schemas
  BY EditorConstants DEF Place
<1>3. tables[g.type][from] \in Rows
  BY <1>1, <1>2 DEF Inductive, TypeOK
<1>4. gets' = (gets \ {g}) \cup {h}
  BY DEF Serve
<1> HIDE DEF from
<1>5. h \in Lists /\ h.no = g.no /\ h.type = g.type /\ h.schema = g.schema
  BY <1>1, <1>2, <1>3 DEF Lists
<1> HIDE DEF h
<1>6. TypeOK'
  BY <1>4, <1>5 DEF Inductive, Serve, TypeOK
<1>7. Requested'
  BY <1>4, <1>5 DEF Inductive, Serve, Requested, Right
<1>8. Offered' /\ Listed' /\ Edited' /\ SavedAsLoaded'
  BY DEF Inductive, Serve, Offered, Listed, Edited, SavedAsLoaded, Loaded, Stored
<1> QED
  BY <1>6, <1>7, <1>8 DEF Inductive

LEMMA ArriveStep ==
  ASSUME Inductive, NEW g \in gets, Arrive(g)
  PROVE  Inductive'
<1>1. g \in Lists /\ g.type \in Types
  BY DEF Inductive, TypeOK, Requested
<1>2. list' = g /\ options' = Stored(g.rows)
  BY DEF Arrive, AjaxEnds
<1>8. trouble' \in SUBSET Troubles /\ trouble \subseteq trouble'
  BY DEF Inductive, Arrive, TypeOK, Troubles
<1>3. TypeOK'
  BY <1>1, <1>2, <1>8 DEF Inductive, Arrive, TypeOK, Stored
<1>4. Offered'
  BY <1>1, <1>2, TypesDiffer DEF Offered, Stored
<1>5. Requested'
  BY <1>8 DEF Inductive, Arrive, Requested, Right
<1>6. Listed'
  <2>1. type # "select" /\ "late" \notin trouble' => Right(g)
    BY DEF Inductive, Arrive, Late, Requested
  <2>2. Crossed(g) => "crossed" \in trouble'
    BY DEF Arrive
  <2> QED
    BY <1>2, <1>8, <2>1, <2>2 DEF Arrive, Crossed, Listed, Right, Loaded
<1>7. Edited' /\ SavedAsLoaded'
  BY <1>8 DEF Inductive, Arrive, Edited, SavedAsLoaded, Loaded
<1> QED
  BY <1>3, <1>4, <1>5, <1>6, <1>7 DEF Inductive

LEMMA FailStep ==
  ASSUME Inductive, NEW g \in gets, Fail(g)
  PROVE  Inductive'
<1>1. TypeOK'
  BY EditorConstants DEF Inductive, Fail, TypeOK, Troubles
<1>2. Offered' /\ Requested' /\ Listed' /\ Edited' /\ SavedAsLoaded'
  BY DEF Inductive, Fail, Offered, Requested, Listed, Edited,
         SavedAsLoaded, Right, Loaded, Stored
<1> QED
  BY <1>1, <1>2 DEF Inductive

-----------------------------------------------------------------------------
(* The editor and the saves. *)

LEMMA PickStep ==
  ASSUME Inductive, NEW n \in Names, Pick(n)
  PROVE  Inductive'
<1> DEFINE e == [entity |-> list.rows[n], name |-> n,
                 type |-> list.type, from |-> list.from]
<1>1. list \in Lists /\ n \in Stored(list.rows)
  BY DEF Inductive, TypeOK, Offered, Pick
<1>2. list.rows[n] \in Entities /\ list.rows # NoRows
  BY <1>1, Offers
<1>3. list.type \in Types /\ list.type # "select"
  BY <1>1, <1>2, TypesDiffer DEF Inductive, Offered, Lists
<1>4. e \in Edits
  BY <1>1, <1>2, <1>3 DEF Edits, Lists
<1>5. editor' = Blank \/ (editor' = e /\ type # "select")
  BY DEF Pick
<1>6. e.type = list.type /\ e.from = list.from
  OBVIOUS
<1> HIDE DEF e
<1>7. TypeOK'
  BY <1>4, <1>5 DEF Inductive, Pick, TypeOK
<1>8. Edited'
  BY <1>3, <1>5, <1>6 DEF Inductive, Pick, Listed, Edited, Loaded
<1>9. Offered' /\ Requested' /\ Listed' /\ SavedAsLoaded'
  BY DEF Inductive, Pick, Offered, Requested, Listed, SavedAsLoaded, Right, Loaded, Stored
<1> QED
  BY <1>7, <1>8, <1>9 DEF Inductive

LEMMA EditStep ==
  ASSUME Inductive, NEW active \in {"true", "false"}, Edit(active)
  PROVE  Inductive'
<1>1. editor \in Edits /\ editor # Blank
  BY DEF Inductive, TypeOK, Edit
<1>2. editor' = [editor EXCEPT !.entity.active = active]
  BY DEF Edit
<1>3. editor' \in Edits /\ editor'.type = editor.type /\ editor'.from = editor.from
  BY <1>1, <1>2 DEF Edits, Entities
<1>4. TypeOK'
  BY <1>3, EditorConstants DEF Inductive, Edit, TypeOK
<1>5. Edited'
  BY <1>1, <1>3 DEF Inductive, Edit, Edited, Loaded
<1>6. Offered' /\ Requested' /\ Listed' /\ SavedAsLoaded'
  BY DEF Inductive, Edit, Offered, Requested, Listed, SavedAsLoaded, Right, Loaded, Stored
<1> QED
  BY <1>4, <1>5, <1>6 DEF Inductive

LEMMA SubmitStep ==
  ASSUME Inductive, Submit
  PROVE  Inductive'
<1> DEFINE p == [edit |-> editor, type |-> type, schema |-> override, trouble |-> trouble]
<1>1. posts' = posts \cup {p} /\ UNCHANGED <<tables, page, impure>>
  BY DEF Submit
<1>2. p \in Saves
  BY DEF Inductive, TypeOK, Submit, Saves
<1>3. TypeOK'
  BY <1>1, <1>2, EditorConstants DEF Inductive, Submit, page, TypeOK
<1>4. SavedAsLoaded'
  <2>1. /\ p.edit.type # p.type => "late" \in p.trouble
        /\ p.edit.from # Place(p.type, p.schema) =>
             p.trouble \cap {"late", "moved", "crossed"} # {}
    BY DEF Inductive, Submit, Edited, Loaded
  <2> QED
    BY <1>1, <2>1 DEF Inductive, SavedAsLoaded
<1>5. Offered' /\ Requested' /\ Listed' /\ Edited'
  BY <1>1 DEF Inductive, page, Offered, Requested, Listed, Edited, Right, Loaded, Stored
<1> QED
  BY <1>3, <1>4, <1>5 DEF Inductive

LEMMA SaveStep ==
  ASSUME Inductive, NEW p \in posts, Save(p)
  PROVE  Inductive'
<1>1. posts' = posts \ {p} /\ UNCHANGED <<page, changes>>
  BY DEF Save, AjaxEnds
<1>2. p \in Saves
  BY DEF Inductive, TypeOK
<1>3. tables' \in [Types -> [Schemas -> Rows]] /\ impure' \subseteq {"saved", "added"}
  <2>1. CASE Accepts(p.type, p.edit.entity)
    <3> DEFINE s == Place(p.type, p.schema)
    <3>1. p.type \in Types /\ p.edit.name \in Names /\ p.edit.entity \in Entities
      BY <1>2 DEF Saves, Edits
    <3>2. s \in Schemas
      BY <1>2, EditorConstants DEF Place, Saves
    <3>3. tables[p.type][s] \in Rows /\ tables[p.type] \in [Schemas -> Rows]
      BY <3>1, <3>2 DEF Inductive, TypeOK
    <3>4. [tables[p.type][s] EXCEPT ![p.edit.name] = p.edit.entity] \in Rows
      BY <3>1, <3>3 DEF Rows
    <3>5. tables' = [tables EXCEPT ![p.type][s][p.edit.name] = p.edit.entity]
      BY <2>1 DEF Save
    <3>6. impure' = impure \/ impure' = impure \cup {"saved"}
      BY <2>1 DEF Save
    <3> HIDE DEF s
    <3>7. tables' \in [Types -> [Schemas -> Rows]]
      BY <3>1, <3>2, <3>3, <3>4, <3>5 DEF Inductive, TypeOK
    <3> QED
      BY <3>6, <3>7 DEF Inductive, TypeOK
  <2>2. CASE ~Accepts(p.type, p.edit.entity)
    BY <2>2 DEF Save, Inductive, TypeOK
  <2> QED
    BY <2>1, <2>2
<1>4. TypeOK'
  BY <1>1, <1>3, EditorConstants DEF Inductive, page, TypeOK
<1>5. Offered' /\ Requested' /\ Listed' /\ Edited' /\ SavedAsLoaded'
  BY <1>1 DEF Inductive, page, Offered, Requested, Listed, Edited,
              SavedAsLoaded, Right, Loaded, Stored
<1> QED
  BY <1>4, <1>5 DEF Inductive

-----------------------------------------------------------------------------
(* The rules' own resource leaves the page alone. *)

LEMMA RuleStep ==
  ASSUME Inductive, NEW n \in Names,
         DeleteRule(n) \/ \E e \in Entities : AddRule(n, e)
  PROVE  Inductive'
<1> DEFINE Changed(x) == tables' = [tables EXCEPT ![Rule][Default][n] = x]
<1>1. /\ Rule \in Types /\ UNCHANGED <<page, posts>> /\ changes' \in 0..MaxChanges
      /\ impure' \subseteq {"saved", "added"}
      /\ \E x \in Entities \cup {Nothing} : Changed(x)
  <2>1. CASE DeleteRule(n)
    <3>1. Changed(Nothing)
      BY <2>1 DEF DeleteRule
    <3> HIDE DEF Changed
    <3> QED
      BY <2>1, <3>1, EditorConstants DEF Inductive, TypeOK, DeleteRule
  <2>2. CASE \E e \in Entities : AddRule(n, e)
    <3>1. PICK e \in Entities : AddRule(n, e)
      BY <2>2
    <3>2. Changed(e)
      BY <3>1 DEF AddRule
    <3>3. impure' = impure \/ impure' = impure \cup {"added"}
      BY <3>1 DEF AddRule
    <3>4. impure' \subseteq {"saved", "added"}
      BY <3>3 DEF Inductive, TypeOK
    <3> HIDE DEF Changed
    <3> QED
      BY <3>1, <3>2, <3>4, EditorConstants DEF Inductive, TypeOK, AddRule
  <2> QED
    BY <2>1, <2>2
<1>2. tables' \in [Types -> [Schemas -> Rows]]
  <2>1. PICK x \in Entities \cup {Nothing} :
             tables' = [tables EXCEPT ![Rule][Default][n] = x]
    BY <1>1
  <2>2. tables[Rule] \in [Schemas -> Rows] /\ tables[Rule][Default] \in Rows
    BY <1>1, EditorConstants DEF Inductive, TypeOK
  <2>3. [tables[Rule][Default] EXCEPT ![n] = x] \in Rows
    BY <2>2 DEF Rows
  <2> QED
    BY <1>1, <2>1, <2>2, <2>3, EditorConstants DEF Inductive, TypeOK
<1>3. TypeOK'
  BY <1>1, <1>2 DEF Inductive, page, TypeOK
<1>4. Offered' /\ Requested' /\ Listed' /\ Edited' /\ SavedAsLoaded'
  BY <1>1 DEF Inductive, page, Offered, Requested, Listed, Edited,
              SavedAsLoaded, Right, Loaded, Stored
<1> QED
  BY <1>3, <1>4 DEF Inductive

-----------------------------------------------------------------------------
(* Every step. *)

LEMMA StutterStep ==
  ASSUME Inductive, UNCHANGED vars
  PROVE  Inductive'
<1>1. TypeOK'
  BY EditorConstants DEF Inductive, vars, page, TypeOK
<1>2. Offered' /\ Requested' /\ Listed' /\ Edited' /\ SavedAsLoaded'
  BY DEF Inductive, vars, page, Offered, Requested, Listed, Edited,
         SavedAsLoaded, Right, Loaded, Stored
<1> QED
  BY <1>1, <1>2 DEF Inductive

LEMMA InductiveStep ==
  ASSUME Inductive, [Next]_vars
  PROVE  Inductive'
BY ChooseTypeStep, RefreshStep, OverrideStep, ServeStep, ArriveStep, FailStep,
   PickStep, EditStep, SubmitStep, SaveStep, RuleStep, StutterStep DEF Next

LEMMA InitStep ==
  ASSUME Init
  PROVE  Inductive
<1>1. \A t \in Types : Fresh(t) \in Entities
  BY EditorConstants DEF Fresh, Entities, Kinds
<1>2. tables \in [Types -> [Schemas -> Rows]]
  BY <1>1 DEF Init, Rows, NoRows
<1>3. TypeOK
  BY <1>2, NoListTyped, EditorConstants DEF Init, TypeOK
<1>4. Offered /\ Requested /\ Listed /\ Edited /\ SavedAsLoaded
  BY DEF Init, NoList, Offered, Requested, Listed, Edited, SavedAsLoaded
<1> QED
  BY <1>3, <1>4 DEF Inductive

(* The state stays well-typed, in every behaviour of the page and the      *)
(* resources behind it.                                                    *)
THEOREM TypeCorrect == Spec => []TypeOK
<1>1. Inductive => TypeOK
  BY DEF Inductive
<1> QED
  BY InitStep, InductiveStep, <1>1, PTL DEF Spec

(* A save of the editor goes back to the table and the database the entity *)
(* was loaded from, unless a list arrived late, the override was changed   *)
(* or the query cache answered with another database's list:               *)
(* renderEntitySelector clears the editor on every other way.              *)
THEOREM AlwaysSavedAsLoaded == Spec => []SavedAsLoaded
<1>1. Inductive => SavedAsLoaded
  BY DEF Inductive
<1> QED
  BY InitStep, InductiveStep, <1>1, PTL DEF Spec

-----------------------------------------------------------------------------
(* Which entities get among the rules. *)

(* An entity that is taken for a rule is one, and says "active". *)
Clean(x) == x.kind = Rule /\ x.active # "absent"

AllClean(t, rows) == t = Rule => \A n \in Stored(rows) : Clean(rows[n])

(* As long as nothing foreign was saved or added, the rules are clean      *)
(* wherever they are: stored, listed, on their way, edited or being saved. *)
Pure ==
  impure = {} =>
    /\ Rule \in Types => AllClean(Rule, tables[Rule][Default])
    /\ AllClean(list.type, list.rows)
    /\ \A g \in gets : AllClean(g.type, g.rows)
    /\ editor # Blank => (editor.type = Rule => Clean(editor.entity))
    /\ \A p \in posts : p.edit.type = Rule => Clean(p.edit.entity)

(* While Pure, no request is routed by its header. *)
HeaderOnlyIfImpure ==
  impure = {} /\ Rule \in Types =>
    \A matching \in SUBSET Names :
      FindRoutingGroup(tables[Rule][Default], matching, "header's").by = "rules"

LEMMA NoRowsClean == \A t : AllClean(t, NoRows)
BY DEF AllClean, Stored, NoRows

LEMMA PageKeepsPure ==
  ASSUME Inductive, Pure,
         \/ \E t \in Types \cup {"select"} : ChooseType(t)
         \/ Refresh
         \/ \E s \in Schemas : OverrideDatabase(s)
         \/ \E g \in gets : Arrive(g) \/ Fail(g)
  PROVE  Pure'
<1>1. UNCHANGED <<tables, posts, impure>>
  BY DEF ChooseType, Refresh, OverrideDatabase, Arrive, Fail
<1>2. editor' \in {editor, Blank}
  BY DEF ChooseType, Render, Refresh, OverrideDatabase, Arrive, Fail
<1>3. list' \in {list, NoList} \cup gets
  BY DEF ChooseType, Render, Refresh, OverrideDatabase, Arrive, Fail, AjaxEnds
<1>4. \A g \in gets' : g \in gets \/ g.rows = NoRows
  <2>1. CASE \E t \in Types : ChooseType(t)
    <3>1. PICK t \in Types : ChooseType(t)
      BY <2>1
    <3>2. asked + 1 \in 0..MaxGets /\ gets' = gets \cup {Get(t)}
      BY <3>1, TypesDiffer, EditorConstants DEF ChooseType, Render, Inductive, TypeOK
    <3> QED
      BY <3>2, GetIs DEF Inductive, TypeOK
  <2>2. CASE ~\E t \in Types : ChooseType(t)
    BY <2>2 DEF ChooseType, Render, Refresh, OverrideDatabase, Arrive, Fail
  <2> QED
    BY <2>1, <2>2
<1>5. NoList.rows = NoRows
  BY DEF NoList
<1> QED
  BY <1>1, <1>2, <1>3, <1>4, <1>5, NoRowsClean DEF Pure

LEMMA ServeKeepsPure ==
  ASSUME Inductive, Pure, NEW g \in gets, NEW s \in Schemas, Serve(g, s)
  PROVE  Pure'
<1> DEFINE from == Place(g.type, s)
           h == [g EXCEPT !.served = TRUE, !.from = from, !.rows = tables[g.type][from]]
<1>1. g \in Lists /\ g.type \in Types
  BY DEF Inductive, TypeOK, Requested
<1>2. h.type = g.type /\ h.rows = tables[g.type][from]
  BY <1>1 DEF Lists
<1>3. g.type = Rule => from = Default
  BY DEF Place, Rule
<1>4. gets' = (gets \ {g}) \cup {h}
  BY DEF Serve
<1> HIDE DEF h, from
<1>5. Pure => (impure = {} => AllClean(h.type, h.rows))
  BY <1>1, <1>2, <1>3 DEF Pure, AllClean
<1> QED
  BY <1>4, <1>5 DEF Pure, Serve

LEMMA PickKeepsPure ==
  ASSUME Inductive, Pure, NEW n \in Names, Pick(n)
  PROVE  Pure'
<1>1. n \in Stored(list.rows)
  BY DEF Inductive, Offered, Pick
<1>2. editor' # Blank => editor'.type = list.type /\ editor'.entity = list.rows[n]
  BY DEF Pick
<1>3. impure = {} => (editor' # Blank => (editor'.type = Rule => Clean(editor'.entity)))
  BY <1>1, <1>2 DEF Pure, AllClean
<1> QED
  BY <1>3 DEF Pure, Pick

LEMMA EditKeepsPure ==
  ASSUME Inductive, Pure, NEW active \in {"true", "false"}, Edit(active)
  PROVE  Pure'
<1>1. editor \in Edits /\ editor # Blank
  BY DEF Inductive, TypeOK, Edit
<1>2. editor' = [editor EXCEPT !.entity.active = active]
  BY DEF Edit
<1>3. /\ editor'.type = editor.type /\ editor'.entity.kind = editor.entity.kind
      /\ editor'.entity.active = active
  BY <1>1, <1>2 DEF Edits, Entities
<1>4. impure = {} => (editor'.type = Rule => Clean(editor'.entity))
  BY <1>1, <1>3 DEF Pure, Clean
<1> QED
  BY <1>4 DEF Pure, Edit

LEMMA SubmitKeepsPure ==
  ASSUME Inductive, Pure, Submit
  PROVE  Pure'
<1> DEFINE p == [edit |-> editor, type |-> type, schema |-> override, trouble |-> trouble]
<1>1. posts' = posts \cup {p} /\ UNCHANGED <<tables, page, impure>>
  BY DEF Submit
<1>2. p.edit = editor /\ editor # Blank
  BY DEF Submit
<1> HIDE DEF p
<1> QED
  BY <1>1, <1>2 DEF Pure, page

LEMMA SaveKeepsPure ==
  ASSUME Inductive, Pure, NEW p \in posts, Save(p)
  PROVE  Pure'
<1> DEFINE s == Place(p.type, p.schema)
<1>1. posts' = posts \ {p} /\ UNCHANGED page
  BY DEF Save, AjaxEnds
<1>2. /\ p \in Saves /\ p.type \in Types /\ p.edit.name \in Names
      /\ s \in Schemas /\ (p.type = Rule => s = Default)
  BY EditorConstants DEF Inductive, TypeOK, Saves, Edits, Place, Rule
<1>3. CASE Accepts(p.type, p.edit.entity)
  <2>1. tables' = [tables EXCEPT ![p.type][s][p.edit.name] = p.edit.entity]
    BY <1>3 DEF Save
  <2>2. impure' = IF p.type = Rule /\ p.edit.type # Rule
                  THEN impure \cup {"saved"} ELSE impure
    BY <1>3 DEF Save
  <2> HIDE DEF s
  <2>3. ASSUME impure' = {}, Rule \in Types, NEW n \in Stored(tables'[Rule][Default])
        PROVE  Clean(tables'[Rule][Default][n])
    <3>1. impure = {} /\ (p.type = Rule => p.edit.type = Rule)
      BY <2>2, <2>3
    <3>2. tables[Rule] \in [Schemas -> Rows] /\ tables[Rule][Default] \in Rows
      BY <2>3, EditorConstants DEF Inductive, TypeOK
    <3>3. CASE p.type = Rule /\ n = p.edit.name
      <4>1. tables'[Rule][Default][n] = p.edit.entity
        BY <1>2, <2>1, <3>2, <3>3, EditorConstants DEF Inductive, TypeOK, Rows
      <4> QED
        BY <3>1, <3>3, <4>1 DEF Pure
    <3>4. CASE ~(p.type = Rule /\ n = p.edit.name)
      <4>1. tables'[Rule][Default][n] = tables[Rule][Default][n]
        <5>1. CASE p.type # Rule
          BY <1>2, <2>1, <2>3, <5>1 DEF Inductive, TypeOK
        <5>2. CASE p.type = Rule /\ n # p.edit.name
          <6>1. tables' = [tables EXCEPT ![Rule][Default][p.edit.name] = p.edit.entity]
            BY <1>2, <2>1, <5>2
          <6>2. n \in Names
            BY DEF Stored
          <6> QED
            BY <6>1, <6>2, <5>2, <2>3, <3>2, EditorConstants DEF Inductive, TypeOK, Rows
        <5> QED
          BY <3>4, <5>1, <5>2
      <4>2. n \in Stored(tables[Rule][Default])
        BY <4>1 DEF Stored
      <4> QED
        BY <2>3, <3>1, <4>1, <4>2 DEF Pure, AllClean
    <3> QED
      BY <3>3, <3>4
  <2>4. impure' = {} => (Rule \in Types => AllClean(Rule, tables'[Rule][Default]))
    BY <2>3 DEF AllClean
  <2>5. impure' = {} => impure = {}
    BY <2>2
  <2> QED
    BY <1>1, <2>4, <2>5 DEF Pure, page
<1>4. CASE ~Accepts(p.type, p.edit.entity)
  BY <1>1, <1>4 DEF Save, Pure, page
<1> QED
  BY <1>3, <1>4

LEMMA RulesKeepPure ==
  ASSUME Inductive, Pure, NEW n \in Names,
         DeleteRule(n) \/ \E e \in Entities : AddRule(n, e)
  PROVE  Pure'
<1>1. Rule \in Types /\ UNCHANGED <<page, posts>>
  BY DEF DeleteRule, AddRule
<1>2. tables[Rule] \in [Schemas -> Rows] /\ tables[Rule][Default] \in Rows
  BY <1>1, EditorConstants DEF Inductive, TypeOK
<1>3. PICK x : /\ tables' = [tables EXCEPT ![Rule][Default][n] = x]
               /\ impure' = {} => impure = {} /\ (x = Nothing \/ Clean(x))
  BY DEF DeleteRule, AddRule, Clean
<1>4. \A m \in Names :
        tables'[Rule][Default][m] = IF m = n THEN x ELSE tables[Rule][Default][m]
  BY <1>1, <1>2, <1>3, EditorConstants DEF Inductive, TypeOK, Rows
<1>5. impure' = {} => AllClean(Rule, tables'[Rule][Default])
  BY <1>1, <1>3, <1>4 DEF Pure, AllClean, Stored
<1> QED
  BY <1>1, <1>3, <1>5 DEF Pure, page

LEMMA PureStep ==
  ASSUME Inductive, Pure, [Next]_vars
  PROVE  Pure'
<1>1. CASE UNCHANGED vars
  BY <1>1 DEF vars, page, Pure
<1> QED
  BY <1>1, PageKeepsPure, ServeKeepsPure, PickKeepsPure, EditKeepsPure,
     SubmitKeepsPure, SaveKeepsPure, RulesKeepPure DEF Next

LEMMA InitPure ==
  ASSUME Init
  PROVE  Pure
<1>1. Clean(Fresh(Rule))
  BY DEF Clean, Fresh
<1>2. Rule \in Types => AllClean(Rule, tables[Rule][Default])
  BY <1>1, EditorConstants DEF Init, AllClean, Stored, Place, Rule
<1>3. AllClean(list.type, list.rows)
  BY NoRowsClean DEF Init, NoList
<1> QED
  BY <1>2, <1>3 DEF Init, Pure

-----------------------------------------------------------------------------
(* What the engine's key holds after each rule.                            *)

(* A set that holds 0 and the successor of each of its naturals holds all. *)
LEMMA SetInduction ==
  ASSUME NEW S, 0 \in S, \A n \in Nat : n \in S => n + 1 \in S
  PROVE  Nat \subseteq S
<1> DEFINE Out == Nat \ S
<1> SUFFICES ASSUME Out # {} PROVE FALSE
  OBVIOUS
<1>1. PICK x \in Out : \A y \in Out : ~(<<y, x>> \in OpToRel(<, Nat))
  <2>1. Out \subseteq Nat
    OBVIOUS
  <2> HIDE DEF Out
  <2> QED
    BY <2>1, NatLessThanWellFounded, WFMin
<1>2. x \in Nat /\ x # 0 /\ x - 1 \in Nat /\ x - 1 < x
  OBVIOUS
<1>3. <<x - 1, x>> \in OpToRel(<, Nat)
  BY <1>2, Zenon DEF OpToRel
<1>4. x - 1 \in S
  BY <1>1, <1>2, <1>3
<1> QED
  BY <1>2, <1>4

Groups == Names \cup {NoGroup}

(* The key's value at a place of the order, after that at the place before.*)
GroupAfter(rules, matching, before, place) ==
  IF FiringAt(rules, matching, place) = {} THEN before
  ELSE CHOOSE n \in FiringAt(rules, matching, place) : TRUE

(* The values g at the places up to k are those of rules fired in order.   *)
FiredInOrder(rules, matching, g, k) ==
  /\ g[0] = NoGroup
  /\ \A place \in 1..k : g[place] = GroupAfter(rules, matching, g[place - 1], place)

LEMMA FiringExists ==
  ASSUME NEW rules, NEW matching, NEW k \in Nat
  PROVE  \E g \in [0..k -> Groups] : FiredInOrder(rules, matching, g, k)
<1> DEFINE S == {j \in Nat : \E g \in [0..j -> Groups] : FiredInOrder(rules, matching, g, j)}
<1>1. 0 \in S
  <2> DEFINE g == [i \in 0..0 |-> NoGroup]
  <2>1. g \in [0..0 -> Groups] /\ g[0] = NoGroup
    BY DEF Groups
  <2> HIDE DEF g
  <2> QED
    BY <2>1 DEF FiredInOrder
<1>2. ASSUME NEW j \in Nat, j \in S PROVE j + 1 \in S
  <2>2. PICK f \in [0..j -> Groups] : FiredInOrder(rules, matching, f, j)
    BY <1>2
  <2> DEFINE last == GroupAfter(rules, matching, f[j], j + 1)
             g == [i \in 0..(j + 1) |-> IF i = j + 1 THEN last ELSE f[i]]
  <2>1. last \in Groups
    BY DEF GroupAfter, FiringAt, ActiveRules, Stored, Groups
  <2> HIDE DEF last
  <2>3. /\ g \in [0..(j + 1) -> Groups]
        /\ \A i \in 0..j : g[i] = f[i]
        /\ g[j + 1] = last
    BY <2>1
  <2> HIDE DEF g
  <2>4. g[0] = NoGroup
    BY <2>2, <2>3 DEF FiredInOrder
  <2>5. ASSUME NEW i \in 1..(j + 1)
        PROVE  g[i] = GroupAfter(rules, matching, g[i - 1], i)
    <3>1. CASE i = j + 1
      BY <2>3, <3>1 DEF last
    <3>2. CASE i # j + 1
      <4>1. i \in 1..j /\ i \in 0..j /\ i - 1 \in 0..j
        BY <3>2
      <4> QED
        BY <2>2, <2>3, <4>1 DEF FiredInOrder
    <3> QED
      BY <3>1, <3>2
  <2>6. FiredInOrder(rules, matching, g, j + 1)
    BY <2>4, <2>5 DEF FiredInOrder
  <2> QED
    BY <2>3, <2>6
<1>3. Nat \subseteq S
  <2> HIDE DEF S
  <2> QED
    BY <1>1, <1>2, SetInduction
<1> QED
  BY <1>3

(* The recursive function of Fire has those values.                        *)
LEMMA FireInOrder ==
  ASSUME NEW rules, NEW matching
  PROVE  FiredInOrder(rules, matching, Fire(rules, matching), Cardinality(Names))
<1> DEFINE N == Cardinality(Names)
           From(e) == [place \in 0..N |->
                         IF place = 0 THEN NoGroup
                         ELSE IF FiringAt(rules, matching, place) = {}
                              THEN e[place - 1]
                              ELSE CHOOSE n \in FiringAt(rules, matching, place) : TRUE]
           fire == Fire(rules, matching)
<1>1. N \in Nat
  BY RuleConstants, FS_CardinalityType
<1>3. PICK f \in [0..N -> Groups] : FiredInOrder(rules, matching, f, N)
  BY <1>1, FiringExists
<1>4. f = From(f)
  <2>1. DOMAIN f = 0..N /\ f = [place \in 0..N |-> f[place]]
    OBVIOUS
  <2>2. ASSUME NEW place \in 0..N
        PROVE  f[place] = From(f)[place]
    <3>1. place # 0 => place \in 1..N
      BY <1>1
    <3> QED
      BY <1>3, <3>1 DEF FiredInOrder, GroupAfter
  <2> QED
    BY <2>1, <2>2
<1>5. fire = From(fire)
  <2>1. fire = CHOOSE g : g = From(g)
    BY Zenon DEF Fire
  <2> HIDE DEF fire, From
  <2> QED
    BY <1>4, <2>1, Zenon
<1> HIDE DEF fire
<1>6. ASSUME NEW e, NEW g, g = From(e)
      PROVE  /\ g[0] = NoGroup
             /\ \A place \in 1..N : g[place] = GroupAfter(rules, matching, e[place - 1], place)
  BY <1>1, <1>6 DEF GroupAfter
<1> HIDE DEF From
<1>7. FiredInOrder(rules, matching, fire, N)
  BY <1>5, <1>6, Zenon DEF FiredInOrder
<1> QED
  BY <1>7, Zenon DEF fire, N

(* After each place of the order the key holds the group of the firing rule*)
(* of the greatest priority so far, or none.                               *)
LEMMA GreatestSoFar ==
  ASSUME NEW rules, NEW matching, NEW k \in Nat, NEW g, FiredInOrder(rules, matching, g, k)
  PROVE  LET firing == {n \in ActiveRules(rules) \cap matching : Priority[n] <= k}
         IN \/ firing = {} /\ g[k] = NoGroup
            \/ /\ g[k] \in firing
               /\ \A n \in firing : Priority[n] <= Priority[g[k]]
<1> DEFINE Firing(j) == {n \in ActiveRules(rules) \cap matching : Priority[n] <= j}
           Done(j) == \/ Firing(j) = {} /\ g[j] = NoGroup
                      \/ /\ g[j] \in Firing(j)
                         /\ \A n \in Firing(j) : Priority[n] <= Priority[g[j]]
           S == {j \in Nat : j <= k => Done(j)}
<1>1. \A n \in ActiveRules(rules) : Priority[n] \in Nat /\ Priority[n] > 0
  BY RuleConstants, FS_CardinalityType DEF ActiveRules, Stored
<1>2. 0 \in S
  BY <1>1 DEF FiredInOrder
<1>3. ASSUME NEW j \in Nat, j \in S PROVE j + 1 \in S
  <2> SUFFICES ASSUME j + 1 <= k PROVE Done(j + 1)
    OBVIOUS
  <2>1. Done(j)
    BY <1>3
  <2>2. g[j + 1] = GroupAfter(rules, matching, g[j], j + 1)
    <3>1. j + 1 \in 1..k /\ (j + 1) - 1 = j
      OBVIOUS
    <3> QED
      BY <3>1 DEF FiredInOrder
  <2> DEFINE here == FiringAt(rules, matching, j + 1)
  <2>3. Firing(j + 1) = Firing(j) \cup here
    BY <1>1 DEF FiringAt
  <2>4. CASE here = {}
    <3>1. g[j + 1] = g[j] /\ Firing(j + 1) = Firing(j)
      BY <2>2, <2>3, <2>4 DEF GroupAfter
    <3> QED
      BY <2>1, <3>1
  <2>5. CASE here # {}
    <3>1. g[j + 1] \in here
      BY <2>2, <2>5 DEF GroupAfter
    <3>2. g[j + 1] \in Firing(j + 1) /\ Priority[g[j + 1]] = j + 1
      BY <2>3, <3>1 DEF FiringAt
    <3> QED
      BY <3>2
  <2> QED
    BY <2>4, <2>5
<1>4. k \in S
  <2> HIDE DEF S
  <2> QED
    BY <1>2, <1>3, SetInduction
<1> QED
  BY <1>4

(* Fire gives the group of the matching rule of the greatest priority.     *)
LEMMA GreatestDecides ==
  ASSUME NEW rules, NEW matching
  PROVE  LET firing == ActiveRules(rules) \cap matching
             group  == Fire(rules, matching)[Cardinality(Names)]
         IN \/ firing = {} /\ group = NoGroup
            \/ group \in firing /\ \A n \in firing : Priority[n] <= Priority[group]
<1>1. Cardinality(Names) \in Nat
  BY RuleConstants, FS_CardinalityType
<1>2. {n \in ActiveRules(rules) \cap matching : Priority[n] <= Cardinality(Names)}
        = ActiveRules(rules) \cap matching
  BY <1>1, RuleConstants DEF ActiveRules, Stored
<1> QED
  BY <1>1, <1>2, FireInOrder, GreatestSoFar

(* Rules that are all clean can be read and created. *)
LEMMA PureRouting ==
  ASSUME Pure
  PROVE  HeaderOnlyIfImpure
<1>1. ASSUME NEW rules, AllClean(Rule, rules)
      PROVE  Readable(rules) /\ Creatable(rules)
  BY <1>1 DEF AllClean, Clean, Readable, Creatable, ActiveRules, Stored
<1>2. ASSUME NEW rules, NEW matching, AllClean(Rule, rules)
      PROVE  FindRoutingGroup(rules, matching, "header's").by = "rules"
  BY <1>1, <1>2 DEF FindRoutingGroup
<1> QED
  BY <1>2 DEF Pure, HeaderOnlyIfImpure

LEMMA DecidedByRules ==
  ASSUME HeaderOnlyIfImpure
  PROVE  RulesDecide
<1> SUFFICES ASSUME Rule \in Types, NEW matching \in SUBSET Names
             PROVE  LET rules == tables[Rule][Default]
                        found == FindRoutingGroup(rules, matching, "header's")
                        firing == ActiveRules(rules) \cap matching
                    IN IF found.by = "header" THEN impure # {}
                       ELSE \/ firing = {} /\ found.group = NoGroup
                            \/ /\ found.group \in firing
                               /\ \A n \in firing : Priority[n] <= Priority[found.group]
  BY DEF RulesDecide
<1> DEFINE rules == tables[Rule][Default]
           found == FindRoutingGroup(rules, matching, "header's")
           group == Fire(rules, matching)[Cardinality(Names)]
           firing == ActiveRules(rules) \cap matching
<1>1. CASE found.by = "header"
  BY <1>1 DEF HeaderOnlyIfImpure
<1>2. CASE found.by # "header"
  <2>1. found.group = group
    <3> HIDE DEF group
    <3> QED
      BY <1>2 DEF FindRoutingGroup, group
  <2>2. \/ firing = {} /\ group = NoGroup
        \/ group \in firing /\ \A n \in firing : Priority[n] <= Priority[group]
    BY GreatestDecides
  <2> HIDE DEF rules, found, firing, group
  <2>3. IF found.by = "header" THEN impure # {}
        ELSE \/ firing = {} /\ found.group = NoGroup
             \/ /\ found.group \in firing
                /\ \A n \in firing : Priority[n] <= Priority[found.group]
    BY <1>2, <2>1, <2>2
  <2> QED
    BY <2>3, Zenon DEF rules, found, firing
<1> QED
  BY <1>1, <1>2

(* Whatever the administrators do, findRoutingGroup gives every request the*)
(* group of the matching active rule of the greatest priority; it falls    *)
(* back on the header only after an entity of another type was saved among *)
(* the rules, or one was added without "active".                           *)
THEOREM RulesAlwaysDecide == Spec => []RulesDecide
<1>1. Pure => RulesDecide
  BY PureRouting, DecidedByRules
<1>2. Init => Inductive /\ Pure
  BY InitStep, InitPure
<1>3. Inductive /\ Pure /\ [Next]_vars => Inductive' /\ Pure'
  BY InductiveStep, PureStep
<1> QED
  BY <1>1, <1>2, <1>3, PTL DEF Spec
=============================================================================
