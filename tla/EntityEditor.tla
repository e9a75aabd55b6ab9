------------------------------ MODULE EntityEditor ------------------------------
(***************************************************************************)
(* The page on which an administrator edits entities, and what becomes of  *)
(* its saves.  The page asks for the entities of the selected type and     *)
(* goes on without waiting; answers come in any order.  A save names the   *)
(* type and the database that are selected when it is sent.                *)
(***************************************************************************)
EXTENDS RoutingRules

CONSTANTS Types,       \* the types the administrator uses
          Schemas,     \* databases that can be named in "Override the Database"
          Default,     \* the gateway's own database
          Blank,       \* nothing in the editor
          MaxGets,     \* bound on the requests for lists
          MaxChanges   \* bound on edits, saves and other administrators' changes

ASSUME EditorConstants ==
  /\ Types \subseteq Kinds
  /\ Default \in Schemas
  /\ MaxGets \in Nat /\ MaxChanges \in Nat

VARIABLES
  tables,    \* type -> database -> name -> entity
  type,      \* the selected type, or "select"
  override,  \* the selected database
  list,      \* entityData, with the request it answers
  options,   \* the names in the entity selector
  editor,    \* the entity in the editor and where it came from
  gets,      \* requests for lists under way
  posts,     \* saves under way
  asked,     \* how many lists were requested (numbers them)
  trouble,   \* what happened since the type was selected (history)
  impure,    \* how foreign entities may have got among the rules (history)
  changes    \* edits, saves and changes so far (bounds the model)

page == <<type, override, list, options, editor, gets, asked, trouble>>
vars == <<tables, page, posts, impure, changes>>

Rows == [Names -> Entities \cup {Nothing}]
NoRows == [n \in Names |-> Nothing]
NoList ==
  [no |-> 0, type |-> "select", schema |-> Default,
   served |-> FALSE, from |-> Default, rows |-> NoRows]

(* A request names a type and a database; its rows are from one. *)
Lists == [no : 0..MaxGets, type : Types \cup {"select"}, schema : Schemas,
          served : BOOLEAN, from : Schemas, rows : Rows]
Edits == [entity : Entities, name : Names, type : Types, from : Schemas]

Troubles == {"late", "moved", "crossed", "failed"}

(* What a save sends: the editor's entity under the selected type and      *)
(* database; and what had happened on the page (history).                  *)
Saves == [edit : Edits, type : Types, schema : Schemas,
          trouble : SUBSET Troubles]

(* Only resource groups and selectors heed the database. *)
Place(t, s) == IF t \in {"RESOURCE_GROUP", "SELECTOR"} THEN s ELSE Default

(* A type's own table holds entities of its kind at the start. *)
Fresh(t) ==
  [kind |-> t, active |-> IF t \in {"GATEWAY_BACKEND", Rule} THEN "true" ELSE "absent"]

Init ==
  /\ tables = [t \in Types |-> [s \in Schemas |->
                 IF s = Place(t, s) THEN [n \in Names |-> Fresh(t)] ELSE NoRows]]
  /\ type = "select" /\ override = Default
  /\ list = NoList /\ options = {} /\ editor = Blank
  /\ gets = {} /\ posts = {} /\ asked = 0
  /\ trouble = {} /\ impure = {}
  /\ changes = 0

-----------------------------------------------------------------------------
(* How jQuery ends a request whose dataType is json: an empty body does    *)
(* not parse, so "done" is not called for it.                              *)
AjaxEnds(ok, body) == IF ok /\ body # "empty" THEN "done" ELSE "fail"

(* The name by which the editor knows an entity: for the selectors it is   *)
(* their group's id, which no other entity is listed by.                   *)
SameName(t, kind) == (t = "SELECTOR") <=> (kind = "SELECTOR")

(* The request for the list of a type. *)
Get(t) == [NoList EXCEPT !.no = asked + 1, !.type = t, !.schema = override]

(* Mutant: what was listed before stays. *)
RenderKeepingList(t) ==
  /\ editor' = Blank /\ trouble' = {}
  /\ IF t = "select" THEN UNCHANGED <<gets, asked>>
     ELSE asked < MaxGets /\ asked' = asked + 1 /\ gets' = gets \cup {Get(t)}
  /\ UNCHANGED <<list, options>>

(* Mutant: the list is asked for in the gateway's own database only. *)
RenderDefaultOnly(t) ==
  /\ list' = NoList /\ options' = {} /\ editor' = Blank /\ trouble' = {}
  /\ IF t = "select" \/ override # Default THEN UNCHANGED <<gets, asked>>
     ELSE asked < MaxGets /\ asked' = asked + 1 /\ gets' = gets \cup {Get(t)}

(* renderEntitySelector: everything is cleared, and the list asked for. *)
Render(t) ==
  /\ list' = NoList /\ options' = {} /\ editor' = Blank /\ trouble' = {}
  /\ IF t = "select" THEN UNCHANGED <<gets, asked>>
     ELSE asked < MaxGets /\ asked' = asked + 1 /\ gets' = gets \cup {Get(t)}

ChooseType(t) ==
  /\ t # type
  /\ type' = t
  /\ Render(t)
  /\ UNCHANGED <<tables, override, posts, impure, changes>>

(* "Refresh Entities": renderConfigSelector draws the selectors anew and   *)
(* leaves entityData.                                                      *)
Refresh ==
  /\ type # "select"
  /\ type' = "select" /\ options' = {} /\ editor' = Blank
  /\ UNCHANGED <<tables, override, list, gets, asked, posts, trouble, impure, changes>>

OverrideDatabase(s) ==
  /\ s # override
  /\ changes < MaxChanges /\ changes' = changes + 1
  /\ override' = s
  /\ trouble' = trouble \cup {"moved"}
  /\ UNCHANGED <<tables, type, list, options, editor, gets, asked, posts, impure>>

(* getAllEntitiesForType: the server reads the table.  The query cache may *)
(* answer, whose lists do not say which database they are from: somebody   *)
(* had asked for s's.                                                      *)
Serve(g, s) ==
  /\ ~g.served
  /\ LET from == Place(g.type, s)
     IN  gets' = (gets \ {g}) \cup
           {[g EXCEPT !.served = TRUE, !.from = from, !.rows = tables[g.type][from]]}
  /\ UNCHANGED <<tables, type, override, list, options, editor, asked, posts,
                 trouble, impure, changes>>

(* What is wrong with an answer: another type was selected since, or it is *)
(* another database's.                                                     *)
Late(g) == g.no # asked \/ type = "select"
Crossed(g) == g.from # Place(g.type, g.schema)

Arrive(g) ==
  /\ g.served
  /\ gets' = gets \ {g}
  /\ IF AjaxEnds(TRUE, "list") = "done"
     THEN list' = g /\ options' = Stored(g.rows)
     ELSE UNCHANGED <<list, options>>
  /\ trouble' = trouble \cup {x \in {"late", "crossed"} :
                   IF x = "late" THEN Late(g) ELSE Crossed(g)}
  /\ UNCHANGED <<tables, type, override, editor, asked, posts, impure, changes>>

Fail(g) ==
  /\ changes < MaxChanges /\ changes' = changes + 1
  /\ gets' = gets \ {g}
  /\ trouble' = trouble \cup {"failed"}
  /\ UNCHANGED <<tables, type, override, list, options, editor, asked, posts, impure>>

(* Mutant: a name that matches no entity is taken for one that does. *)
PickUnmatched(n) ==
  /\ editor' = IF type # "select" /\ SameName(type, list.type)
               THEN [entity |-> list.rows[n], name |-> n,
                     type |-> list.type, from |-> list.from]
               ELSE Blank
  /\ UNCHANGED <<tables, type, override, list, options, gets, asked, posts,
                 trouble, impure, changes>>

(* renderEntityEditor *)
Pick(n) ==
  /\ n \in options
  /\ editor' = IF type # "select" /\ SameName(type, list.type)
               THEN [entity |-> list.rows[n], name |-> n,
                     type |-> list.type, from |-> list.from]
               ELSE Blank
  /\ UNCHANGED <<tables, type, override, list, options, gets, asked, posts,
                 trouble, impure, changes>>

(* The administrator changes what the editor shows. *)
Edit(active) ==
  /\ editor # Blank
  /\ editor.entity.active # "absent" /\ editor.entity.active # active
  /\ changes < MaxChanges /\ changes' = changes + 1
  /\ editor' = [editor EXCEPT !.entity.active = active]
  /\ UNCHANGED <<tables, type, override, list, options, gets, asked, posts,
                 trouble, impure>>

(* updateObject; a blank or a save of type "select" is refused. *)
Submit ==
  /\ editor # Blank /\ type # "select"
  /\ changes < MaxChanges /\ changes' = changes + 1
  /\ posts' = posts \cup {[edit |-> editor, type |-> type, schema |-> override,
                           trouble |-> trouble]}
  /\ UNCHANGED <<tables, page, impure>>

(* updateEntity: a rule may be any object with a name, the others must     *)
(* have the properties of their class and no more.                         *)
Accepts(t, entity) ==
  IF t = Rule THEN entity.kind # "SELECTOR" ELSE entity.kind = t

(* The server takes the save.  Its answer is empty, so the page does not   *)
(* ask for the list again.                                                 *)
Save(p) ==
  /\ posts' = posts \ {p}
  /\ IF Accepts(p.type, p.edit.entity)
     THEN /\ tables' = [tables EXCEPT ![p.type][Place(p.type, p.schema)][p.edit.name] =
                          p.edit.entity]
          /\ impure' = IF p.type = Rule /\ p.edit.type # Rule
                       THEN impure \cup {"saved"} ELSE impure
     ELSE UNCHANGED <<tables, impure>>
  /\ IF AjaxEnds(TRUE, "empty") = "done"
     THEN Render(type) /\ UNCHANGED <<type, override>>
     ELSE UNCHANGED page
  /\ UNCHANGED changes

(* RoutingGroupRuleResource: rules come and go past the editor, and may be *)
(* added without "active".                                                 *)
AddRule(n, entity) ==
  /\ Rule \in Types /\ entity.kind = Rule
  /\ changes < MaxChanges /\ changes' = changes + 1
  /\ tables' = [tables EXCEPT ![Rule][Default][n] = entity]
  /\ impure' = IF entity.active = "absent" THEN impure \cup {"added"} ELSE impure
  /\ UNCHANGED <<page, posts>>

DeleteRule(n) ==
  /\ Rule \in Types /\ n \in Stored(tables[Rule][Default])
  /\ changes < MaxChanges /\ changes' = changes + 1
  /\ tables' = [tables EXCEPT ![Rule][Default][n] = Nothing]
  /\ UNCHANGED <<page, posts, impure>>

Next ==
  \/ \E t \in Types \cup {"select"} : ChooseType(t)
  \/ Refresh
  \/ \E s \in Schemas : OverrideDatabase(s)
  \/ \E g \in gets : (\E s \in Schemas : Serve(g, s)) \/ Arrive(g) \/ Fail(g)
  \/ \E n \in Names : Pick(n)
  \/ \E active \in {"true", "false"} : Edit(active)
  \/ Submit
  \/ \E p \in posts : Save(p)
  \/ \E n \in Names : DeleteRule(n) \/ \E e \in Entities : AddRule(n, e)

Spec == Init /\ [][Next]_vars

(* Requests that were sent are answered. *)
FairSpec == Spec /\ WF_vars(\E g \in gets : (\E s \in Schemas : Serve(g, s)) \/ Arrive(g))

-----------------------------------------------------------------------------
TypeOK ==
  /\ tables \in [Types -> [Schemas -> Rows]]
  /\ type \in Types \cup {"select"} /\ override \in Schemas
  /\ list \in Lists /\ options \subseteq Names
  /\ editor \in Edits \cup {Blank}
  /\ gets \subseteq Lists /\ posts \subseteq Saves
  /\ asked \in 0..MaxGets /\ trouble \subseteq Troubles
  /\ impure \subseteq {"saved", "added"}
  /\ changes \in 0..MaxChanges

(* A save goes back to the table and the database it was loaded from,      *)
(* unless a list arrived late (after another type was selected) or, for    *)
(* the database, the override was changed since the type was selected or   *)
(* the query cache answered the request with another database's list.      *)
SavedAsLoaded ==
  \A p \in posts :
    /\ p.edit.type # p.type => "late" \in p.trouble
    /\ p.edit.from # Place(p.type, p.schema) =>
         p.trouble \cap {"late", "moved", "crossed"} # {}

(* Requests are routed by the rules they read -- the last word has the one *)
(* with the greatest priority that matches -- unless an entity of another  *)
(* type was saved among them after a late list, or one was added without   *)
(* "active": then the header decides, for every request.                   *)
RulesDecide ==
  Rule \in Types =>
    \A matching \in SUBSET Names :
      LET rules == tables[Rule][Default]
          found == FindRoutingGroup(rules, matching, "header's")
          firing == ActiveRules(rules) \cap matching
      IN IF found.by = "header" THEN impure # {}
         ELSE \/ firing = {} /\ found.group = NoGroup
              \/ /\ found.group \in firing
                 /\ \A n \in firing : Priority[n] <= Priority[found.group]

(* In the end the list is that of the selected type, unless one arrived    *)
(* late or the request failed.                                             *)
ListSettles ==
  <>[](type = "select" \/ list.type = type \/ trouble \cap {"late", "failed"} # {})
=============================================================================
