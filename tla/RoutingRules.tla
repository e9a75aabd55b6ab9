------------------------------ MODULE RoutingRules ------------------------------
(***************************************************************************)
(* How a request finds its routing group: the stored rules are read at     *)
(* each request, the active ones fire in the order of their priorities,    *)
(* and whatever goes wrong on the way makes the header decide.             *)
(***************************************************************************)
EXTENDS Naturals, FiniteSets

CONSTANTS Names,     \* names of entities, of rules among others
          Priority,  \* the place of each in the order in which rules fire
          Nothing,   \* no entity has the name
          NoGroup    \* no rule set a routing group

ASSUME RuleConstants ==
  /\ IsFiniteSet(Names)
  /\ Priority \in [Names -> 1..Cardinality(Names)]
  /\ \A m, n \in Names : Priority[m] = Priority[n] => m = n
  /\ NoGroup \notin Names

Rule == "ROUTING_RULE"
Kinds == {"GATEWAY_BACKEND", Rule, "RESOURCE_GROUP", "SELECTOR"}

(* What an entity's JSON says that matters here: what it describes, and    *)
(* "active", which resource groups and selectors have not.                 *)
Entities == [kind : Kinds, active : {"true", "false", "absent"}]

Stored(rows) == {n \in Names : rows[n] # Nothing}

(* "active" is read of every rule: a null one is an exception. *)
Readable(rules) == \A n \in Stored(rules) : rules[n].active # "absent"

ActiveRules(rules) == {n \in Stored(rules) : rules[n].active = "true"}

(* createRules wants a condition and actions; only a rule has them. *)
Creatable(rules) == \A n \in ActiveRules(rules) : rules[n].kind = Rule

(* What is left to fire at a place of the order: one rule, or none. *)
FiringAt(rules, matching, place) ==
  {n \in ActiveRules(rules) \cap matching : Priority[n] = place}

(* Mutant: the rule of the lowest priority has the last word. *)
FireFirstWins(rules, matching) ==
  LET group[place \in 0..Cardinality(Names)] ==
        IF place = 0 THEN NoGroup
        ELSE IF group[place - 1] # NoGroup \/ FiringAt(rules, matching, place) = {}
             THEN group[place - 1]
             ELSE CHOOSE n \in FiringAt(rules, matching, place) : TRUE
  IN group

(* The rules whose condition is true fire one after another; each puts its *)
(* group (identified with its name) under the same key: what the key holds *)
(* after each place of the order.                                          *)
Fire(rules, matching) ==
  LET group[place \in 0..Cardinality(Names)] ==
        IF place = 0 THEN NoGroup
        ELSE IF FiringAt(rules, matching, place) = {}
             THEN group[place - 1]
             ELSE CHOOSE n \in FiringAt(rules, matching, place) : TRUE
  IN group

FindRoutingGroup(rules, matching, header) ==
  IF Readable(rules) /\ Creatable(rules)
  THEN [by |-> "rules", group |-> Fire(rules, matching)[Cardinality(Names)]]
  ELSE [by |-> "header", group |-> header]
=============================================================================
