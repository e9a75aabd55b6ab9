----------------------------- MODULE MonitorContract -----------------------------
(***************************************************************************)
(* What a heartbeat promises, without tasks and observers -- the monitor's *)
(* part of RoutingTable (FetchActive, Report, ReportAborts, SkipBeat): the *)
(* table becomes some of the clusters in the list the beat began with,     *)
(* each in the group it had there; or nothing; or it stays.  The list says *)
(* what was active when the beat began, or before a change, if that may    *)
(* still be answered by the query cache.                                   *)
(***************************************************************************)
CONSTANTS Backends, Groups, NoRow

VARIABLES store,  \* the active backends' groups are read from it
          stale,  \* lists of them from before changes that may still be read
          beat,   \* "resting", "beating" or "over"
          seen,   \* the list it began with: the group of each active backend
          table   \* the clusters reported for each group

vars == <<store, stale, beat, seen, table>>

Rows == [group : Groups, active : BOOLEAN]

ActiveMap ==
  [b \in {b \in Backends : store[b] # NoRow /\ store[b].active} |-> store[b].group]

Init ==
  /\ store \in [Backends -> Rows \cup {NoRow}]
  /\ stale = {}
  /\ beat = "resting" /\ seen = <<>> /\ table = <<>>

Change ==
  /\ \E b \in Backends, row \in Rows \cup {NoRow} : store' = [store EXCEPT ![b] = row]
  /\ stale' \in SUBSET (stale \cup {ActiveMap})
  /\ UNCHANGED <<beat, seen, table>>

ForgetLists ==
  /\ stale' = {}
  /\ UNCHANGED <<store, beat, seen, table>>

Begin ==
  /\ beat = "resting"
  /\ beat' = "beating"
  /\ seen' \in stale \cup {ActiveMap}
  /\ UNCHANGED <<store, stale, table>>

(* The report on the clusters that answered. *)
ReportOn(answered) ==
  [g \in {seen[b] : b \in answered} |-> {b \in answered : seen[b] = g}]

End ==
  /\ beat = "beating"
  /\ beat' = "resting"
  /\ seen' = <<>>
  /\ table' \in {table, <<>>} \cup {ReportOn(answered) : answered \in SUBSET DOMAIN seen}
  /\ UNCHANGED <<store, stale>>

Stop ==
  /\ beat = "resting"
  /\ beat' = "over"
  /\ UNCHANGED <<store, stale, seen, table>>

Next == Change \/ ForgetLists \/ Begin \/ End \/ Stop

(* A beat that began comes to its end. *)
Spec == Init /\ [][Next]_vars /\ WF_vars(End)
=============================================================================
