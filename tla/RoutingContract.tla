---------------------------- MODULE RoutingContract ----------------------------
(***************************************************************************)
(* What routing promises a client with a new query, without the table: the *)
(* request is given a backend of one list of the backends active in the    *)
(* group it asked for; if such a list is empty, one of a later list of the *)
(* adhoc group; it is refused only if that list is empty too.  It may also *)
(* fail.  A list says what is active at a moment after the request         *)
(* arrived, or what was before a change: that as long as the query cache   *)
(* may have it, for a minute from when it was put there.                   *)
(***************************************************************************)
CONSTANTS Backends, Groups, Adhoc, Requests, NoBackend

VARIABLES active,    \* the backends active in each group
          stale,     \* those before changes, as long as they may be answered
          status,    \* where each request is
          group,     \* the group it is asking
          offered,   \* the active backends it was shown
          answer     \* the backend it was given

requests == <<status, group, offered, answer>>
vars == <<active, stale, requests>>

Init ==
  /\ active \in [Groups -> SUBSET Backends]
  /\ stale = {}
  /\ status = [r \in Requests |-> "new"]
  /\ group = [r \in Requests |-> Adhoc]
  /\ offered = [r \in Requests |-> {}]
  /\ answer = [r \in Requests |-> NoBackend]

ChangeActive ==
  /\ active' \in [Groups -> SUBSET Backends]
  /\ stale' \in SUBSET (stale \cup {active})
  /\ UNCHANGED requests

ForgetLists ==
  /\ stale' = {}
  /\ UNCHANGED <<active, requests>>

(* What a request that reads the backends of its group may be shown. *)
Shown(r) == {lists[group[r]] : lists \in stale \cup {active}}

Ask(r, g) ==
  /\ status[r] = "new"
  /\ group' = [group EXCEPT ![r] = g]
  /\ \/ status' = [status EXCEPT ![r] = "asking"]
     \/ g = Adhoc /\ status' = [status EXCEPT ![r] = "adhoc"]
  /\ UNCHANGED <<active, stale, offered, answer>>

Offer(r) ==
  /\ status[r] \in {"asking", "adhoc"}
  /\ \E list \in Shown(r) \ {{}} : offered' = [offered EXCEPT ![r] = list]
  /\ status' = [status EXCEPT ![r] = "offered"]
  /\ UNCHANGED <<active, stale, group, answer>>

TurnToAdhoc(r) ==
  /\ status[r] = "asking"
  /\ {} \in Shown(r)
  /\ group' = [group EXCEPT ![r] = Adhoc]
  /\ status' = [status EXCEPT ![r] = "adhoc"]
  /\ UNCHANGED <<active, stale, offered, answer>>

Refuse(r) ==
  /\ status[r] = "adhoc"
  /\ {} \in Shown(r)
  /\ status' = [status EXCEPT ![r] = "refused"]
  /\ UNCHANGED <<active, stale, group, offered, answer>>

Route(r, b) ==
  /\ status[r] = "offered"
  /\ b \in offered[r]
  /\ status' = [status EXCEPT ![r] = "routed"]
  /\ answer' = [answer EXCEPT ![r] = b]
  /\ UNCHANGED <<active, stale, group, offered>>

Fail(r) ==
  /\ status[r] \in {"asking", "adhoc", "offered"}
  /\ status' = [status EXCEPT ![r] = "failed"]
  /\ UNCHANGED <<active, stale, group, offered, answer>>

Next ==
  \/ ChangeActive \/ ForgetLists
  \/ \E r \in Requests :
       \/ \E g \in Groups : Ask(r, g)
       \/ Offer(r) \/ TurnToAdhoc(r) \/ Refuse(r) \/ Fail(r)
       \/ \E b \in Backends : Route(r, b)

Spec == Init /\ [][Next]_vars
=============================================================================
