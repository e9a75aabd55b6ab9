------------------------------- MODULE QueryPath -------------------------------
(***************************************************************************)
(* The proxy handler: where a request goes that comes to the gateway, by   *)
(* the query its body or its path is taken to be about, or by its routing  *)
(* group; and what the response to a statement's submission leaves behind. *)
(*                                                                         *)
(* A request is what the handler reads of it: the API its path belongs to, *)
(* the segments that follow, the query string, and the body of a statement *)
(* cut at its commas, with the quoted word of each part.  QueryAffinity    *)
(* has the life of a mapping, which ends with the cache's entry and the    *)
(* history's row; here one that was made stays.  Which backends the tables *)
(* and caches name as active is left open.                                 *)
(***************************************************************************)
EXTENDS Naturals, Sequences

CONSTANTS Backends,     \* names of backends
          Groups,       \* routing groups
          Adhoc,        \* the group to fall back on
          Members,      \* the backends of each group
          Queries,      \* ids of queries
          Word,         \* a word that is no query's id
          Requests,     \* requests to the gateway
          NoId,         \* no query id
          BadPath,      \* reading the id throws
          Gateway,      \* the gateway's own application
          NoBackend     \* no backend

ASSUME PathConstants ==
  /\ Adhoc \in Groups /\ Members \in [Groups -> SUBSET Backends]
  /\ {NoId, BadPath, Word} \cap Queries = {}
  /\ NoId # BadPath /\ Word \notin {NoId, BadPath}
  /\ {"queued", "scheduled", "executing", "partialCancel", "slug"} \cap Queries = {}
  /\ {Gateway, NoBackend} \cap Backends = {} /\ Gateway # NoBackend

VARIABLES
  home,      \* the backend that runs each query
  mapped,    \* the backend saved for each query, or for the word
  told,      \* the queries whose ids their clients know
  unread,    \* those whose response the gateway could not read (history)
  request    \* each request, where it is, and what became of it

vars == <<home, mapped, told, unread, request>>

Ids == Queries \cup {Word}

-----------------------------------------------------------------------------
(* What clients send about a query q. *)

Forms == {"page", "next", "info", "uiPath", "uiLink", "kill", "killWithMessage",
          "killWithWord", "killByPosition", "killInCapitals", "quoteKill", "select",
          "list", "stageOnly", "cluster", "own"}

(* A part of a body: does it mention query_id, and which word is quoted? *)
Part(names, literal) == [names |-> names, literal |-> literal]

Segments(form, q) ==
  CASE form = "page" -> <<"executing", q, "slug">>
    [] form \in {"next", "info", "uiPath"} -> <<q>>
    [] form = "stageOnly" -> <<"queued">>
    [] OTHER -> <<>>

(* A kill's message may come first and mention query_id, and its text have *)
(* spaces or be one word; arguments may be given by position, or be named  *)
(* in capital letters.                                                     *)
Parts(form, q) ==
  CASE form \in {"kill", "quoteKill", "select"} -> <<Part(TRUE, q)>>
    [] form = "killWithMessage" -> <<Part(TRUE, NoId), Part(TRUE, q)>>
    [] form = "killWithWord" -> <<Part(TRUE, Word), Part(TRUE, q)>>
    [] form \in {"killByPosition", "killInCapitals"} -> <<Part(FALSE, q)>>
    [] OTHER -> <<>>

(* The cluster's own: /v1/info and /oauth2. *)
Api(form) ==
  CASE form \in {"info", "list"} -> "query"
    [] form \in {"uiPath", "uiLink"} -> "ui"
    [] form = "cluster" -> "cluster"
    [] form = "own" -> "other"
    [] OTHER -> "statement"

Kills == {"kill", "killWithMessage", "killWithWord", "killByPosition", "killInCapitals"}
Statements == Kills \cup {"quoteKill", "select"}

(* Forms that are meant for the backend that runs the query. *)
MeantForHome == Kills \cup {"page", "next", "info", "uiPath", "uiLink"}

Message(form, q) ==
  [api |-> Api(form), segments |-> Segments(form, q),
   params |-> IF form = "uiLink" THEN q ELSE NoId,
   kills |-> form \in Kills \cup {"quoteKill"}, parts |-> Parts(form, q)]

-----------------------------------------------------------------------------
(* extractQueryIdIfPresent *)

First(S) == CHOOSE i \in S : \A j \in S : i <= j

(* Mutant: the first part that mentions query_id decides. *)
NamingAtAll(parts) == {i \in DOMAIN parts : parts[i].names}

Naming(parts) == {i \in DOMAIN parts : parts[i].names /\ parts[i].literal # NoId}

(* Mutant: any body that names a query_id is about that query. *)
BodyIdOfAny(m) ==
  IF Naming(m.parts) # {} THEN m.parts[First(Naming(m.parts))].literal ELSE NoId

BodyId(m) ==
  IF m.kills /\ Naming(m.parts) # {} THEN m.parts[First(Naming(m.parts))].literal ELSE NoId

Stages == {"queued", "scheduled", "executing", "partialCancel"}

(* Segments 1 and 2 are tokens 3 and 4 of the path. *)
StatementPathId(segments) ==
  IF segments = <<>> THEN NoId
  ELSE IF \E i \in DOMAIN segments : segments[i] \in Stages
       THEN IF Len(segments) >= 2 THEN segments[2] ELSE BadPath
       ELSE segments[1]

(* The pattern is matched with the path, not with the query string. *)
UiPathId(segments) ==
  LET ids == {i \in DOMAIN segments : segments[i] \in Queries}
  IN  IF ids = {} THEN NoId ELSE segments[First(ids)]

PathId(m) ==
  CASE m.api \in {"statement", "query"} -> StatementPathId(m.segments)
    [] m.api = "ui" -> UiPathId(m.segments)
    [] OTHER -> NoId

ExtractQueryId(m) == IF BodyId(m) # NoId THEN BodyId(m) ELSE PathId(m)

IsPathWhiteListed(m) == m.api \in {"statement", "query", "ui", "cluster"}

-----------------------------------------------------------------------------
Idle == [stage |-> "idle", form |-> "own", about |-> NoId, group |-> Adhoc,
         owed |-> FALSE, target |-> NoBackend, query |-> NoId]

Failed == [stage |-> "failed", form |-> "own", about |-> NoId, group |-> Adhoc,
           owed |-> FALSE, target |-> NoBackend, query |-> NoId]

Init ==
  /\ home = [q \in Queries |-> NoBackend] /\ mapped = [i \in Ids |-> NoBackend]
  /\ told = {} /\ unread = {}
  /\ request = [r \in Requests |-> Idle]

Running == {q \in Queries : home[q] # NoBackend}

(* provideBackendForRoutingGroup, as RoutingTable has it: a member of the  *)
(* group that a list names as active, or an adhoc one.                     *)
Provided(group) == Members[group] \cup Members[Adhoc]

(* A backend says that it runs the query, or the first adhoc one in a list *)
(* of the active ones is taken.                                            *)
Asked(id) == ({home[q] : q \in Queries \cap {id}} \ {NoBackend}) \cup Members[Adhoc]

(* Mutant: the backends are asked again every time. *)
FoundByAsking(id) == Asked(id)

(* findBackendForQueryId: the mapping, if there is one. *)
Found(id) == IF mapped[id] # NoBackend THEN {mapped[id]} ELSE Asked(id)

(* rewriteTarget: the backend becomes the proxytarget header of the        *)
(* request; what findBackendForQueryId finds stays in its cache.  (group   *)
(* is Adhoc where nobody asks for it.)                                     *)
Route(r, form, q, group, target) ==
  LET m == Message(form, q)
      id == ExtractQueryId(m)
  IN  /\ request[r].stage = "idle"
      /\ IF ~IsPathWhiteListed(m)
         THEN target = Gateway /\ group = Adhoc /\ UNCHANGED mapped
         ELSE IF id = NoId
         THEN target \in Provided(group) /\ UNCHANGED mapped
         ELSE /\ id # BadPath /\ group = Adhoc
              /\ target \in Found(id)
              /\ mapped' = [mapped EXCEPT ![id] = target]
      /\ request' = [request EXCEPT ![r] =
           [stage |-> "routed", form |-> form, about |-> q, group |-> group,
            owed |-> q \in told \ unread, target |-> target, query |-> NoId]]
      /\ UNCHANGED <<home, told, unread>>

(* The client gets an error: tokens[4] of four; no adhoc backend in the    *)
(* list to guess; no backend for the group, or a null one, which is no     *)
(* target (RoutingTable has when).                                         *)
RouteFails(r, form, q) ==
  LET id == ExtractQueryId(Message(form, q))
  IN  /\ request[r].stage = "idle"
      /\ IsPathWhiteListed(Message(form, q))
      /\ id \in Ids => mapped[id] = NoBackend
      /\ request' = [request EXCEPT ![r] = Failed]
      /\ UNCHANGED <<home, mapped, told, unread>>

Moved(r, stage, q) ==
  request' = [request EXCEPT ![r] =
    [stage |-> stage, form |-> request[r].form, about |-> request[r].about,
     group |-> request[r].group, owed |-> request[r].owed,
     target |-> request[r].target, query |-> q]]

(* The backend takes a statement and gives it an id; anything else it just *)
(* answers, and it may refuse a statement.                                 *)
Accept(r, q) ==
  /\ request[r].stage = "routed" /\ request[r].form \in Statements
  /\ home[q] = NoBackend /\ mapped[q] = NoBackend
  /\ home' = [home EXCEPT ![q] = request[r].target]
  /\ Moved(r, "accepted", q)
  /\ UNCHANGED <<mapped, told, unread>>

Answer(r) ==
  /\ request[r].stage = "routed"
  /\ Moved(r, "answered", NoId)
  /\ UNCHANGED <<home, mapped, told, unread>>

(* Mutant: responses to all requests are treated as a statement's. *)
SaveAny(r) ==
  /\ request[r].stage \in {"routed", "accepted"}
  /\ mapped' = [mapped EXCEPT ![request[r].query] = request[r].target]
  /\ Moved(r, "saved", request[r].query)
  /\ UNCHANGED <<home, told, unread>>

(* postConnectionHook: the response's id is saved with the backend in the  *)
(* request's header.                                                       *)
Save(r) ==
  /\ request[r].stage = "accepted"
  /\ mapped' = [mapped EXCEPT ![request[r].query] = request[r].target]
  /\ Moved(r, "saved", request[r].query)
  /\ UNCHANGED <<home, told, unread>>

(* Then the response is passed on -- also one that did not parse, because  *)
(* it came in several chunks: the exception is logged, and nothing saved.  *)
PassOn(r) ==
  /\ request[r].stage \in {"accepted", "saved"}
  /\ told' = told \cup {request[r].query}
  /\ unread' = IF request[r].stage = "accepted"
               THEN unread \cup {request[r].query} ELSE unread
  /\ Moved(r, "answered", request[r].query)
  /\ UNCHANGED <<home, mapped>>

(* A statement is about nothing unless it names a query. *)
Subjects(form) ==
  IF form \in {"list", "stageOnly", "cluster", "own"} THEN {NoId}
  ELSE IF form = "select" THEN Running \cup {NoId} ELSE Running

Serve(r) ==
  \/ \E form \in Forms : \E q \in Subjects(form) :
       \/ RouteFails(r, form, q)
       \/ \E group \in Groups, target \in Backends \cup {Gateway} : Route(r, form, q, group, target)
  \/ \E q \in Queries : Accept(r, q)
  \/ Answer(r)
  \/ Save(r) \/ PassOn(r)

Next == \E r \in Requests : Serve(r)

Spec == Init /\ [][Next]_vars

-----------------------------------------------------------------------------
TypeOK ==
  /\ home \in [Queries -> Backends \cup {NoBackend}]
  /\ mapped \in [Ids -> Backends \cup {NoBackend}]
  /\ told \subseteq Queries /\ unread \subseteq told
  /\ request \in [Requests ->
       [stage : {"idle", "routed", "failed", "accepted", "saved", "answered"}, form : Forms,
        about : Queries \cup {NoId}, group : Groups, owed : BOOLEAN,
        target : Backends \cup {Gateway, NoBackend}, query : Queries \cup {NoId}]]

(* Once a client knows a query's id, the gateway knows its backend, unless *)
(* the response did not parse when it was passed on: the mapping is the    *)
(* response's own, however requests about this and other queries, kill     *)
(* statements among them, came in between, before the response too.        *)
ToldIsMapped == \A q \in told \ unread : mapped[q] = home[q]

(* The forms whose query id the handler does not see, or takes for another *)
(* word.                                                                   *)
Unseen == {"killWithWord", "killByPosition", "killInCapitals", "uiLink"}

(* A request that is meant for a query's backend gets there when the query *)
(* was told to its client by a response that parsed, whichever backends    *)
(* are active, unless it is of one of the forms the handler cannot read.   *)
SeenFormsGoHome ==
  \A r \in Requests :
    request[r].owed /\ request[r].form \in MeantForHome \ Unseen
      => request[r].target = home[request[r].about]

(* A statement that kills nothing goes to its routing group or to the      *)
(* adhoc one, unless its text quotes a kill.                               *)
StatementsKeepGroup ==
  \A r \in Requests :
    request[r].form = "select" /\ request[r].stage \in {"routed", "accepted", "saved", "answered"}
      => request[r].target \in Provided(request[r].group)

(* What the query-history page relies on and a test of the repository      *)
(* says: a link to the UI's page of a query leads to the backend that runs *)
(* it.                                                                     *)
UiLinksGoHome ==
  \A r \in Requests :
    request[r].owed /\ request[r].form = "uiLink"
      => request[r].target = home[request[r].about]
=============================================================================
