---------------------------- MODULE QueryPathProofs ----------------------------
(* Theorems about QueryPath, for any backends, groups, queries, requests. *)
EXTENDS QueryPath, TLAPS

Records ==
  [stage : {"idle", "routed", "failed", "accepted", "saved", "answered"}, form : Forms,
   about : Queries \cup {NoId}, group : Groups, owed : BOOLEAN,
   target : Backends \cup {Gateway, NoBackend}, query : Queries \cup {NoId}]

-----------------------------------------------------------------------------
(* What the handler reads of a request. *)

LEMMA FirstOfOne == ASSUME NEW i \in Nat PROVE First({i}) = i
<1>1. \A k \in {i} : \A j \in {i} : k <= j
  OBVIOUS
<1> QED
  BY <1>1 DEF First

LEMMA BodyIdOfKill ==
  ASSUME NEW q \in Queries, NEW form \in {"kill", "quoteKill", "killWithMessage"}
  PROVE  BodyId(Message(form, q)) = q
<1> DEFINE m == Message(form, q)
<1>1. m.kills /\ m.parts = Parts(form, q)
  BY DEF Message, Kills
<1>2. q # NoId
  BY PathConstants
<1>3. CASE form \in {"kill", "quoteKill"}
  <2>1. m.parts = <<Part(TRUE, q)>>
    BY <1>1, <1>3 DEF Parts
  <2>2. Naming(m.parts) = {1} /\ m.parts[1].literal = q
    BY <1>2, <2>1 DEF Naming, Part
  <2> HIDE DEF m
  <2> QED
    BY <1>1, <2>2, FirstOfOne DEF BodyId, m
<1>4. CASE form = "killWithMessage"
  <2>1. m.parts = <<Part(TRUE, NoId), Part(TRUE, q)>>
    BY <1>1, <1>4 DEF Parts
  <2>2. Naming(m.parts) = {2} /\ m.parts[2].literal = q
    BY <1>2, <2>1 DEF Naming, Part
  <2> HIDE DEF m
  <2> QED
    BY <1>1, <2>2, FirstOfOne DEF BodyId, m
<1> QED
  BY <1>3, <1>4

(* A body without parts, or one that kills nothing, has no id. *)
LEMMA NoBodyId ==
  ASSUME NEW q \in Queries \cup {NoId},
         NEW form \in {"page", "next", "info", "uiPath", "select"}
  PROVE  BodyId(Message(form, q)) = NoId
<1>1. ~Message(form, q).kills
  BY DEF Message, Kills
<1> QED
  BY <1>1 DEF BodyId

LEMMA PathIdOfRequest ==
  ASSUME NEW q \in Queries, NEW form \in {"page", "next", "info", "uiPath"}
  PROVE  PathId(Message(form, q)) = q
<1> DEFINE m == Message(form, q)
<1>1. m.segments = Segments(form, q) /\ m.api = Api(form)
  BY DEF Message
<1>2. CASE form = "page"
  <2>1. m.segments = <<"executing", q, "slug">> /\ m.api = "statement"
    BY <1>1, <1>2 DEF Segments, Api
  <2>2. m.segments[1] \in Stages /\ Len(m.segments) = 3 /\ m.segments[2] = q
        /\ 1 \in DOMAIN m.segments /\ m.segments # <<>>
    BY <2>1 DEF Stages
  <2>3. StatementPathId(m.segments) = q
    BY <2>2 DEF StatementPathId
  <2> HIDE DEF m
  <2> QED
    BY <2>1, <2>3 DEF PathId, m
<1>3. CASE form \in {"next", "info"}
  <2>1. m.segments = <<q>> /\ m.api \in {"statement", "query"}
    BY <1>1, <1>3 DEF Segments, Api
  <2>2. ~(\E i \in DOMAIN m.segments : m.segments[i] \in Stages)
        /\ m.segments # <<>> /\ m.segments[1] = q
    BY <2>1, PathConstants DEF Stages
  <2>3. StatementPathId(m.segments) = q
    BY <2>2 DEF StatementPathId
  <2> HIDE DEF m
  <2> QED
    BY <2>1, <2>3 DEF PathId, m
<1>4. CASE form = "uiPath"
  <2>1. m.segments = <<q>> /\ m.api = "ui"
    BY <1>1, <1>4 DEF Segments, Api
  <2>2. {i \in DOMAIN m.segments : m.segments[i] \in Queries} = {1} /\ m.segments[1] = q
    BY <2>1
  <2>3. UiPathId(m.segments) = q
    BY <2>2, FirstOfOne DEF UiPathId
  <2> HIDE DEF m
  <2> QED
    BY <2>1, <2>3 DEF PathId, m
<1> QED
  BY <1>2, <1>3, <1>4

(* The forms the handler sees are all read as they are meant. *)
LEMMA SeenFormsAreRead ==
  ASSUME NEW q \in Queries, NEW form \in MeantForHome \ Unseen
  PROVE  ExtractQueryId(Message(form, q)) = q /\ IsPathWhiteListed(Message(form, q))
<1>1. form \in {"kill", "killWithMessage"} \/ form \in {"page", "next", "info", "uiPath"}
  BY DEF MeantForHome, Unseen, Kills
<1>2. IsPathWhiteListed(Message(form, q))
  BY <1>1 DEF IsPathWhiteListed, Message, Api
<1>3. ExtractQueryId(Message(form, q)) = q
  BY <1>1, BodyIdOfKill, NoBodyId, PathIdOfRequest, PathConstants DEF ExtractQueryId
<1> QED
  BY <1>2, <1>3

LEMMA SelectIsAboutNothing ==
  ASSUME NEW q \in Queries \cup {NoId}
  PROVE  ExtractQueryId(Message("select", q)) = NoId
<1>1. PathId(Message("select", q)) = NoId
  BY DEF PathId, Message, Api, Segments, StatementPathId
<1> QED
  BY <1>1, NoBodyId DEF ExtractQueryId

LEMMA UnseenFormsAreNotRead ==
  ASSUME NEW q \in Queries \cup {NoId},
         NEW form \in {"killByPosition", "killInCapitals", "uiLink", "list", "cluster", "own"}
  PROVE  ExtractQueryId(Message(form, q)) = NoId
<1> DEFINE m == Message(form, q)
<1>1. m.segments = <<>> /\ m.parts = Parts(form, q)
  BY DEF Message, Segments
<1>2. CASE form \in {"killByPosition", "killInCapitals"}
  <2>1. m.parts = <<Part(FALSE, q)>>
    BY <1>1, <1>2 DEF Parts
  <2>2. Naming(m.parts) = {}
    BY <2>1 DEF Naming, Part
  <2> HIDE DEF m
  <2> QED
    BY <1>1, <2>2 DEF ExtractQueryId, BodyId, PathId, StatementPathId, UiPathId, m
<1>3. CASE form \in {"uiLink", "list", "cluster", "own"}
  <2>1. ~m.kills
    BY <1>3 DEF Message, Kills
  <2>2. {i \in DOMAIN m.segments : m.segments[i] \in Queries} = {}
    BY <1>1
  <2> HIDE DEF m
  <2> QED
    BY <1>1, <2>1, <2>2 DEF ExtractQueryId, BodyId, PathId, StatementPathId, UiPathId, m
<1> QED
  BY <1>2, <1>3

LEMMA StageOnlyIsBad ==
  ASSUME NEW q
  PROVE  ExtractQueryId(Message("stageOnly", q)) = BadPath
<1> DEFINE m == Message("stageOnly", q)
<1>1. m.segments = <<"queued">> /\ m.api = "statement" /\ ~m.kills
  BY DEF Message, Segments, Api, Kills
<1>2. StatementPathId(m.segments) = BadPath
  <2>1. m.segments # <<>> /\ Len(m.segments) = 1 /\ 1 \in DOMAIN m.segments
        /\ m.segments[1] \in Stages
    BY <1>1 DEF Stages
  <2> QED
    BY <2>1 DEF StatementPathId
<1> HIDE DEF m
<1> QED
  BY <1>1, <1>2 DEF ExtractQueryId, BodyId, PathId, m

LEMMA WordIsRead ==
  ASSUME NEW q \in Queries
  PROVE  ExtractQueryId(Message("killWithWord", q)) = Word
<1> DEFINE m == Message("killWithWord", q)
<1>1. m.kills /\ m.parts = <<Part(TRUE, Word), Part(TRUE, q)>>
  BY DEF Message, Kills, Parts
<1>2. Word # NoId /\ q # NoId
  BY PathConstants
<1>3. Naming(m.parts) = {1, 2} /\ m.parts[1].literal = Word
  BY <1>1, <1>2 DEF Naming, Part
<1>4. First({1, 2}) = 1
  <2>1. \A k \in {1, 2} : (\A j \in {1, 2} : k <= j) <=> k = 1
    OBVIOUS
  <2> QED
    BY <2>1 DEF First
<1>5. BodyId(m) = Word
  <2> HIDE DEF m
  <2> QED
    BY <1>1, <1>3, <1>4 DEF BodyId
<1> QED
  BY <1>2, <1>5 DEF ExtractQueryId

(* Every id that is read is a query's, or the word. *)
LEMMA IdsAreQueries ==
  ASSUME NEW form \in Forms, NEW q \in Subjects(form)
  PROVE  /\ ExtractQueryId(Message(form, q)) \in Ids \cup {NoId, BadPath}
         /\ q \in Queries \cup {NoId}
<1>0. q \in Queries \cup {NoId}
  BY DEF Subjects, Running
<1>1. CASE form \in {"list", "cluster", "own", "stageOnly", "select"}
  BY <1>0, <1>1, UnseenFormsAreNotRead, StageOnlyIsBad, SelectIsAboutNothing
<1>2. CASE form \notin {"list", "cluster", "own", "stageOnly", "select"}
  <2>1. q \in Queries
    BY <1>2 DEF Subjects, Running
  <2>2. CASE form \in {"killByPosition", "killInCapitals", "uiLink"}
    BY <1>0, <2>2, UnseenFormsAreNotRead
  <2>3. CASE form = "quoteKill"
    BY <2>1, <2>3, BodyIdOfKill, PathConstants DEF ExtractQueryId, Ids
  <2>4. CASE form \in MeantForHome \ Unseen
    BY <2>1, <2>4, SeenFormsAreRead DEF Ids
  <2>5. CASE form = "killWithWord"
    BY <2>1, <2>5, WordIsRead DEF Ids
  <2> QED
    BY <1>2, <2>2, <2>3, <2>4, <2>5 DEF Forms, MeantForHome, Unseen, Kills
<1> QED
  BY <1>0, <1>1, <1>2

LEMMA StatementsAreWhiteListed ==
  ASSUME NEW q, NEW form \in Statements
  PROVE  IsPathWhiteListed(Message(form, q))
BY DEF IsPathWhiteListed, Message, Api, Statements, Kills

-----------------------------------------------------------------------------
(* A request's statement is where it was sent; one that was owed its       *)
(* query's home was sent there.                                            *)
Sound(c) ==
  /\ c.stage = "routed" /\ c.form \in Statements => c.target \in Backends
  /\ c.stage \in {"accepted", "saved"} =>
       c.query \in Queries /\ c.target \in Backends /\ home[c.query] = c.target
  /\ c.stage = "saved" => mapped[c.query] = home[c.query]
  /\ c.owed => c.about \in Queries /\ home[c.about] # NoBackend
  /\ c.owed /\ c.form \in MeantForHome \ Unseen => c.target = home[c.about]
  /\ c.form = "select" /\ c.stage \in {"routed", "accepted", "saved", "answered"}
       => c.target \in Provided(c.group)

Typed ==
  /\ home \in [Queries -> Backends \cup {NoBackend}]
  /\ mapped \in [Ids -> Backends \cup {NoBackend}]
  /\ told \subseteq Queries /\ unread \subseteq told
  /\ request \in [Requests -> Records]

Mapped ==
  /\ \A q \in told : home[q] # NoBackend
  /\ \A q \in told \ unread : mapped[q] = home[q]

(* No step takes away or replaces a mapping that leads home. *)
Kept == \A q \in Queries : home[q] # NoBackend /\ mapped[q] = home[q] => mapped'[q] = home[q]

Inductive == Typed /\ Mapped /\ \A r \in Requests : Sound(request[r])

LEMMA InductiveImplies ==
  ASSUME Inductive
  PROVE  TypeOK /\ ToldIsMapped /\ SeenFormsGoHome /\ StatementsKeepGroup
<1>1. TypeOK
  BY DEF Inductive, Typed, Records, TypeOK
<1>2. ToldIsMapped
  BY DEF Inductive, Mapped, ToldIsMapped
<1>3. SeenFormsGoHome /\ StatementsKeepGroup
  BY DEF Inductive, Sound, SeenFormsGoHome, StatementsKeepGroup
<1> QED
  BY <1>1, <1>2, <1>3

(* A step of one request; queries that run go on running where they do.    *)
LEMMA RequestStep ==
  ASSUME Inductive, NEW r \in Requests, NEW c \in Records,
         request' = [request EXCEPT ![r] = c],
         home' \in [Queries -> Backends \cup {NoBackend}],
         \A q \in Queries : home[q] # NoBackend => home'[q] = home[q],
         mapped' \in [Ids -> Backends \cup {NoBackend}], Kept,
         told' \subseteq Queries, unread' \subseteq told',
         Mapped', Sound(c)'
  PROVE  Inductive'
<1>1. Typed'
  BY DEF Inductive, Typed
<1>2. ASSUME NEW s \in Requests PROVE Sound(request[s])'
  <2>1. request'[s] = IF s = r THEN c ELSE request[s]
    BY DEF Inductive, Typed
  <2>2. CASE s = r
    <3>1. request'[s] = c
      BY <2>1, <2>2
    <3> QED
      BY <3>1 DEF Sound, Provided
  <2>3. CASE s # r
    <3>1. request'[s] = request[s] /\ Sound(request[s])
      BY <2>1, <2>3 DEF Inductive
    <3>2. \A q \in Queries : home[q] \in Backends => home'[q] = home[q] /\ home[q] # NoBackend
      BY PathConstants
    <3> QED
      BY <3>1, <3>2 DEF Sound, Provided, Kept
  <2> QED
    BY <2>2, <2>3
<1> QED
  BY <1>1, <1>2 DEF Inductive

LEMMA FoundIs ==
  ASSUME Inductive, NEW id \in Ids
  PROVE  /\ Found(id) \subseteq Backends
         /\ mapped[id] # NoBackend => Found(id) = {mapped[id]}
<1>1. Asked(id) \subseteq Backends
  BY PathConstants DEF Asked, Inductive, Typed
<1>2. mapped[id] \in Backends \cup {NoBackend}
  BY DEF Inductive, Typed
<1> QED
  BY <1>1, <1>2 DEF Found

LEMMA RouteStep ==
  ASSUME Inductive, NEW r \in Requests, NEW form \in Forms, NEW q \in Subjects(form),
         NEW group \in Groups, NEW target \in Backends \cup {Gateway},
         Route(r, form, q, group, target)
  PROVE  Inductive'
<1> DEFINE m == Message(form, q)
           id == ExtractQueryId(m)
           known == q \in told \ unread
           c == [stage |-> "routed", form |-> form, about |-> q, group |-> group,
                 owed |-> known, target |-> target, query |-> NoId]
<1>0. q \in Queries \cup {NoId} /\ id \in Ids \cup {NoId, BadPath}
  BY IdsAreQueries
<1>1. c \in Records
  BY <1>0 DEF Records
<1>2. request' = [request EXCEPT ![r] = c] /\ UNCHANGED <<home, told, unread>>
  BY DEF Route
<1>3. \/ ~IsPathWhiteListed(m) /\ UNCHANGED mapped
      \/ IsPathWhiteListed(m) /\ id = NoId /\ target \in Provided(group) /\ UNCHANGED mapped
      \/ IsPathWhiteListed(m) /\ id \in Ids /\ target \in Found(id)
         /\ mapped' = [mapped EXCEPT ![id] = target]
  BY <1>0 DEF Route
<1>4. Provided(group) \subseteq Backends /\ \A i \in Ids : Found(i) \subseteq Backends
  BY PathConstants, FoundIs DEF Provided
<1>5. \A i \in Ids : mapped[i] # NoBackend => mapped'[i] = mapped[i]
  BY <1>3, FoundIs DEF Inductive, Typed
<1>6. mapped' \in [Ids -> Backends \cup {NoBackend}] /\ Kept
  <2>1. mapped' \in [Ids -> Backends \cup {NoBackend}]
    BY <1>3, <1>4 DEF Inductive, Typed
  <2>2. Kept
    BY <1>5 DEF Kept, Ids
  <2> QED
    BY <2>1, <2>2
<1>7. Mapped'
  BY <1>2, <1>6 DEF Inductive, Typed, Mapped, Kept
<1>8. form \in Statements => target \in Backends
  BY <1>3, <1>4, StatementsAreWhiteListed
<1>9. known => q \in Queries /\ home[q] # NoBackend /\ mapped[q] = home[q]
  BY DEF Inductive, Typed, Mapped
<1>10. ASSUME known, form \in MeantForHome \ Unseen PROVE target = home[q]
  <2>1. id = q /\ q \in Ids /\ IsPathWhiteListed(m)
    BY <1>9, <1>10, SeenFormsAreRead DEF Ids
  <2>2. q # NoId
    BY <1>9, <1>10, PathConstants
  <2>3. target \in Found(q)
    BY <1>3, <2>1, <2>2
  <2> QED
    BY <1>9, <1>10, <2>1, <2>3, FoundIs
<1>11. ASSUME form = "select" PROVE target \in Provided(group)
  <2>1. id = NoId /\ IsPathWhiteListed(m)
    BY <1>0, <1>11, SelectIsAboutNothing, StatementsAreWhiteListed DEF Statements
  <2> QED
    BY <1>3, <2>1, PathConstants DEF Ids
<1>12. Sound(c)'
  <2>1. /\ c.stage = "routed" /\ c.form = form /\ c.about = q /\ c.group = group
        /\ c.owed = known /\ c.target = target
    OBVIOUS
  <2>2. PICK d \in Records : d = c
    BY <1>1
  <2> HIDE DEF c, known, m, id
  <2>3. Sound(d)'
    BY <2>1, <2>2, <1>2, <1>8, <1>9, <1>10, <1>11 DEF Sound, Provided
  <2>4. c' = d
    <3>1. known' = known
      BY <1>2 DEF known
    <3> QED
      BY <2>2, <3>1 DEF c
  <2> QED
    BY <2>3, <2>4 DEF Sound, Provided
<1>13. told' \subseteq Queries /\ unread' \subseteq told'
  BY <1>2 DEF Inductive, Typed
<1>14. home' \in [Queries -> Backends \cup {NoBackend}]
  BY <1>2 DEF Inductive, Typed
<1> QED
  BY <1>1, <1>2, <1>6, <1>7, <1>12, <1>13, <1>14, RequestStep

LEMMA RouteFailsStep ==
  ASSUME Inductive, NEW r \in Requests, NEW form \in Forms, NEW q \in Subjects(form),
         RouteFails(r, form, q)
  PROVE  Inductive'
<1>1. Failed \in Records /\ Failed.stage = "failed" /\ ~Failed.owed /\ Failed.form = "own"
  BY PathConstants DEF Records, Failed, Forms
<1>2. request' = [request EXCEPT ![r] = Failed] /\ UNCHANGED <<home, mapped, told, unread>>
  BY DEF RouteFails
<1>3. Sound(Failed)'
  BY <1>1 DEF Sound, Statements, Kills
<1>4. Mapped' /\ Kept
  BY <1>2 DEF Inductive, Mapped, Kept
<1> QED
  BY <1>1, <1>2, <1>3, <1>4, RequestStep DEF Inductive, Typed

(* A request moves on with a query; what it was about stays. *)
LEMMA MovedStep ==
  ASSUME Inductive, NEW r \in Requests, NEW q \in Queries \cup {NoId},
         NEW stage \in {"accepted", "saved", "answered"}, Moved(r, stage, q),
         request[r].stage \in {"routed", "accepted", "saved"},
         home' \in [Queries -> Backends \cup {NoBackend}],
         \A i \in Queries : home[i] # NoBackend => home'[i] = home[i],
         mapped' \in [Ids -> Backends \cup {NoBackend}], Kept,
         told' \subseteq Queries, unread' \subseteq told', Mapped',
         stage # "answered" =>
           q \in Queries /\ request[r].target \in Backends /\ home'[q] = request[r].target,
         stage = "saved" => mapped'[q] = home'[q]
  PROVE  Inductive'
<1>1. PICK old \in Records : old = request[r] /\ Sound(old)
  BY DEF Inductive, Typed
<1>2. PICK c \in Records :
        c = [stage |-> stage, form |-> old.form, about |-> old.about, group |-> old.group,
             owed |-> old.owed, target |-> old.target, query |-> q]
  BY DEF Records
<1>3. /\ c.stage = stage /\ c.form = old.form /\ c.about = old.about
      /\ c.group = old.group /\ c.owed = old.owed /\ c.target = old.target /\ c.query = q
  BY <1>2
<1>4. request' = [request EXCEPT ![r] = c]
  BY <1>1, <1>2 DEF Moved
<1>5. Sound(c)'
  <2>1. old.owed => old.about \in Queries /\ home'[old.about] = home[old.about]
    BY <1>1 DEF Sound
  <2>2. old.form = "select" => old.target \in Provided(old.group)
    BY <1>1 DEF Sound
  <2> QED
    BY <1>1, <1>3, <2>1, <2>2 DEF Sound, Provided
<1> QED
  BY <1>4, <1>5, RequestStep

LEMMA AcceptStep ==
  ASSUME Inductive, NEW r \in Requests, NEW q \in Queries, Accept(r, q)
  PROVE  Inductive'
<1>1. request[r].target \in Backends /\ request[r].stage = "routed"
  BY DEF Inductive, Sound, Accept
<1>2. /\ home' \in [Queries -> Backends \cup {NoBackend}]
      /\ home'[q] = request[r].target
      /\ \A i \in Queries : home[i] # NoBackend => home'[i] = home[i]
  BY <1>1 DEF Accept, Inductive, Typed
<1>3. Moved(r, "accepted", q) /\ UNCHANGED <<mapped, told, unread>>
  BY DEF Accept
<1>4. Mapped' /\ Kept
  BY <1>2, <1>3 DEF Inductive, Mapped, Kept, Typed
<1>5. /\ mapped' \in [Ids -> Backends \cup {NoBackend}]
      /\ told' \subseteq Queries /\ unread' \subseteq told'
  BY <1>3 DEF Inductive, Typed
<1> QED
  BY <1>1, <1>2, <1>3, <1>4, <1>5, MovedStep

LEMMA AnswerStep ==
  ASSUME Inductive, NEW r \in Requests, Answer(r)
  PROVE  Inductive'
<1>1. Mapped' /\ Kept
  BY DEF Answer, Inductive, Mapped, Kept
<1> QED
  BY <1>1, MovedStep DEF Answer, Inductive, Typed

LEMMA SaveStep ==
  ASSUME Inductive, NEW r \in Requests, Save(r)
  PROVE  Inductive'
<1>1. PICK q \in Queries : q = request[r].query
  BY DEF Inductive, Sound, Save
<1>2. /\ request[r].target \in Backends /\ home[q] = request[r].target
      /\ request[r].stage = "accepted"
  BY <1>1 DEF Inductive, Sound, Save
<1>3. /\ mapped' \in [Ids -> Backends \cup {NoBackend}]
      /\ \A i \in Ids : mapped'[i] = IF i = q THEN home[q] ELSE mapped[i]
  BY <1>1, <1>2 DEF Save, Inductive, Typed, Ids
<1>4. UNCHANGED <<home, told, unread>> /\ Moved(r, "saved", q)
  BY <1>1 DEF Save
<1>5. Mapped' /\ Kept
  BY <1>3, <1>4 DEF Inductive, Mapped, Kept, Typed, Ids
<1>6. /\ told' \subseteq Queries /\ unread' \subseteq told'
      /\ home' \in [Queries -> Backends \cup {NoBackend}]
  BY <1>4 DEF Inductive, Typed
<1>7. mapped'[q] = home'[q]
  BY <1>3, <1>4 DEF Ids
<1> QED
  BY <1>2, <1>3, <1>4, <1>5, <1>6, <1>7, MovedStep

LEMMA PassOnStep ==
  ASSUME Inductive, NEW r \in Requests, PassOn(r)
  PROVE  Inductive'
<1>1. PICK q \in Queries : q = request[r].query
  BY DEF Inductive, Sound, PassOn
<1>2. /\ request[r].stage \in {"accepted", "saved"} /\ home[q] # NoBackend
      /\ request[r].stage = "saved" => mapped[q] = home[q]
  BY <1>1, PathConstants DEF Inductive, Sound, PassOn
<1>3. /\ told' = told \cup {q} /\ UNCHANGED <<home, mapped>> /\ Moved(r, "answered", q)
      /\ unread' = IF request[r].stage = "accepted" THEN unread \cup {q} ELSE unread
  BY <1>1 DEF PassOn
<1>4. told' \subseteq Queries /\ unread' \subseteq told'
  BY <1>3 DEF Inductive, Typed
<1>5. Mapped' /\ Kept
  BY <1>2, <1>3 DEF Inductive, Mapped, Kept
<1> QED
  BY <1>2, <1>3, <1>4, <1>5, MovedStep DEF Inductive, Typed

-----------------------------------------------------------------------------
LEMMA InitHolds == ASSUME Init PROVE Inductive
<1>1. Idle \in Records /\ Idle.stage = "idle" /\ ~Idle.owed
  BY PathConstants DEF Idle, Records, Forms
<1>2. Typed /\ Mapped
  BY <1>1, PathConstants DEF Init, Typed, Mapped
<1>3. Sound(Idle)
  BY <1>1 DEF Sound
<1>4. \A r \in Requests : request[r] = Idle
  BY DEF Init
<1> QED
  BY <1>2, <1>3, <1>4 DEF Inductive

LEMMA NextHolds == ASSUME Inductive, [Next]_vars PROVE Inductive'
<1>1. CASE UNCHANGED vars
  BY <1>1 DEF vars, Inductive, Typed, Mapped, Sound, Provided
<1>2. ASSUME NEW r \in Requests, Serve(r) PROVE Inductive'
  <2>1. ASSUME NEW form \in Forms, NEW q \in Subjects(form), RouteFails(r, form, q)
        PROVE  Inductive'
    BY <2>1, RouteFailsStep
  <2>2. ASSUME NEW form \in Forms, NEW q \in Subjects(form), NEW group \in Groups,
               NEW target \in Backends \cup {Gateway}, Route(r, form, q, group, target)
        PROVE  Inductive'
    BY <2>2, RouteStep
  <2>3. ASSUME NEW q \in Queries, Accept(r, q) PROVE Inductive'
    BY <2>3, AcceptStep
  <2>4. CASE Answer(r)
    BY <2>4, AnswerStep
  <2>5. CASE Save(r)
    BY <2>5, SaveStep
  <2>6. CASE PassOn(r)
    BY <2>6, PassOnStep
  <2> QED
    BY <1>2, <2>1, <2>2, <2>3, <2>4, <2>5, <2>6 DEF Serve
<1> QED
  BY <1>1, <1>2 DEF Next

LEMMA AlwaysInductive == Spec => []Inductive
<1>1. Init => Inductive
  BY InitHolds
<1>2. Inductive /\ [Next]_vars => Inductive'
  BY NextHolds
<1> QED
  BY <1>1, <1>2, PTL DEF Spec

(* The handler's state stays well typed: it saves nothing but the ids of   *)
(* statements' responses.                                                  *)
THEOREM TypeCorrect == Spec => []TypeOK
<1>1. Inductive => TypeOK
  BY InductiveImplies
<1> QED
  BY <1>1, AlwaysInductive, PTL

(* A client that knows a query's id can rely on the mapping, for any       *)
(* number of requests in flight, unless the response that told it did not  *)
(* parse.                                                                  *)
THEOREM AlwaysMapped == Spec => []ToldIsMapped
<1>1. Inductive => ToldIsMapped
  BY InductiveImplies
<1> QED
  BY <1>1, AlwaysInductive, PTL

(* Requests in the forms the handler reads reach the query's backend, once *)
(* its id was told by a response that parsed.                              *)
THEOREM SeenFormsAlwaysGoHome == Spec => []SeenFormsGoHome
<1>1. Inductive => SeenFormsGoHome
  BY InductiveImplies
<1> QED
  BY <1>1, AlwaysInductive, PTL

(* Statements that quote no kill keep to their routing group. *)
THEOREM StatementsAlwaysKeepGroup == Spec => []StatementsKeepGroup
<1>1. Inductive => StatementsKeepGroup
  BY InductiveImplies
<1> QED
  BY <1>1, AlwaysInductive, PTL
=============================================================================
